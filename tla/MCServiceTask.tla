--------------------------- MODULE MCServiceTask ---------------------------
(***************************************************************************)
(* The composed factories that TLC tries: every combinator over one leaf   *)
(* and over another combinator, both pairs around three leaves, and the    *)
(* ways in which their parts can be wrapped.                               *)
(***************************************************************************)
EXTENDS ServiceTask

(* Two wrappers over a leaf, in every order. *)
Wrapped == {Over(Over(fn_factory_with_config, k), l) : k, l \in Wrapper}

(* One pair, with a wrapper around one of its halves or around it. *)
Paired ==
    UNION {{and_then(Over(fn_factory_with_config, k), fn_factory_with_config),
            then(fn_factory_with_config, Over(fn_factory_with_config, k)),
            Over(and_then(fn_factory_with_config, fn_service), k),
            Over(then(fn_service, fn_factory_with_config), k)} : k \in Wrapper}

(* Two pairs, nested to the left and to the right. *)
Nested ==
    LET f == fn_factory_with_config
        ops(t, u) == {and_then(t, u), then(t, u)}
    IN  UNION {ops(p, f) \cup ops(f, p) : p \in ops(f, f)}

(* Longer terms of the constructors of the crate. *)
Mixed ==
    {pipeline_map(pipeline_then(pipeline_factory(map(apply_fn_factory(fn_factory_with_config))),
                                trace(fn_service)),
                  "map_err"),
     pipeline_and_then(pipeline_factory(shared(fn_factory)), map_err(fn_factory)),
     map(and_then(fn_factory, apply_cfg)),
     map_init_err(and_then(apply_mapped(fn_factory_with_config),
                           apply_cfg_factory(map_err(fn_factory_with_config)))),
     unit_config(and_then(boxed_factory(map_config(fn_factory_with_config)),
                          apply(fn_factory_with_config))),
     map_config(apply_cfg_factory(and_then(fn_factory_with_config, fn_factory_with_config)))}

MCTrees == Wrapped \cup Paired \cup Nested \cup Mixed
=============================================================================
