---------------------------- MODULE ServiceTree ----------------------------
(***************************************************************************)
(* Services of actix-service put together by its combinators.  A composed  *)
(* factory, and the service it makes, is a term; it is written in postfix  *)
(* order, a sequence in which a combinator follows what it was applied to. *)
(* A node is a position in it, and has a kind and the number of the nodes  *)
(* of the term that ends there.                                            *)
(*                                                                         *)
(* The constructors are the functions of ext.rs and pipeline.rs and the    *)
(* free functions of the crate.                                            *)
(***************************************************************************)
EXTENDS Naturals, Sequences, FiniteSets, FiniteSetsExt, SequencesExt

VARIABLE tree

Leaf == {"factory", "fn_service"}
Pair == {"and_then", "then"}
Transforms == {"transform", "transform_err", "tracing"}
Wrapper ==
    {"map", "map_err", "map_init_err", "map_config", "unit_config", "apply_fn", "held",
     "apply_cfg"} \cup Transforms

(* What there is for services too: ServiceExt, apply_fn, Pipeline, Box, Rc. *)
Combined == Leaf \cup Pair \cup {"map", "map_err", "apply_fn", "held"}

-----------------------------------------------------------------------------
(* Constructors.                                                            *)

One(kind) == <<[kind |-> kind, size |-> 1]>>
Over(t, kind) == Append(t, [kind |-> kind, size |-> Len(t) + 1])

(* Factories whose futures, and the services these give, are the user's. *)
fn_factory == One("factory")
fn_factory_with_config == One("factory")
apply_cfg == One("factory")

fn_service == One("fn_service")

and_then(t, u) == Over(t \o u, "and_then")
then(t, u) == Over(t \o u, "then")
map(t) == Over(t, "map")
map_err(t) == Over(t, "map_err")
map_init_err(t) == Over(t, "map_init_err")
map_config(t) == Over(t, "map_config")
unit_config(t) == Over(t, "unit_config")
apply_fn_factory(t) == Over(t, "apply_fn")
apply_cfg_factory(t) == Over(t, "apply_cfg")
trace(t) == Over(t, "tracing")

(* apply(transform, factory) and apply(transform.map_init_err(f), factory). *)
apply(t) == Over(t, "transform")
apply_mapped(t) == Over(t, "transform_err")

(* What hands every call to the one it holds: a boxed factory and service,  *)
(* Rc and Arc, a pipeline.                                                  *)
boxed_factory(t) == Over(t, "held")
shared(t) == Over(t, "held")
pipeline_factory(t) == Over(t, "held")

(* A pipeline chains inside itself. *)
pipeline_and_then(p, t) == pipeline_factory(and_then(Front(p), t))
pipeline_then(p, t) == pipeline_factory(then(Front(p), t))
pipeline_map(p, kind) == pipeline_factory(Over(Front(p), kind))

-----------------------------------------------------------------------------
(* The shape of a term.                                                     *)

(* What a node can be, and how it fits what precedes it in the sequence t.  *)
NodeKind == [kind : Leaf \cup Wrapper \cup Pair, size : Nat \ {0}]

Fits(t, n) ==
    \/ t[n].kind \in Leaf /\ t[n].size = 1
    \/ t[n].kind \in Wrapper /\ n > 1 /\ t[n].size = t[n - 1].size + 1
    \/ /\ t[n].kind \in Pair /\ n > 1
       /\ \E first \in 1 .. n - 2 :
             /\ first = n - 1 - t[n - 1].size
             /\ t[n].size = t[n - 1].size + t[first].size + 1

(* A term as the constructors make it. *)
Term(t) ==
    /\ t \in Seq(NodeKind) /\ t # <<>> /\ t[Len(t)].size = Len(t)
    /\ \A n \in DOMAIN t : Fits(t, n)

Node == DOMAIN tree
Root == Len(tree)
Is(n, kinds) == tree[n].kind \in kinds
Width(n) == tree[n].size

(* What a combinator was applied to: the only or second operand, the first. *)
Second(n) == n - 1
First(n) == IF Is(n, Pair) THEN n - 1 - Width(n - 1) ELSE n - 1

Above(n) == {m \in Node : m > n /\ m - Width(m) < n}
Parent(n) == Min(Above(n))
Within(n) == n - Width(n) + 1 .. n

(* The services the service of n consists of: what apply_cfg returns is the *)
(* user's, made from the one below it.                                      *)
IsService(n) == Is(n, Leaf \cup {"apply_cfg"})
Services(n) == {l \in Within(n) : IsService(l) /\ \A m \in Above(l) : m <= n => ~IsService(m)}
=============================================================================
