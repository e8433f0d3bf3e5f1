---- MODULE JobDefaults ----
(***************************************************************************)
(* Merging the description of a job with the defaults of its batch.        *)
(*                                                                         *)
(* A description has one field for each way of merging:                    *)
(*   image      a string                    Image, ImageTagName            *)
(*   limit      a pointer to a number       BackoffLimit, TimeLimitSeconds *)
(*   args       a pointer to a list         Command, Args, FailurePolicy   *)
(*   runtime    a pointer, taken as a whole Runtime                        *)
(*   variables  a map                       Variables                      *)
(*   resources  a pointer to maps           Resources, Node                *)
(* The maps are partial functions; an empty string in Node is a missing    *)
(* key.  The merge writes through the pointers of the configuration that   *)
(* it merges into.                                                         *)
(***************************************************************************)
EXTENDS Naturals, Sequences

CONSTANT None  \* a nil pointer, an empty string, and a batch without defaults

NoEntries == [k \in {} |-> None]

Nothing ==
  [image |-> None, limit |-> None, args |-> None, runtime |-> None,
   variables |-> NoEntries, resources |-> None]

\* Variables are a map, possibly an empty one; resources are a pointer.
IsMap(f) == f = [k \in DOMAIN f |-> f[k]]

IsDescription(d) ==
  /\ IsMap(d) /\ DOMAIN d = DOMAIN Nothing
  /\ d.variables # None /\ IsMap(d.variables)
  /\ d.resources # None => IsMap(d.resources)

\* (A slip to test the properties with: without WithOverrideEmptySlice.)
OverrideUnlessEmpty(under, own) == IF own \in {None, <<>>} THEN under ELSE own

\* What is stated overrides; a list that is stated empty is stated.
Override(under, own) == IF own = None THEN under ELSE own

\* Two pointers are followed, and a number that is zero does not override.
OverrideNumber(under, own) ==
  IF under # None /\ own = 0 THEN under ELSE Override(under, own)

\* The keys of both maps, each with its own value if it has one.
MergeKeys(under, own) ==
  [k \in DOMAIN under \cup DOMAIN own |-> IF k \in DOMAIN own THEN own[k] ELSE under[k]]

OverrideEntries(under, own) ==
  IF None \in {under, own} THEN Override(under, own) ELSE MergeKeys(under, own)

Merge(under, own) ==
  [image     |-> Override(under.image, own.image),
   limit     |-> OverrideNumber(under.limit, own.limit),
   args      |-> Override(under.args, own.args),
   runtime   |-> Override(under.runtime, own.runtime),
   variables |-> MergeKeys(under.variables, own.variables),
   resources |-> OverrideEntries(under.resources, own.resources)]

\* The configuration of a job: the defaults are merged into nothing, and then
\* the job's description into that.
Configured(default, own) ==
  IF default = None THEN own ELSE Merge(Merge(Nothing, default), own)

\* What the second merge makes of the defaults themselves, which share their
\* pointers with the configuration: hence the copy that each job is given.
WrittenThrough(default, own) ==
  IF default = None THEN None
  ELSE LET merged == Configured(default, own)
           Shared(f) == IF default[f] = None THEN None ELSE merged[f]
       IN  [default EXCEPT !.limit = Shared("limit"), !.args = Shared("args"),
                           !.resources = Shared("resources")]

====
