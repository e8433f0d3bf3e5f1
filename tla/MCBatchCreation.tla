---- MODULE MCBatchCreation ----
(***************************************************************************)
(* Instances of BatchCreation for TLC.                                     *)
(***************************************************************************)
EXTENDS BatchCreation

\* With Aux and EntryAux of 1 and a maximum of 7: two or three payloads to a
\* secret, one to a secret, one exactly filling it, and one too large for any.
SomeSizes == {0, 1, 2, 4, 5, 6}

Payloads(n) == UNION {[1..k -> SomeSizes] : k \in 1..n}

\* Every sequence of up to MaxJobs payloads, in jobs that state nothing; of up
\* to two, where the component expects none.
PayloadRequests ==
  {[payload |-> p, own |-> [j \in DOMAIN p |-> Nothing], default |-> None, hasPath |-> TRUE] :
     p \in Payloads(MaxJobs)} \cup
  {[payload |-> p, own |-> [j \in DOMAIN p |-> Nothing], default |-> None, hasPath |-> FALSE] :
     p \in Payloads(2)}

Entries2(K, V) == UNION {[D -> V] : D \in SUBSET K}

Values(f) ==
  CASE f = "limit" -> {None, 0, 1, 2}
    [] f = "args" -> {None, <<>>, <<"a">>, <<"b">>}
    [] f = "runtime" -> {None, "unspecified", "amd64"}
    [] f = "image" -> {None, "a", "b"}
    [] f = "variables" -> Entries2({"x", "y"}, {"1", "2"})
    [] f = "resources" -> {None} \cup Entries2({"cpu", "memory"}, {"1", "2"})

\* Two jobs, a third that states nothing, and the defaults: the fields are
\* merged one by one, so it is enough to let one of them vary.
DescriptionsOf(f) == {[Nothing EXCEPT ![f] = v] : v \in Values(f)}

DescriptionRequests ==
  UNION {{[payload |-> <<0, 0, 0>>, own |-> <<v, w, Nothing>>, default |-> d, hasPath |-> FALSE] :
             v \in DescriptionsOf(f), w \in DescriptionsOf(f), d \in DescriptionsOf(f) \cup {None}} :
          f \in DOMAIN Nothing}

AllRequests == PayloadRequests \cup DescriptionRequests

====
