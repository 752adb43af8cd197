----------------------------- MODULE KeptTable -----------------------------
(***************************************************************************)
(* What logical deletion and the optimistic lock promise ("prevent         *)
(* accidental deletion of data", "prevent concurrent competition to modify *)
(* records", README.md:26-27): a row that is gone is neither seen nor      *)
(* changed again, and nobody overwrites a row that has changed since he    *)
(* read it.                                                                *)
(***************************************************************************)
CONSTANTS
  Clients, Ids,
  Contents,  \* what a row may hold
  Gone

VARIABLES
  live,      \* the rows: their contents, or Gone
  current,   \* who has read which row as it is now: pairs of client and id
  removed,   \* the rows that have been deleted
  promise    \* what is promised: [keep |-> logical deletion, lock |-> optimistic lock]

vars == <<live, current, removed, promise>>

Init ==
  /\ live \in [Ids -> Contents \cup {Gone}]
  /\ current = {} /\ removed = {}
  /\ promise \in [keep : BOOLEAN, lock : BOOLEAN]

Present == {i \in Ids : live[i] # Gone}

Read(c, i) ==
  /\ i \in Present
  /\ current' = (current \ ({c} \X Ids)) \cup {<<c, i>>}
  /\ UNCHANGED <<live, removed, promise>>

(* An id that has been deleted for good may be used again; whoever still   *)
(* has a copy of the old row is then none the wiser.                       *)
Add(new) ==
  /\ new # {} /\ new \cap Present = {}
  /\ promise.keep => new \cap removed = {}
  /\ live' \in [Ids -> Contents \cup {Gone}]
  /\ \A i \in Ids : (live'[i] # live[i]) <=> (i \in new)
  /\ current' \in SUBSET (Clients \X Ids) /\ current \subseteq current'
  /\ current' \ current \subseteq Clients \X (new \cap removed)
  /\ UNCHANGED <<removed, promise>>

Change(c, some) ==
  /\ some # {} /\ some \subseteq Present
  /\ promise.lock => {c} \X some \subseteq current
  /\ live' \in [Ids -> Contents \cup {Gone}]
  /\ \A i \in Ids : i \notin some => live'[i] = live[i]
  /\ \A i \in some : live'[i] # Gone
  /\ promise.lock => current' = current \ (Clients \X some)
  /\ current' \in SUBSET (Clients \X Ids)
  /\ UNCHANGED <<removed, promise>>

Remove(some) ==
  /\ some # {} /\ some \subseteq Present
  /\ live' = [i \in Ids |-> IF i \in some THEN Gone ELSE live[i]]
  /\ current' = current \ (Clients \X some)
  /\ removed' = removed \cup some
  /\ UNCHANGED promise

Next ==
  \/ \E c \in Clients, i \in Ids : Read(c, i)
  \/ \E new \in SUBSET Ids : Add(new)
  \/ \E c \in Clients, some \in SUBSET Ids : Change(c, some)
  \/ \E some \in SUBSET Ids : Remove(some)

Spec == Init /\ [][Next]_vars
=============================================================================
