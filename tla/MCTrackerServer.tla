---------------------------- MODULE MCTrackerServer ----------------------------
(***************************************************************************)
(* Instances of TrackerServer and PatientClients for TLC.  The clients     *)
(* take at most Budget steps (connecting, sending, leaving): then the      *)
(* tracker works off what they left it.                                    *)
(***************************************************************************)
EXTENDS PatientClients

CONSTANTS
  Budget,           \* bound: steps of the clients
  Commands          \* the operations clients use

VARIABLE left       \* what is left of the budget

meta == [name |-> "n", size |-> 2, psize |-> 1]
MCMetas == {meta}

AnnounceOf(p, type, k) ==
  [op |-> "announce", port |-> p,
   parts |-> <<[type |-> type, whole |-> TRUE, items |-> <<[key |-> k, meta |-> meta]>>]>>]

MCRequests ==
  {m \in {AnnounceOf(p, "seed", k) : p \in Ports, k \in Keys}
         \cup {[op |-> "update", tokens |-> <<mode, k>>] : mode \in {"seed", "leech"}, k \in Keys}
         \cup {[op |-> "exit"], [op |-> "unknown"]} :
     m.op \in Commands}
  \cup (IF "leech" \in Commands
        THEN {AnnounceOf(p, "leech", k) : p \in Ports, k \in Keys}
        ELSE {})

mcVars == <<vars, left>>
Spend == left > 0 /\ left' = left - 1
Keep == UNCHANGED left

MCInit == Init /\ left = Budget
MCDial(c) == Dial(c) /\ Spend
MCSend(fd, m) == Send(fd, m) /\ Spend
MCLeave(fd) == Leave(fd) /\ Spend
MCMain == MainStep /\ Keep
MCRace == Race /\ Keep
MCWorker(w) == WorkerStep(w) /\ Keep

MCNext ==
  \/ \E c \in Remotes : MCDial(c)
  \/ \E fd \in Fds : MCLeave(fd) \/ \E m \in Requests : MCSend(fd, m)
  \/ MCMain \/ MCRace
  \/ \E w \in Workers : MCWorker(w)

MCFairness == WF_mcVars(MCMain) /\ \A w \in Workers : WF_mcVars(MCWorker(w))
MCSpec == MCInit /\ [][MCNext]_mcVars /\ MCFairness

\* The same with clients that behave as the Java peers do.
MCPatient == PatientStep /\ Spend

MCPatientNext ==
  \/ MCPatient
  \/ MCMain \/ MCRace
  \/ \E w \in Workers : MCWorker(w)

MCPatientSpec == MCInit /\ [][MCPatientNext]_mcVars

Symmetric == Permutations(Ips) \cup Permutations(Workers)
=============================================================================
