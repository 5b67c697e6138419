---------------------------- MODULE AccessManager ----------------------------
(***************************************************************************)
(* Manila's share manager as update_access sees it: the rules of one share *)
(* and the state the manager shows for each of them.  It is not part of    *)
(* the driver and is modelled from how the driver is called: one call of a *)
(* share at a time, with add_rules, update_rules and delete_rules, or with *)
(* none of them for a full sync.  Only when the call returns are the       *)
(* states it returns for the rules stored, and the rules denied dropped.   *)
(***************************************************************************)
CONSTANT Client     \* what rules name: a share has one rule per client at most

Level == {"rw", "ro"}
Other(level) == IF level = "rw" THEN "ro" ELSE "rw"

RuleState == {"none", "queued", "active", "error", "denying"}

\* What a call returns for a rule, "none" if it says nothing of it.
Answer == {"none", "active", "error"}
NoAnswer == [c \in Client |-> "none"]

VARIABLES
    want,      \* the level each client is to have, "none" without a rule
    state      \* what the manager shows for the client's rule

ManagerTypeOK == /\ want \in [Client -> Level \cup {"none"}]
                 /\ state \in [Client -> RuleState]

NoRules == /\ want = [c \in Client |-> "none"]
           /\ state = [c \in Client |-> "none"]

Ruled == {c \in Client : want[c] # "none"}

(***************************************************************************)
(* New rules, rules whose level changes, and rules to deny -- also those   *)
(* an earlier call failed to deny.                                         *)
(***************************************************************************)
HandsOver(add, upd, del) ==
    /\ add \cup upd \cup del # {}
    /\ \A c \in add : want[c] = "none" /\ state[c] = "none"
    /\ \A c \in upd : want[c] # "none"
    /\ \A c \in del : state[c] # "none" /\ c \notin upd
    /\ \E level \in [add -> Level] :
          want' = [c \in Client |-> CASE c \in add -> level[c]
                                      [] c \in upd -> Other(want[c])
                                      [] c \in del -> "none"
                                      [] OTHER -> want[c]]
    /\ state' = [c \in Client |-> CASE c \in add \cup upd -> "queued"
                                    [] c \in del -> "denying"
                                    [] OTHER -> state[c]]

\* A full sync hands over every rule; those that were being denied are gone.
HandsOverAll ==
    /\ state' = [c \in Client |-> IF want[c] = "none"
                                  THEN "none" ELSE state[c]]
    /\ UNCHANGED want

(***************************************************************************)
(* update_access returns an answer for each rule: the answers are stored,  *)
(* a rule in transition that the answer leaves out is taken to be active,  *)
(* and the rules denied are dropped.                                       *)
(***************************************************************************)
Stores(answer) ==
    /\ state' = [c \in Client |->
                    IF answer[c] # "none"       THEN answer[c]
                    ELSE IF state[c] = "queued"  THEN "active"
                    ELSE IF state[c] = "denying" THEN "none"
                    ELSE state[c]]
    /\ UNCHANGED want

(***************************************************************************)
(* update_access raises: the rules in transition are in error, whatever it *)
(* had to say of them.                                                     *)
(***************************************************************************)
MarksError ==
    /\ state' = [c \in Client |-> IF state[c] \in {"queued", "denying"}
                                  THEN "error" ELSE state[c]]
    /\ UNCHANGED want
=============================================================================
