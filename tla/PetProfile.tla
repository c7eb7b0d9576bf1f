------------------------------ MODULE PetProfile ------------------------------
(***************************************************************************)
(* What the pet service promises an owner, with no calls, copies, versions  *)
(* or columns in sight: a profile is a card that is opened once, revised    *)
(* entry by entry and shelved once and for all.  A revision replaces the    *)
(* entries it names, keeps the others as they are at that moment, and never *)
(* blanks one.  PetService shows that it implements it.                     *)
(***************************************************************************)
EXTENDS Integers

CONSTANTS Profiles, Keepers,
          NoCard,    \* the card of a profile that was never opened
          Words, NoWord,
          Weighings  \* the weights a card can show

VARIABLES
  stage, \* "none", "kept" or "shelved"
  card   \* the keeper and the entries

profileVars == <<stage, card>>

ProfileInit ==
  /\ stage = [p \in Profiles |-> "none"]
  /\ card = [p \in Profiles |-> NoCard]

Card(keeper, name, notes, weight) ==
  [keeper |-> keeper, name |-> name, notes |-> notes, weight |-> weight]

Open(p) ==
  /\ stage[p] = "none"
  /\ stage' = [stage EXCEPT ![p] = "kept"]
  /\ \E keeper \in Keepers, name \in Words, notes \in Words \cup {NoWord}, weight \in Weighings :
       card' = [card EXCEPT ![p] = Card(keeper, name, notes, weight)]

Revise(p) ==
  /\ stage[p] # "none"
  /\ \E name \in Words \cup {card[p].name}, notes \in Words \cup {card[p].notes},
        weight \in {w \in Weighings : w >= 0} \cup {card[p].weight} :
       card' = [card EXCEPT ![p] = Card(card[p].keeper, name, notes, weight)]
  /\ UNCHANGED stage

Shelve(p) ==
  /\ stage[p] = "kept"
  /\ stage' = [stage EXCEPT ![p] = "shelved"]
  /\ UNCHANGED card

ProfileNext == \E p \in Profiles : Open(p) \/ Revise(p) \/ Shelve(p)

Profile == ProfileInit /\ [][ProfileNext]_profileVars

=============================================================================
