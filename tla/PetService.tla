------------------------------ MODULE PetService ------------------------------
(***************************************************************************)
(* Pet profiles: domain/pet/pet.go, application/pet_service.go and          *)
(* repository/pet_repository.go.  Goroutines read a profile, change the     *)
(* copy and write it back under a version check; deleting archives.         *)
(* Two conversions stand between the copy and the row: GORM's Updates on a  *)
(* struct writes the fields that are not zero, and weight_kg is a           *)
(* decimal(5,2).  The text fields behave alike, so one required (name) and  *)
(* one optional (notes) stand for all; a weight is in grams.                *)
(* history is an auxiliary variable: the rows ever committed, per pet.      *)
(***************************************************************************)
EXTENDS Integers, Sequences

CONSTANTS Pets,       \* profile ids
          NoPet,      \* an id with no row, and a call without a copy
          NoPetId,    \* the id of a call that has none
          Owners,     \* owner ids
          Texts,      \* texts
          NoText,     \* the empty text
          Weights,    \* the sizes of the weights requests name, in grams
          Requests,   \* the goroutines that serve calls
          MaxVersion, \* bound: versions of one profile
          Faults      \* what may go wrong: "db", "crash"

PetStatuses == {"active", "archived"}

PetRows ==
  [owner : Owners, name : Texts, notes : Texts \cup {NoText}, weightKg : Int,
   status : PetStatuses, version : Nat \ {0}]

ASSUME NoPetAssumption == NoPet \notin PetRows
ASSUME NoPetIdAssumption == NoPetId \notin Pets
ASSUME NoTextAssumption == NoText \notin Texts
ASSUME WeightsAssumption == Weights \subseteq Nat
ASSUME MaxVersionAssumption == MaxVersion \in Nat
ASSUME PetFaultsAssumption == Faults \subseteq {"db", "crash"}

VARIABLES
  pets,    \* table pets, by id: a row or NoPet
  calls,   \* the call each goroutine is serving
  history  \* the rows committed so far, per id

vars == <<pets, calls, history>>

-----------------------------------------------------------------------------
(* The aggregate. *)

NewPet(owner, name, notes, w) ==
  [owner |-> owner, name |-> name, notes |-> notes, weightKg |-> w,
   status |-> "active", version |-> 1]

OrElse(text, old) == IF text = NoText THEN old ELSE text

\* Mutant: the profile is replaced, not merged.
Replaced(pet, name, notes, w) ==
  [pet EXCEPT !.name = OrElse(name, @), !.notes = notes, !.weightKg = w,
              !.version = @ + 1]

\* Pet.Update: an absent field, or a weight that is not positive, changes nothing.
Updated(pet, name, notes, w) ==
  [pet EXCEPT !.name = OrElse(name, @), !.notes = OrElse(notes, @),
              !.weightKg = IF w > 0 THEN w ELSE @, !.version = @ + 1]

Archived(pet) == [pet EXCEPT !.status = "archived", !.version = @ + 1]

\* Nothing keeps a request from naming a negative weight.
RequestWeights == Weights \cup {- w : w \in Weights}

-----------------------------------------------------------------------------
(* The row. *)

\* Rounding to whole hundredths of a kilogram, halves away from zero.
Hundredths(w) ==
  IF w >= 0 THEN 10 * ((w + 5) \div 10) ELSE 0 - 10 * ((5 - w) \div 10)

\* decimal(5,2): three digits before the point.
Fits(w) == Hundredths(w) > -1000000 /\ Hundredths(w) < 1000000

\* toPetModel and Create.
Inserted(pet) == [pet EXCEPT !.weightKg = Hundredths(@)]

\* toPetModel and Updates(model): the zero fields of the copy are left out.
Overwritten(row, pet) ==
  [pet EXCEPT !.name = OrElse(@, row.name), !.notes = OrElse(@, row.notes),
              !.weightKg = IF @ = 0 THEN row.weightKg ELSE Hundredths(@)]

-----------------------------------------------------------------------------
PetCalls ==
  [pc : {"idle", "save", "update", "reply"}, id : Pets \cup {NoPetId},
   pet : PetRows \cup {NoPet},
   reply : {"none", "ok", "not_found", "forbidden", "conflict", "validation", "error"}]

Idle == [pc |-> "idle", id |-> NoPetId, pet |-> NoPet, reply |-> "none"]

Refused(reason) == [Idle EXCEPT !.pc = "reply", !.reply = reason]

Writing(pc, p, pet) == [pc |-> pc, id |-> p, pet |-> pet, reply |-> "none"]

Answered(p, pet) == [pc |-> "reply", id |-> p, pet |-> pet, reply |-> "ok"]

Init ==
  /\ pets = [p \in Pets |-> NoPet]
  /\ calls = [q \in Requests |-> Idle]
  /\ history = [p \in Pets |-> << >>]

\* uuid.New: no row and no other call has the id.
FreshId(p) ==
  /\ pets[p] = NoPet
  /\ \A q \in Requests : calls[q].pc = "save" => calls[q].id # p

Goes(q, c) == calls' = [calls EXCEPT ![q] = c] /\ UNCHANGED <<pets, history>>

CreatePet(q) ==
  /\ calls[q] = Idle
  /\ \E owner \in Owners, name \in Texts, notes \in Texts \cup {NoText}, w \in RequestWeights :
       \E p \in Pets : FreshId(p) /\ Goes(q, Writing("save", p, NewPet(owner, name, notes, w)))

\* A malformed request, a pet without a name or a type.
RejectRequest(q) == calls[q] = Idle /\ Goes(q, Refused("validation"))

\* FindByID and IsOwnedBy, of the calls on one profile.
Refuse(q, p, owner) ==
  /\ calls[q] = Idle
  /\ \/ pets[p] = NoPet /\ Goes(q, Refused("not_found"))
     \/ pets[p] # NoPet /\ pets[p].owner # owner /\ Goes(q, Refused("forbidden"))

Owns(q, p, owner) == calls[q] = Idle /\ pets[p] # NoPet /\ pets[p].owner = owner

GetPet(q, p, owner) == Owns(q, p, owner) /\ Goes(q, Answered(p, pets[p]))

UpdatePet(q, p, owner) ==
  /\ Owns(q, p, owner)
  /\ pets[p].version < MaxVersion
  /\ \E name, notes \in Texts \cup {NoText}, w \in RequestWeights :
       Goes(q, Writing("update", p, Updated(pets[p], name, notes, w)))

DeletePet(q, p, owner) ==
  /\ Owns(q, p, owner)
  /\ pets[p].version < MaxVersion
  /\ Goes(q, Writing("update", p, Archived(pets[p])))

-----------------------------------------------------------------------------
(* The statements of the repository. *)

\* Mutant: UPDATE ... WHERE id = ?.
AnyVersion(p, pet) == TRUE

\* UPDATE ... WHERE id = ? AND version = ?, previousVersion := pet.Version() - 1.
VersionMatches(p, pet) == pets[p].version = pet.version - 1

CommitRow(p, row) ==
  /\ pets' = [pets EXCEPT ![p] = row]
  /\ history' = [history EXCEPT ![p] = Append(@, row)]

InsertRow(c) == c.pc = "save" /\ Fits(c.pet.weightKg) /\ CommitRow(c.id, Inserted(c.pet))

UpdateRow(c) ==
  /\ c.pc = "update"
  /\ VersionMatches(c.id, c.pet)
  /\ Fits(c.pet.weightKg)
  /\ CommitRow(c.id, Overwritten(pets[c.id], c.pet))

Write(q) ==
  /\ InsertRow(calls[q]) \/ UpdateRow(calls[q])
  /\ calls' = [calls EXCEPT ![q] = Answered(@.id, @.pet)]

\* numeric field overflow, on an insert and on an update that finds its row.
Overflows(q) ==
  /\ \/ calls[q].pc = "save"
     \/ calls[q].pc = "update" /\ VersionMatches(calls[q].id, calls[q].pet)
  /\ ~Fits(calls[q].pet.weightKg)
  /\ Goes(q, Refused("error"))

\* RowsAffected = 0.
Conflict(q) ==
  /\ calls[q].pc = "update"
  /\ ~VersionMatches(calls[q].id, calls[q].pet)
  /\ Goes(q, Refused("conflict"))

Respond(q) == calls[q].pc = "reply" /\ Goes(q, Idle)

-----------------------------------------------------------------------------
(* What may go wrong. *)

\* A statement fails, or the request's context is cancelled before it runs.
StatementFails(q) ==
  /\ "db" \in Faults
  /\ calls[q] = Idle \/ calls[q].pc \in {"save", "update"}
  /\ Goes(q, Refused("error"))

\* The database commits and the answer is lost: the service sees an error.
CommitUnseen(q) ==
  /\ "db" \in Faults
  /\ InsertRow(calls[q]) \/ UpdateRow(calls[q])
  /\ calls' = [calls EXCEPT ![q] = Refused("error")]

\* The process dies and starts again.
Crash ==
  /\ "crash" \in Faults
  /\ calls' = [q \in Requests |-> Idle]
  /\ UNCHANGED <<pets, history>>

-----------------------------------------------------------------------------
Arrive(q) ==
  \/ CreatePet(q) \/ RejectRequest(q)
  \/ \E p \in Pets, owner \in Owners :
       Refuse(q, p, owner) \/ GetPet(q, p, owner) \/ UpdatePet(q, p, owner) \/ DeletePet(q, p, owner)

Next ==
  \/ Crash
  \/ \E q \in Requests :
       \/ Arrive(q) \/ Write(q) \/ Overflows(q) \/ Conflict(q) \/ Respond(q)
       \/ StatementFails(q) \/ CommitUnseen(q)

Spec == Init /\ [][Next]_vars

-----------------------------------------------------------------------------
\* Every variable has its type (pet.go:18-35, pet_repository.go:15-32).
PetTypeOK ==
  /\ pets \in [Pets -> PetRows \cup {NoPet}]
  /\ calls \in [Requests -> PetCalls]
  /\ history \in [Pets -> Seq(PetRows)]

PetCreation(row) ==
  \E owner \in Owners, name \in Texts, notes \in Texts \cup {NoText}, w \in RequestWeights :
    row = Inserted(NewPet(owner, name, notes, w))

PetChange(old, new) ==
  \/ new = Inserted(Archived(old))
  \/ \E name, notes \in Texts \cup {NoText}, w \in RequestWeights :
       new = Inserted(Updated(old, name, notes, w))

\* No lost update: every committed version of a profile is one merge or one
\* archiving away from the version committed before it, although the copies
\* were changed earlier and at once (pet_service.go:120-166).
PetVersionsAreChanges ==
  \A p \in Pets : \A v \in 1 .. Len(history[p]) :
    IF v = 1 THEN PetCreation(history[p][1])
             ELSE PetChange(history[p][v - 1], history[p][v])

\* A call that succeeds answers with the profile as it is in the table, up to
\* the rounding of the weight: neither the fields Updates leaves out nor a
\* call in between make the answer differ (pet_repository.go:72-90).
PetAnswersAreStored ==
  \A q \in Requests : calls[q].reply = "ok" =>
    LET c == calls[q] IN
    /\ c.pet.version \in 1 .. Len(history[c.id])
    /\ history[c.id][c.pet.version] = Inserted(c.pet)

\* An archived profile stays archived and with its owner, even if an update
\* read it before it was archived (pet_service.go:149-166).
ArchivedForGood ==
  [][\A p \in Pets : pets[p] # NoPet =>
       /\ pets'[p].owner = pets[p].owner
       /\ pets[p].status = "archived" => pets'[p].status = "archived"]_vars

-----------------------------------------------------------------------------
(* The profiles as their owners see them. *)

StageOf(row) ==
  IF row = NoPet THEN "none" ELSE IF row.status = "archived" THEN "shelved" ELSE "kept"

CardOf(row) ==
  IF row = NoPet THEN NoPet
  ELSE [keeper |-> row.owner, name |-> row.name, notes |-> row.notes,
        weight |-> row.weightKg]

Shown == INSTANCE PetProfile WITH
  Profiles <- Pets, Keepers <- Owners, NoCard <- NoPet, Words <- Texts, NoWord <- NoText,
  Weighings <- {Hundredths(w) : w \in {u \in RequestWeights : Fits(u)}},
  stage <- [p \in Pets |-> StageOf(pets[p])],
  card <- [p \in Pets |-> CardOf(pets[p])]

\* Every write puts a whole row over the one in the table, made from a copy
\* that may be stale; what owners see is still one atomic change after the
\* other: an update keeps every field it does not name as the latest commit
\* left it, archiving keeps them all and is never undone, whatever races,
\* fails or crashes (pet_service.go:120-166, pet_repository.go:72-90).
ProfileImplemented == Shown!Profile

=============================================================================
