--------------------------- MODULE PetServiceProofs ---------------------------
(***************************************************************************)
(* The safety of PetService, for every value of the constants.  A copy that *)
(* passes the version check was made of the current row; such a copy lands  *)
(* in the table as it is, up to rounding (CopyIsStored), because no         *)
(* operation sets a field to zero that was not zero.                        *)
(***************************************************************************)
EXTENDS PetService, TLAPS

-----------------------------------------------------------------------------
(* The conversions. *)

\* Rounding a rounded weight changes nothing.
LEMMA Rounding ==
  ASSUME NEW w \in Int
  PROVE  /\ Hundredths(w) \in Int
         /\ Hundredths(Hundredths(w)) = Hundredths(w)
<1>1. CASE w >= 0
  <2> DEFINE k == (w + 5) \div 10
  <2>1. k \in Int /\ k >= 0
    BY <1>1
  <2>2. Hundredths(w) = 10 * k
    BY <1>1 DEF Hundredths
  <2> HIDE DEF k
  <2>3. (10 * k + 5) \div 10 = k /\ 10 * k >= 0
    BY <2>1
  <2>4. QED BY <2>1, <2>2, <2>3 DEF Hundredths
<1>2. CASE w < 0
  <2> DEFINE k == (5 - w) \div 10
  <2>1. k \in Int /\ k >= 0
    BY <1>2
  <2>2. Hundredths(w) = 0 - 10 * k
    BY <1>2 DEF Hundredths
  <2> HIDE DEF k
  <2>3. CASE k = 0
    <3>1. Hundredths(w) = 0
      BY <2>1, <2>2, <2>3
    <3>2. Hundredths(0) = 0
      BY DEF Hundredths
    <3>3. QED BY <3>1, <3>2
  <2>4. CASE k > 0
    <3> DEFINE h == 0 - 10 * k
    <3>1. h \in Int /\ ~(h >= 0) /\ 5 - h = 10 * k + 5
      BY <2>1, <2>4
    <3>2. (10 * k + 5) \div 10 = k
      BY <2>1
    <3>3. Hundredths(h) = 0 - 10 * ((5 - h) \div 10)
      BY <3>1 DEF Hundredths
    <3> HIDE DEF h
    <3>4. Hundredths(h) = 0 - 10 * k
      BY <3>1, <3>2, <3>3
    <3>5. QED BY <2>1, <2>2, <3>4 DEF h
  <2>5. QED BY <2>1, <2>3, <2>4
<1>3. QED BY <1>1, <1>2

\* Rounding keeps a row a row, and all of it but the weight.
LEMMA InsertedRow ==
  ASSUME NEW pet \in PetRows
  PROVE  /\ Inserted(pet) \in PetRows
         /\ Inserted(Inserted(pet)) = Inserted(pet)
         /\ Inserted(pet).version = pet.version
         /\ Inserted(pet).owner = pet.owner
         /\ Inserted(pet).status = pet.status
<1>1. pet.weightKg \in Int
  BY DEF PetRows
<1>2. Hundredths(pet.weightKg) \in Int
      /\ Hundredths(Hundredths(pet.weightKg)) = Hundredths(pet.weightKg)
  BY <1>1, Rounding
<1>3. QED BY <1>2 DEF Inserted, PetRows

\* A weight a request names is an integer.
LEMMA RequestedWeights == ASSUME NEW w \in RequestWeights PROVE w \in Int
<1>1. CASE w \in Weights
  BY <1>1, WeightsAssumption
<1>2. CASE \E u \in Weights : w = - u
  <2>1. PICK u \in Weights : w = - u
    BY <1>2
  <2>2. u \in Int
    BY WeightsAssumption
  <2>3. QED BY <2>1, <2>2
<1>3. QED BY <1>1, <1>2 DEF RequestWeights

\* A new profile is a row of version 1.
LEMMA NewPetRow ==
  ASSUME NEW owner \in Owners, NEW name \in Texts, NEW notes \in Texts \cup {NoText},
         NEW w \in RequestWeights
  PROVE  NewPet(owner, name, notes, w) \in PetRows /\ NewPet(owner, name, notes, w).version = 1
BY RequestedWeights DEF NewPet, PetRows, PetStatuses

\* What a call makes of the row it read.
PetCopy(old, pet) ==
  \/ pet = Archived(old)
  \/ \E name, notes \in Texts \cup {NoText}, w \in RequestWeights :
       pet = Updated(old, name, notes, w)

\* A changed copy is the next version, of the same owner, and still archived
\* if the row was.
LEMMA CopyRow ==
  ASSUME NEW row \in PetRows, NEW pet, PetCopy(row, pet)
  PROVE  /\ pet \in PetRows
         /\ pet.version = row.version + 1
         /\ pet.owner = row.owner
         /\ row.status = "archived" => pet.status = "archived"
<1> row.version + 1 \in Nat \ {0}
  BY DEF PetRows
<1>1. CASE pet = Archived(row)
  BY <1>1 DEF Archived, PetRows, PetStatuses
<1>2. CASE \E name, notes \in Texts \cup {NoText}, w \in RequestWeights :
             pet = Updated(row, name, notes, w)
  <2>1. PICK name \in Texts \cup {NoText}, notes \in Texts \cup {NoText},
             w \in RequestWeights : pet = Updated(row, name, notes, w)
    BY <1>2
  <2>2. w \in Int
    BY RequestedWeights
  <2>3. QED BY <2>1, <2>2 DEF Updated, OrElse, PetRows, PetStatuses
<1>3. QED BY <1>1, <1>2 DEF PetCopy

\* The fields Updates leaves out are those the copy has in common with the row.
LEMMA CopyIsStored ==
  ASSUME NEW row \in PetRows, NEW pet, PetCopy(row, pet)
  PROVE  /\ Overwritten(row, pet) = Inserted(pet)
         /\ PetChange(row, Inserted(pet))
<1>1. pet \in PetRows
  BY CopyRow
<1>2. /\ pet.name # NoText
      /\ pet.notes = NoText => row.notes = NoText
      /\ pet.weightKg = 0 => row.weightKg = 0
  <2>1. CASE pet = Archived(row)
    BY <2>1, <1>1, NoTextAssumption DEF Archived, PetRows
  <2>2. CASE \E name, notes \in Texts \cup {NoText}, w \in RequestWeights :
               pet = Updated(row, name, notes, w)
    BY <2>2, <1>1, NoTextAssumption, RequestedWeights DEF Updated, OrElse, PetRows
  <2>3. QED BY <2>1, <2>2 DEF PetCopy
<1>3. Hundredths(0) = 0
  BY DEF Hundredths
<1>4. Overwritten(row, pet) = Inserted(pet)
  BY <1>1, <1>2, <1>3 DEF Overwritten, Inserted, OrElse, PetRows
<1>5. PetChange(row, Inserted(pet))
  BY DEF PetCopy, PetChange
<1>6. QED BY <1>4, <1>5

-----------------------------------------------------------------------------
(* The inductive invariant. *)

\* The row of a profile is the last version committed.
PetHistoryIsTable ==
  \A p \in Pets :
    /\ pets[p] = NoPet => history[p] = << >>
    /\ pets[p] # NoPet =>
         /\ Len(history[p]) = pets[p].version
         /\ history[p][Len(history[p])] = pets[p]
         /\ Inserted(pets[p]) = pets[p]

\* What call c carries comes from the tables: a new profile for a free id, a
\* copy made of a version that was committed, or an answer that was committed.
CallGrounded(c) ==
  /\ c.pc = "save" =>
       /\ c.id \in Pets /\ c.pet \in PetRows /\ pets[c.id] = NoPet
       /\ PetCreation(Inserted(c.pet)) /\ c.pet.version = 1
  /\ c.pc = "update" =>
       /\ c.id \in Pets /\ c.pet \in PetRows
       /\ c.pet.version - 1 \in 1 .. Len(history[c.id])
       /\ PetCopy(history[c.id][c.pet.version - 1], c.pet)
  /\ c.reply = "ok" =>
       /\ c.pc = "reply" /\ c.id \in Pets
       /\ c.pet.version \in 1 .. Len(history[c.id])
       /\ history[c.id][c.pet.version] = Inserted(c.pet)

\* No two calls create the same profile.
PetSavesDistinct ==
  \A q1, q2 \in Requests :
    calls[q1].pc = "save" /\ calls[q2].pc = "save" /\ calls[q1].id = calls[q2].id => q1 = q2

PetInv ==
  /\ PetTypeOK
  /\ PetHistoryIsTable
  /\ PetVersionsAreChanges
  /\ \A q \in Requests : CallGrounded(calls[q])
  /\ PetSavesDistinct

\* An empty table satisfies the invariant.
LEMMA InitPetInv == Init => PetInv
<1> SUFFICES ASSUME Init PROVE PetInv
  OBVIOUS
<1>1. PetTypeOK
  BY DEF Init, PetTypeOK, PetCalls, Idle
<1>2. PetHistoryIsTable /\ PetVersionsAreChanges
  BY DEF Init, PetHistoryIsTable, PetVersionsAreChanges
<1>3. (\A q \in Requests : CallGrounded(calls[q])) /\ PetSavesDistinct
  BY DEF Init, CallGrounded, PetSavesDistinct, Idle
<1>4. QED BY <1>1, <1>2, <1>3 DEF PetInv

\* A step that only moves a call on keeps the invariant if the call is
\* grounded and, when it is about to save, alone with its id.
LEMMA MovesOn ==
  ASSUME PetInv, NEW q \in Requests, NEW c \in PetCalls, Goes(q, c),
         CallGrounded(c), c.pc = "save" => FreshId(c.id)
  PROVE  PetInv'
<1>1. /\ UNCHANGED <<pets, history>>
      /\ calls' = [calls EXCEPT ![q] = c]
  BY DEF Goes
<1>2. calls \in [Requests -> PetCalls]
  BY DEF PetInv, PetTypeOK
<1>3. calls'[q] = c /\ \A q2 \in Requests : q2 # q => calls'[q2] = calls[q2]
  BY <1>1, <1>2
<1>4. PetTypeOK'
  BY <1>1, <1>2 DEF PetInv, PetTypeOK
<1>5. PetHistoryIsTable' /\ PetVersionsAreChanges'
  BY <1>1 DEF PetInv, PetHistoryIsTable, PetVersionsAreChanges
<1>6. ASSUME NEW q2 \in Requests PROVE CallGrounded(calls[q2])'
  <2>1. CallGrounded(calls'[q2])
    BY <1>3 DEF PetInv
  <2>2. QED BY <1>1, <2>1 DEF CallGrounded
<1>7. PetSavesDistinct'
  BY <1>3 DEF PetInv, PetSavesDistinct, FreshId
<1>8. QED BY <1>4, <1>5, <1>6, <1>7 DEF PetInv

\* A write commits the copy of its call, rounded, as the next version of the
\* profile, one change away from the version before.
LEMMA PetWriteFacts ==
  ASSUME PetInv, NEW q \in Requests, InsertRow(calls[q]) \/ UpdateRow(calls[q]),
         NEW p, p = calls[q].id, NEW row, row = Inserted(calls[q].pet)
  PROVE  /\ p \in Pets
         /\ row \in PetRows
         /\ CommitRow(p, row)
         /\ calls[q].pet \in PetRows
         /\ row.version = calls[q].pet.version
         /\ row.version = Len(history[p]) + 1
         /\ Inserted(row) = row
         /\ Len(history[p]) = 0 => PetCreation(row)
         /\ Len(history[p]) # 0 => PetChange(history[p][Len(history[p])], row)
         /\ pets[p] # NoPet =>
              /\ row.owner = pets[p].owner
              /\ pets[p].status = "archived" => row.status = "archived"
<1> DEFINE pet == calls[q].pet
<1>1. CallGrounded(calls[q])
  BY DEF PetInv
<1>2. pet \in PetRows /\ p \in Pets /\ calls[q].pc \in {"save", "update"}
  BY <1>1 DEF InsertRow, UpdateRow, CallGrounded
<1>3. /\ row \in PetRows /\ Inserted(row) = row
      /\ row.version = pet.version /\ row.owner = pet.owner /\ row.status = pet.status
  BY <1>2, InsertedRow
<1>4. /\ pets[p] = NoPet => history[p] = << >>
      /\ pets[p] # NoPet =>
           /\ Len(history[p]) = pets[p].version
           /\ history[p][Len(history[p])] = pets[p]
  BY <1>2 DEF PetInv, PetHistoryIsTable
<1>5. CASE InsertRow(calls[q])
  <2>1. /\ pets[p] = NoPet
        /\ PetCreation(row) /\ pet.version = 1
        /\ CommitRow(p, row)
    BY <1>1, <1>5 DEF InsertRow, CallGrounded
  <2>2. Len(history[p]) = 0
    BY <1>4, <2>1
  <2>3. QED BY <1>2, <1>3, <2>1, <2>2
<1>6. CASE UpdateRow(calls[q])
  <2> DEFINE old == pets[p]
  <2> DEFINE len == Len(history[p])
  <2>1. /\ pet.version - 1 \in 1 .. len
        /\ PetCopy(history[p][pet.version - 1], pet)
        /\ old.version = pet.version - 1
        /\ CommitRow(p, Overwritten(old, pet))
    BY <1>1, <1>6 DEF UpdateRow, CallGrounded, VersionMatches
  <2>2. history \in [Pets -> Seq(PetRows)] /\ pets \in [Pets -> PetRows \cup {NoPet}]
    BY DEF PetInv, PetTypeOK
  <2>3. history[p] \in Seq(PetRows) /\ len \in Nat
    BY <1>2, <2>2
  <2>4. len # 0 /\ old # NoPet
    <3>1. len # 0
      BY <2>1, <2>3
    <3>2. history[p] # << >>
      BY <3>1
    <3>3. QED BY <1>4, <3>1, <3>2
  <2>5. old \in PetRows /\ len = old.version /\ history[p][len] = old
    BY <1>2, <1>4, <2>2, <2>4
  <2>6. PetCopy(old, pet)
    BY <2>1, <2>5
  <2>7. /\ pet.version = old.version + 1
        /\ pet.owner = old.owner
        /\ old.status = "archived" => pet.status = "archived"
    BY <2>5, <2>6, CopyRow
  <2>8. Overwritten(old, pet) = row /\ PetChange(old, row)
    BY <2>5, <2>6, CopyIsStored
  <2>9. QED BY <1>2, <1>3, <2>1, <2>4, <2>5, <2>7, <2>8
<1>7. QED BY <1>5, <1>6

\* What a commit does to the two tables, seen profile by profile.
LEMMA Appended ==
  ASSUME PetInv, NEW p \in Pets, NEW row \in PetRows, CommitRow(p, row)
  PROVE  /\ history'[p] \in Seq(PetRows)
         /\ Len(history[p]) \in Nat
         /\ Len(history'[p]) = Len(history[p]) + 1
         /\ history'[p][Len(history[p]) + 1] = row
         /\ \A v \in 1 .. Len(history[p]) : history'[p][v] = history[p][v]
         /\ pets'[p] = row
         /\ \A p2 \in Pets : p2 # p => history'[p2] = history[p2] /\ pets'[p2] = pets[p2]
<1>1. history \in [Pets -> Seq(PetRows)] /\ pets \in [Pets -> PetRows \cup {NoPet}]
  BY DEF PetInv, PetTypeOK
<1>2. history[p] \in Seq(PetRows) /\ history'[p] = Append(history[p], row)
  BY <1>1 DEF CommitRow
<1>3. \A p2 \in Pets : p2 # p => history'[p2] = history[p2] /\ pets'[p2] = pets[p2]
  BY <1>1 DEF CommitRow
<1>4. pets'[p] = row
  BY <1>1 DEF CommitRow
<1>5. QED BY <1>2, <1>3, <1>4

\* A refused call keeps nothing but its error.
LEMMA RefusedCall ==
  ASSUME NEW reason \in {"not_found", "forbidden", "conflict", "validation", "error"}
  PROVE  /\ Refused(reason) \in PetCalls
         /\ Refused(reason).pc = "reply" /\ Refused(reason).reply # "ok"
BY DEF Refused, Idle, PetCalls

\* The answer of a write, seen or lost.
PetWriteAnswer(q) == {Answered(calls[q].id, calls[q].pet), Refused("error")}

\* A write keeps the invariant, whether or not its answer arrives.
LEMMA Commits ==
  ASSUME PetInv, NEW q \in Requests, InsertRow(calls[q]) \/ UpdateRow(calls[q]),
         NEW c \in PetWriteAnswer(q), calls' = [calls EXCEPT ![q] = c]
  PROVE  PetInv'
<1> DEFINE p == calls[q].id
<1> DEFINE row == Inserted(calls[q].pet)
<1> DEFINE len == Len(history[p])
<1>1. /\ p \in Pets /\ row \in PetRows /\ CommitRow(p, row)
      /\ calls[q].pet \in PetRows /\ row.version = calls[q].pet.version
      /\ row.version = len + 1 /\ Inserted(row) = row
      /\ len = 0 => PetCreation(row)
      /\ len # 0 => PetChange(history[p][len], row)
  BY PetWriteFacts
<1>2. /\ history'[p] \in Seq(PetRows) /\ len \in Nat
      /\ Len(history'[p]) = len + 1 /\ history'[p][len + 1] = row
      /\ \A v \in 1 .. len : history'[p][v] = history[p][v]
      /\ pets'[p] = row
      /\ \A p2 \in Pets : p2 # p => history'[p2] = history[p2] /\ pets'[p2] = pets[p2]
  BY <1>1, Appended
<1>3. /\ pets \in [Pets -> PetRows \cup {NoPet}]
      /\ calls \in [Requests -> PetCalls]
      /\ history \in [Pets -> Seq(PetRows)]
  BY DEF PetInv, PetTypeOK
<1>4. c \in PetCalls /\ c.pc = "reply"
  <2>1. CASE c = Refused("error")
    BY <2>1, RefusedCall
  <2>2. CASE c = Answered(calls[q].id, calls[q].pet)
    BY <1>1, <2>2 DEF Answered, PetCalls
  <2>3. QED BY <2>1, <2>2 DEF PetWriteAnswer
<1>5. calls'[q] = c /\ \A q2 \in Requests : q2 # q => calls'[q2] = calls[q2]
  BY <1>3
<1>6. calls[q].pc \in {"save", "update"} /\ (calls[q].pc = "save" <=> pets[p] = NoPet)
  <2>1. CallGrounded(calls[q])
    BY DEF PetInv
  <2>2. pets[p] = NoPet => len = 0
    BY <1>1 DEF PetInv, PetHistoryIsTable
  <2>3. QED BY <1>2, <2>1, <2>2 DEF CallGrounded, InsertRow, UpdateRow
<1> HIDE DEF p, row, len
<1>7. PetTypeOK'
  <2>1. pets' \in [Pets -> PetRows \cup {NoPet}] /\ history' \in [Pets -> Seq(PetRows)]
    BY <1>1, <1>2, <1>3 DEF CommitRow
  <2>2. calls' \in [Requests -> PetCalls]
    BY <1>3, <1>4
  <2>3. QED BY <2>1, <2>2 DEF PetTypeOK
<1>8. PetHistoryIsTable'
  <2>1. row # NoPet
    BY <1>1, NoPetAssumption
  <2>2. ASSUME NEW p2 \in Pets
        PROVE  /\ pets'[p2] = NoPet => history'[p2] = << >>
               /\ pets'[p2] # NoPet =>
                    /\ Len(history'[p2]) = pets'[p2].version
                    /\ history'[p2][Len(history'[p2])] = pets'[p2]
                    /\ Inserted(pets'[p2]) = pets'[p2]
    <3>1. CASE p2 = p
      BY <1>1, <1>2, <2>1, <3>1
    <3>2. CASE p2 # p
      BY <1>2, <3>2 DEF PetInv, PetHistoryIsTable
    <3>3. QED BY <3>1, <3>2
  <2>3. QED BY <2>2 DEF PetHistoryIsTable
<1>9. PetVersionsAreChanges'
  <2>1. ASSUME NEW p2 \in Pets, NEW v \in 1 .. Len(history'[p2])
        PROVE  IF v = 1 THEN PetCreation(history'[p2][1])
                        ELSE PetChange(history'[p2][v - 1], history'[p2][v])
    <3>1. CASE p2 # p
      BY <1>2, <3>1 DEF PetInv, PetVersionsAreChanges
    <3>2. CASE p2 = p /\ v \in 1 .. len
      <4>1. history'[p][v] = history[p][v]
        BY <1>2, <3>2
      <4>2. ASSUME v # 1 PROVE history'[p][v - 1] = history[p][v - 1]
        <5>1. v - 1 \in 1 .. len
          BY <1>2, <3>2, <4>2
        <5>2. QED BY <1>2, <5>1
      <4>3. IF v = 1 THEN PetCreation(history[p][1])
                     ELSE PetChange(history[p][v - 1], history[p][v])
        BY <1>1, <3>2 DEF PetInv, PetVersionsAreChanges, len
      <4>4. QED BY <3>2, <4>1, <4>2, <4>3
    <3>3. CASE p2 = p /\ v = len + 1
      <4>1. CASE len = 0
        BY <1>1, <1>2, <3>3, <4>1
      <4>2. CASE len # 0
        <5>1. v # 1 /\ v - 1 = len /\ len \in 1 .. len
          BY <1>2, <3>3, <4>2
        <5>2. history'[p][v - 1] = history[p][len]
          BY <1>2, <5>1
        <5>3. QED BY <1>1, <1>2, <3>3, <4>2, <5>1, <5>2
      <4>3. QED BY <4>1, <4>2
    <3>4. p2 = p => v \in 1 .. len \/ v = len + 1
      BY <1>2
    <3>5. QED BY <3>1, <3>2, <3>3, <3>4
  <2>2. QED BY <2>1 DEF PetVersionsAreChanges
<1>10. ASSUME NEW q2 \in Requests PROVE CallGrounded(calls[q2])'
  <2>1. CASE q2 = q
    <3>1. CASE c = Refused("error")
      <4>1. c.pc = "reply" /\ c.reply # "ok"
        BY <3>1, RefusedCall
      <4>2. QED BY <1>5, <2>1, <4>1 DEF CallGrounded
    <3>2. CASE c = Answered(calls[q].id, calls[q].pet)
      <4>1. c.id = p /\ c.pet = calls[q].pet /\ c.pc = "reply"
        BY <3>2 DEF Answered, p
      <4>2. /\ c.pet.version = len + 1
            /\ len + 1 \in 1 .. Len(history'[p])
        <5>1. c.pet.version = len + 1
          BY <1>1, <4>1
        <5>2. len + 1 \in 1 .. (len + 1)
          BY <1>2
        <5>3. QED BY <1>2, <5>1, <5>2
      <4>3. history'[p][c.pet.version] = Inserted(c.pet)
        BY <1>2, <4>1, <4>2 DEF row
      <4>4. QED BY <1>1, <1>5, <2>1, <4>1, <4>2, <4>3 DEF CallGrounded
    <3>3. QED BY <3>1, <3>2 DEF PetWriteAnswer
  <2>2. CASE q2 # q
    <3> DEFINE d == calls[q2]
    <3>1. calls'[q2] = d /\ CallGrounded(d)
      BY <1>5, <2>2 DEF PetInv
    <3>2. d.pc = "save" => d.id # p
      <4>1. SUFFICES ASSUME d.pc = "save", d.id = p PROVE FALSE
        OBVIOUS
      <4>2. pets[p] = NoPet
        BY <3>1, <4>1 DEF CallGrounded
      <4>3. calls[q].pc = "save" /\ calls[q].id = d.id
        BY <1>6, <4>1, <4>2 DEF p
      <4>4. QED BY <2>2, <4>1, <4>3 DEF PetInv, PetSavesDistinct
    <3> HIDE DEF d
    <3>3. ASSUME d.id \in Pets, NEW v, v \in 1 .. Len(history[d.id])
          PROVE  v \in 1 .. Len(history'[d.id]) /\ history'[d.id][v] = history[d.id][v]
      <4>1. CASE d.id = p
        <5>1. v \in 1 .. len
          BY <3>3, <4>1 DEF len
        <5>2. QED BY <1>2, <4>1, <5>1
      <4>2. CASE d.id # p
        BY <1>2, <3>3, <4>2
      <4>3. QED BY <4>1, <4>2
    <3>4. d.pc = "save" => pets'[d.id] = pets[d.id]
      BY <1>2, <3>1, <3>2 DEF CallGrounded
    <3>5. QED BY <3>1, <3>3, <3>4 DEF CallGrounded
  <2>3. QED BY <2>1, <2>2
<1>11. PetSavesDistinct'
  BY <1>4, <1>5 DEF PetInv, PetSavesDistinct
<1>12. QED BY <1>7, <1>8, <1>9, <1>10, <1>11 DEF PetInv

-----------------------------------------------------------------------------
(* Every step. *)

\* The calls that only read: they go on with what the tables hold.
LEMMA Arrives ==
  ASSUME PetInv, NEW q \in Requests, Arrive(q)
  PROVE  PetInv' /\ UNCHANGED <<pets, history>>
<1>1. ASSUME NEW reason \in {"not_found", "forbidden", "conflict", "validation", "error"},
             Goes(q, Refused(reason))
      PROVE  PetInv' /\ UNCHANGED <<pets, history>>
  <2>1. CallGrounded(Refused(reason))
    BY RefusedCall DEF CallGrounded
  <2>2. Refused(reason) \in PetCalls /\ Refused(reason).pc # "save"
    BY RefusedCall
  <2>3. PetInv'
    BY <1>1, <2>1, <2>2, MovesOn
  <2>4. QED BY <1>1, <2>3 DEF Goes
<1>2. CASE RejectRequest(q)
  BY <1>1, <1>2 DEF RejectRequest
<1>3. CASE CreatePet(q)
  <2>1. PICK owner \in Owners, name \in Texts, notes \in Texts \cup {NoText},
             w \in RequestWeights, p \in Pets :
               FreshId(p) /\ Goes(q, Writing("save", p, NewPet(owner, name, notes, w)))
    BY <1>3 DEF CreatePet
  <2> DEFINE pet == NewPet(owner, name, notes, w)
  <2> DEFINE c == Writing("save", p, pet)
  <2>2. pet \in PetRows /\ pet.version = 1
    BY NewPetRow
  <2>3. PetCreation(Inserted(pet))
    BY DEF PetCreation
  <2> HIDE DEF pet
  <2>4. /\ c.pc = "save" /\ c.id = p /\ c.pet = pet /\ c.reply = "none"
        /\ c \in PetCalls
    BY <2>2 DEF Writing, PetCalls
  <2> HIDE DEF c
  <2>5. CallGrounded(c) /\ FreshId(c.id)
    BY <2>1, <2>2, <2>3, <2>4 DEF CallGrounded, FreshId
  <2>6. Goes(q, c)
    BY <2>1 DEF c, pet
  <2>7. PetInv'
    BY <2>4, <2>5, <2>6, MovesOn
  <2>8. QED BY <2>6, <2>7 DEF Goes
<1>4. ASSUME NEW p \in Pets, NEW owner \in Owners,
             \/ Refuse(q, p, owner) \/ GetPet(q, p, owner)
             \/ UpdatePet(q, p, owner) \/ DeletePet(q, p, owner)
      PROVE  PetInv' /\ UNCHANGED <<pets, history>>
  <2> DEFINE row == pets[p]
  <2>1. CASE Refuse(q, p, owner)
    BY <1>1, <2>1 DEF Refuse
  <2>2. ASSUME row # NoPet
        PROVE  /\ row \in PetRows /\ Inserted(row) = row
               /\ row.version \in 1 .. Len(history[p])
               /\ history[p][row.version] = row
    <3>1. pets \in [Pets -> PetRows \cup {NoPet}]
      BY DEF PetInv, PetTypeOK
    <3>2. row \in PetRows /\ row.version \in Nat \ {0}
      BY <3>1, <2>2 DEF PetRows
    <3>3. /\ Len(history[p]) = row.version
          /\ history[p][Len(history[p])] = row
          /\ Inserted(row) = row
      BY <2>2 DEF PetInv, PetHistoryIsTable
    <3>4. QED BY <3>2, <3>3
  <2>3. CASE GetPet(q, p, owner)
    <3> DEFINE c == Answered(p, row)
    <3>1. row # NoPet /\ Goes(q, c)
      BY <2>3 DEF GetPet, Owns
    <3>2. row \in PetRows /\ Inserted(row) = row /\ row.version \in 1 .. Len(history[p])
          /\ history[p][row.version] = row
      BY <2>2, <3>1
    <3> HIDE DEF row
    <3>3. /\ c.pc = "reply" /\ c.id = p /\ c.pet = row /\ c.reply = "ok"
          /\ c \in PetCalls
      BY <3>2 DEF Answered, PetCalls
    <3> HIDE DEF c
    <3>4. CallGrounded(c)
      BY <3>2, <3>3 DEF CallGrounded
    <3>5. PetInv'
      BY <3>1, <3>3, <3>4, MovesOn
    <3>6. QED BY <3>1, <3>5 DEF Goes
  <2>4. ASSUME NEW pet, row # NoPet, PetCopy(row, pet), Goes(q, Writing("update", p, pet))
        PROVE  PetInv' /\ UNCHANGED <<pets, history>>
    <3> DEFINE c == Writing("update", p, pet)
    <3>1. row \in PetRows /\ row.version \in 1 .. Len(history[p])
          /\ history[p][row.version] = row
      BY <2>2, <2>4
    <3>2. pet \in PetRows /\ pet.version = row.version + 1
      BY <2>4, <3>1, CopyRow
    <3>3. pet.version - 1 = row.version
      BY <3>1, <3>2 DEF PetRows
    <3> HIDE DEF row
    <3>4. /\ c.pc = "update" /\ c.id = p /\ c.pet = pet /\ c.reply = "none"
          /\ c \in PetCalls
      BY <3>2 DEF Writing, PetCalls
    <3>5. Goes(q, c)
      BY <2>4
    <3> HIDE DEF c
    <3>6. CallGrounded(c)
      BY <2>4, <3>1, <3>2, <3>3, <3>4 DEF CallGrounded
    <3>7. PetInv'
      BY <3>4, <3>5, <3>6, MovesOn
    <3>8. QED BY <3>5, <3>7 DEF Goes
  <2>5. CASE UpdatePet(q, p, owner)
    <3>1. PICK name \in Texts \cup {NoText}, notes \in Texts \cup {NoText},
               w \in RequestWeights :
                 Goes(q, Writing("update", p, Updated(row, name, notes, w)))
      BY <2>5 DEF UpdatePet
    <3>2. row # NoPet /\ PetCopy(row, Updated(row, name, notes, w))
      BY <2>5 DEF UpdatePet, Owns, PetCopy
    <3>3. QED BY <2>4, <3>1, <3>2
  <2>6. CASE DeletePet(q, p, owner)
    <3>1. row # NoPet /\ PetCopy(row, Archived(row))
          /\ Goes(q, Writing("update", p, Archived(row)))
      BY <2>6 DEF DeletePet, Owns, PetCopy
    <3>2. QED BY <2>4, <3>1
  <2>7. QED BY <1>4, <2>1, <2>3, <2>5, <2>6
<1>5. QED BY <1>2, <1>3, <1>4 DEF Arrive

\* What one step may do to a profile that exists.
KeepsArchive ==
  \A p \in Pets : pets[p] # NoPet =>
    /\ pets'[p].owner = pets[p].owner
    /\ pets[p].status = "archived" => pets'[p].status = "archived"

\* Every step keeps the invariant, and keeps what is archived archived.
LEMMA NextPetInv ==
  ASSUME PetInv, [Next]_vars
  PROVE  PetInv' /\ KeepsArchive
<1>1. ASSUME UNCHANGED pets PROVE KeepsArchive
  BY <1>1 DEF KeepsArchive
<1>2. ASSUME NEW q \in Requests, NEW reason \in {"error", "conflict"},
             Goes(q, Refused(reason))
      PROVE  PetInv' /\ KeepsArchive
  <2>1. CallGrounded(Refused(reason))
    BY RefusedCall DEF CallGrounded
  <2>2. Refused(reason) \in PetCalls /\ Refused(reason).pc # "save"
    BY RefusedCall
  <2>3. PetInv'
    BY <1>2, <2>1, <2>2, MovesOn
  <2>4. QED BY <1>1, <1>2, <2>3 DEF Goes
<1>3. ASSUME NEW q \in Requests, InsertRow(calls[q]) \/ UpdateRow(calls[q]),
             NEW c \in PetWriteAnswer(q), calls' = [calls EXCEPT ![q] = c]
      PROVE  PetInv' /\ KeepsArchive
  <2>1. PetInv'
    BY <1>3, Commits
  <2> DEFINE p == calls[q].id
  <2> DEFINE row == Inserted(calls[q].pet)
  <2>2. /\ p \in Pets /\ row \in PetRows /\ CommitRow(p, row)
        /\ pets[p] # NoPet =>
             /\ row.owner = pets[p].owner
             /\ pets[p].status = "archived" => row.status = "archived"
    BY <1>3, PetWriteFacts
  <2>3. pets'[p] = row /\ \A p2 \in Pets : p2 # p => pets'[p2] = pets[p2]
    BY <2>2, Appended
  <2> HIDE DEF p, row
  <2>4. QED BY <2>1, <2>2, <2>3 DEF KeepsArchive
<1>4. CASE \E q \in Requests : Arrive(q)
  BY <1>1, <1>4, Arrives
<1>5. CASE \E q \in Requests : Write(q)
  <2>1. PICK q \in Requests : Write(q)
    BY <1>5
  <2>2. /\ InsertRow(calls[q]) \/ UpdateRow(calls[q])
        /\ calls' = [calls EXCEPT ![q] = Answered(calls[q].id, calls[q].pet)]
    <3>1. calls \in [Requests -> PetCalls]
      BY DEF PetInv, PetTypeOK
    <3>2. QED BY <2>1, <3>1 DEF Write
  <2>3. Answered(calls[q].id, calls[q].pet) \in PetWriteAnswer(q)
    BY DEF PetWriteAnswer
  <2>4. QED BY <1>3, <2>2, <2>3
<1>6. CASE \E q \in Requests : CommitUnseen(q)
  <2>1. PICK q \in Requests : CommitUnseen(q)
    BY <1>6
  <2>2. Refused("error") \in PetWriteAnswer(q)
    BY DEF PetWriteAnswer
  <2>3. QED BY <1>3, <2>1, <2>2 DEF CommitUnseen
<1>7. CASE \E q \in Requests : Overflows(q) \/ Conflict(q) \/ StatementFails(q)
  BY <1>2, <1>7 DEF Overflows, Conflict, StatementFails
<1>8. ASSUME Idle \in PetCalls, CallGrounded(Idle), Idle.pc = "idle"
      PROVE  Crash \/ (\E q \in Requests : Respond(q)) => PetInv' /\ KeepsArchive
  <2>1. ASSUME NEW q \in Requests, Respond(q) PROVE PetInv' /\ KeepsArchive
    <3>1. Goes(q, Idle)
      BY <2>1 DEF Respond
    <3>2. PetInv'
      BY <1>8, <3>1, MovesOn
    <3>3. QED BY <1>1, <3>1, <3>2 DEF Goes
  <2>2. ASSUME Crash PROVE PetInv' /\ KeepsArchive
    <3>1. UNCHANGED <<pets, history>> /\ calls' = [q \in Requests |-> Idle]
      BY <2>2 DEF Crash
    <3>2. PetTypeOK' /\ PetHistoryIsTable' /\ PetVersionsAreChanges'
      BY <1>8, <3>1 DEF PetInv, PetTypeOK, PetHistoryIsTable, PetVersionsAreChanges
    <3>3. \A q \in Requests : calls'[q] = Idle
      BY <3>1
    <3>4. (\A q \in Requests : CallGrounded(calls[q]))' /\ PetSavesDistinct'
      BY <1>8, <3>1, <3>3 DEF CallGrounded, PetSavesDistinct
    <3>5. QED BY <1>1, <3>1, <3>2, <3>4 DEF PetInv
  <2>3. QED BY <2>1, <2>2
<1>9. Idle \in PetCalls /\ CallGrounded(Idle) /\ Idle.pc = "idle"
  BY DEF Idle, PetCalls, CallGrounded
<1>10. CASE UNCHANGED vars
  <2>1. PetInv'
    BY <1>10 DEF vars, PetInv, PetTypeOK, PetHistoryIsTable, PetVersionsAreChanges,
                 CallGrounded, PetSavesDistinct
  <2>2. QED BY <1>1, <1>10, <2>1 DEF vars
<1>11. QED BY <1>4, <1>5, <1>6, <1>7, <1>8, <1>9, <1>10 DEF Next

\* The inductive invariant of the pet profiles.
THEOREM PetInvariantHolds == Spec => []PetInv
<1>1. PetInv /\ [Next]_vars => PetInv'
  BY NextPetInv
<1>2. QED BY <1>1, InitPetInv, PTL DEF Spec

\* Every variable of the pet service has its type.
THEOREM PetTypesHold == Spec => []PetTypeOK
<1>1. PetInv => PetTypeOK
  BY DEF PetInv
<1>2. QED BY <1>1, PetInvariantHolds, PTL

\* No update of a pet profile is lost, however many goroutines write it.
THEOREM PetsAreSerial == Spec => []PetVersionsAreChanges
<1>1. PetInv => PetVersionsAreChanges
  BY DEF PetInv
<1>2. QED BY <1>1, PetInvariantHolds, PTL

\* What a successful call answers is what the table holds, rounded.
THEOREM PetAnswersHold == Spec => []PetAnswersAreStored
<1>1. PetInv => PetAnswersAreStored
  BY DEF PetInv, CallGrounded, PetAnswersAreStored
<1>2. QED BY <1>1, PetInvariantHolds, PTL

\* Archiving is never undone, by no interleaving of updates and deletions.
THEOREM PetsStayArchived == Spec => ArchivedForGood
<1>1. PetInv /\ [Next]_vars => [KeepsArchive]_vars
  BY NextPetInv
<1>2. QED BY <1>1, PetInvariantHolds, PTL DEF Spec, ArchivedForGood, KeepsArchive

-----------------------------------------------------------------------------
(* PetService implements PetProfile. *)

Stages == [p \in Pets |-> StageOf(pets[p])]

Cards == [p \in Pets |-> CardOf(pets[p])]

Weighed == {Hundredths(w) : w \in {u \in RequestWeights : Fits(u)}}

\* The weight of a row that a request brought fits the column.
LEMMA WeighedFits ==
  ASSUME NEW w \in RequestWeights, NEW h, h = Hundredths(w), Fits(h)
  PROVE  h \in Weighed /\ (w > 0 => h >= 0)
<1>1. w \in Int
  BY RequestedWeights
<1>2. Fits(w)
  BY <1>1, Rounding DEF Fits
<1>3. w > 0 => h >= 0
  BY <1>1 DEF Hundredths
<1>4. QED BY <1>2, <1>3 DEF Weighed

\* A creation opens the profile.
LEMMA CreationOpens ==
  ASSUME NEW p \in Pets, NEW row \in PetRows, PetCreation(row), Fits(row.weightKg),
         pets[p] = NoPet, pets \in [Pets -> PetRows \cup {NoPet}],
         pets' = [pets EXCEPT ![p] = row]
  PROVE  Shown!Open(p)
<1>1. PICK owner \in Owners, name \in Texts, notes \in Texts \cup {NoText},
           w \in RequestWeights : row = Inserted(NewPet(owner, name, notes, w))
  BY DEF PetCreation
<1>2. /\ row.owner = owner /\ row.name = name /\ row.notes = notes
      /\ row.weightKg = Hundredths(w) /\ row.status = "active" /\ row # NoPet
  BY <1>1, NoPetAssumption DEF Inserted, NewPet
<1>3. row.weightKg \in Weighed
  BY <1>2, WeighedFits
<1>4. /\ StageOf(row) = "kept" /\ StageOf(NoPet) = "none"
      /\ CardOf(row) = Shown!Card(owner, name, notes, row.weightKg)
  BY <1>2 DEF StageOf, CardOf, Shown!Card
<1>5. Stages[p] = "none"
  BY <1>4 DEF Stages
<1>6. /\ Stages' = [Stages EXCEPT ![p] = "kept"]
      /\ Cards' = [Cards EXCEPT ![p] = Shown!Card(owner, name, notes, row.weightKg)]
  BY <1>4 DEF Stages, Cards
<1>7. \E k \in Owners, n \in Texts, t \in Texts \cup {NoText}, w2 \in Weighed :
        Cards' = [Cards EXCEPT ![p] = Shown!Card(k, n, t, w2)]
  BY <1>3, <1>6
<1>8. QED BY <1>5, <1>6, <1>7 DEF Shown!Open, Stages, Cards, Weighed

\* A merge revises the profile, archiving shelves it or leaves it shelved.
LEMMA ChangeRevises ==
  ASSUME NEW p \in Pets, NEW row \in PetRows, PetChange(pets[p], row), Fits(row.weightKg),
         pets[p] # NoPet, Inserted(pets[p]) = pets[p],
         pets \in [Pets -> PetRows \cup {NoPet}],
         pets' = [pets EXCEPT ![p] = row]
  PROVE  Shown!Revise(p) \/ Shown!Shelve(p) \/ UNCHANGED <<Stages, Cards>>
<1> DEFINE old == pets[p]
<1>1. old \in PetRows /\ row # NoPet /\ Hundredths(old.weightKg) = old.weightKg
  <2>1. old \in PetRows /\ Inserted(old) = old
    OBVIOUS
  <2>2. Inserted(old).weightKg = Hundredths(old.weightKg)
    BY <2>1 DEF Inserted, PetRows
  <2>3. QED BY <2>1, <2>2, NoPetAssumption
<1>2. /\ Stages[p] = StageOf(old) /\ Cards[p] = CardOf(old)
      /\ Stages' = [Stages EXCEPT ![p] = StageOf(row)]
      /\ Cards' = [Cards EXCEPT ![p] = CardOf(row)]
      /\ DOMAIN Stages = Pets /\ DOMAIN Cards = Pets
  BY DEF Stages, Cards
<1>3. /\ CardOf(row) = Shown!Card(row.owner, row.name, row.notes, row.weightKg)
      /\ CardOf(old) = Shown!Card(old.owner, old.name, old.notes, old.weightKg)
      /\ StageOf(row) = IF row.status = "archived" THEN "shelved" ELSE "kept"
      /\ StageOf(old) = IF old.status = "archived" THEN "shelved" ELSE "kept"
  BY <1>1 DEF StageOf, CardOf, Shown!Card
<1>4. CASE row = Inserted(Archived(old))
  <2>1. /\ row.owner = old.owner /\ row.name = old.name /\ row.notes = old.notes
        /\ row.weightKg = old.weightKg /\ row.status = "archived"
    BY <1>1, <1>4 DEF Inserted, Archived, PetRows
  <2>2. Cards' = Cards /\ StageOf(row) = "shelved"
    BY <1>2, <1>3, <2>1 DEF Cards
  <2>3. CASE old.status = "archived"
    BY <1>2, <1>3, <2>2, <2>3 DEF Stages
  <2>4. CASE old.status # "archived"
    BY <1>2, <1>3, <2>2, <2>4 DEF Shown!Shelve, Stages, Cards
  <2>5. QED BY <2>3, <2>4
<1>5. CASE \E name, notes \in Texts \cup {NoText}, w \in RequestWeights :
             row = Inserted(Updated(old, name, notes, w))
  <2>1. PICK name \in Texts \cup {NoText}, notes \in Texts \cup {NoText},
             w \in RequestWeights : row = Inserted(Updated(old, name, notes, w))
    BY <1>5
  <2>2. /\ row.owner = old.owner /\ row.status = old.status
        /\ row.name = OrElse(name, old.name) /\ row.notes = OrElse(notes, old.notes)
        /\ row.weightKg = Hundredths(IF w > 0 THEN w ELSE old.weightKg)
    BY <1>1, <2>1 DEF Inserted, Updated, PetRows
  <2>3. /\ row.name \in Texts \cup {old.name}
        /\ row.notes \in Texts \cup {old.notes}
    BY <2>2 DEF OrElse
  <2>4. row.weightKg \in {w2 \in Weighed : w2 >= 0} \cup {old.weightKg}
    <3>1. CASE w > 0
      BY <2>2, <3>1, WeighedFits
    <3>2. CASE ~(w > 0)
      BY <1>1, <2>2, <3>2
    <3>3. QED BY <3>1, <3>2
  <2>5. /\ CardOf(old).keeper = old.owner /\ CardOf(old).name = old.name
        /\ CardOf(old).notes = old.notes /\ CardOf(old).weight = old.weightKg
    BY <1>3 DEF Shown!Card
  <2>6. Stages' = Stages /\ Stages[p] # "none"
    BY <1>2, <1>3, <2>2 DEF Stages
  <2>7. Cards' = [Cards EXCEPT ![p] =
          Shown!Card(Cards[p].keeper, row.name, row.notes, row.weightKg)]
    BY <1>2, <1>3, <2>2, <2>5
  <2>8. /\ row.name \in Texts \cup {Cards[p].name}
        /\ row.notes \in Texts \cup {Cards[p].notes}
        /\ row.weightKg \in {w2 \in Weighed : w2 >= 0} \cup {Cards[p].weight}
    BY <1>2, <2>3, <2>4, <2>5
  <2>9. \E n \in Texts \cup {Cards[p].name}, t \in Texts \cup {Cards[p].notes},
           w2 \in {w3 \in Weighed : w3 >= 0} \cup {Cards[p].weight} :
             Cards' = [Cards EXCEPT ![p] = Shown!Card(Cards[p].keeper, n, t, w2)]
    BY <2>7, <2>8
  <2>10. Shown!Revise(p)
    BY <2>6, <2>9 DEF Shown!Revise, Stages, Cards, Weighed
  <2>11. QED BY <2>10
<1>6. QED BY <1>4, <1>5 DEF PetChange

\* Only a write changes the table, and a write changes one profile.
LEMMA WritesAreShown ==
  ASSUME PetInv, NEW q \in Requests, InsertRow(calls[q]) \/ UpdateRow(calls[q])
  PROVE  Shown!ProfileNext \/ UNCHANGED <<Stages, Cards>>
<1> DEFINE p == calls[q].id
<1> DEFINE row == Inserted(calls[q].pet)
<1>1. /\ p \in Pets /\ row \in PetRows /\ CommitRow(p, row) /\ calls[q].pet \in PetRows
      /\ Inserted(row) = row
      /\ Len(history[p]) = 0 => PetCreation(row)
      /\ Len(history[p]) # 0 => PetChange(history[p][Len(history[p])], row)
  BY PetWriteFacts
<1>2. Fits(row.weightKg)
  <2>1. Fits(calls[q].pet.weightKg)
    BY DEF InsertRow, UpdateRow
  <2>2. row.weightKg = Hundredths(calls[q].pet.weightKg) /\ calls[q].pet.weightKg \in Int
    BY <1>1 DEF Inserted, PetRows
  <2>3. QED BY <2>1, <2>2, Rounding DEF Fits
<1> HIDE DEF p, row
<1>3. pets \in [Pets -> PetRows \cup {NoPet}] /\ pets' = [pets EXCEPT ![p] = row]
  BY <1>1 DEF PetInv, PetTypeOK, CommitRow
<1>4. CASE pets[p] = NoPet
  <2>1. PetCreation(row)
    BY <1>1, <1>4 DEF PetInv, PetHistoryIsTable
  <2>2. Shown!Open(p)
    BY <1>1, <1>2, <1>3, <1>4, <2>1, CreationOpens
  <2>3. QED BY <1>1, <2>2 DEF Shown!ProfileNext
<1>5. CASE pets[p] # NoPet
  <2>1. /\ Len(history[p]) = pets[p].version /\ history[p][Len(history[p])] = pets[p]
        /\ Inserted(pets[p]) = pets[p]
    BY <1>1, <1>5 DEF PetInv, PetHistoryIsTable
  <2>2. pets[p].version # 0
    BY <1>1, <1>3, <1>5 DEF PetRows
  <2>3. PetChange(pets[p], row)
    BY <1>1, <2>1, <2>2
  <2>4. Shown!Revise(p) \/ Shown!Shelve(p) \/ UNCHANGED <<Stages, Cards>>
    BY <1>1, <1>2, <1>3, <1>5, <2>1, <2>3, ChangeRevises
  <2>5. QED BY <1>1, <2>4 DEF Shown!ProfileNext
<1>6. QED BY <1>4, <1>5

\* Every step is one step of the abstract profiles or leaves them alone.
LEMMA StepsAreShown ==
  ASSUME PetInv, [Next]_vars
  PROVE  [Shown!ProfileNext]_<<Stages, Cards>>
<1>1. ASSUME UNCHANGED pets PROVE UNCHANGED <<Stages, Cards>>
  BY <1>1 DEF Stages, Cards
<1>2. ASSUME NEW q \in Requests, Write(q) \/ CommitUnseen(q)
      PROVE  Shown!ProfileNext \/ UNCHANGED <<Stages, Cards>>
  BY <1>2, WritesAreShown DEF Write, CommitUnseen
<1>3. ASSUME NEW q \in Requests, Arrive(q) PROVE UNCHANGED pets
  BY <1>3, Arrives
<1>4. ASSUME NEW q \in Requests,
             Overflows(q) \/ Conflict(q) \/ Respond(q) \/ StatementFails(q)
      PROVE  UNCHANGED pets
  BY <1>4 DEF Overflows, Conflict, Respond, StatementFails, Goes
<1>5. CASE Crash \/ UNCHANGED vars
  BY <1>1, <1>5 DEF Crash, vars
<1>6. QED BY <1>1, <1>2, <1>3, <1>4, <1>5 DEF Next

\* What owners see of their profiles is PetProfile: whole-row writes of stale
\* copies, the fields Updates leaves out, rounding, failures and crashes are
\* one atomic change of one card after the other (pet_service.go:120-166).
THEOREM PetsImplementProfiles == Spec => ProfileImplemented
<1>1. Init => Shown!ProfileInit
  BY DEF Init, Shown!ProfileInit, StageOf, CardOf
<1>2. PetInv /\ [Next]_vars => [Shown!ProfileNext]_(Shown!profileVars)
  BY StepsAreShown DEF Shown!profileVars, Stages, Cards
<1>3. QED BY <1>1, <1>2, PetInvariantHolds, PTL DEF Spec, ProfileImplemented, Shown!Profile

=============================================================================
