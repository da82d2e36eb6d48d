--------------------------- MODULE RunStudyProofs ---------------------------
(***************************************************************************)
(* What RunStudy promises, for any number of calls, versions and requests. *)
(* The invariant follows a call: what its checks found, and what it still  *)
(* relies on unless it was moved, at each step.                            *)
(***************************************************************************)
EXTENDS RunStudy, TLAPS

Measured == {"derive"} \cup AfterDerive
Resets   == {"post", "record"}
Asks(c)  == "dut" \in req[c].reflash

\* A call reaches the steps of a board only if it is to reflash it.
OnlyAsked(c) ==
  /\ pc[c] = "asked" => flashes[c] = {}
  /\ pc[c] \in {"derive", "dut_build", "dut_flash", "dut_reset"} => Asks(c)
  /\ "dut" \in flashes[c] => Asks(c) /\ pc[c] \in AfterFlash \cup {"done", "failed"}

\* What the two checks found.
BenchChecked(c) ==
  \/ req[c].bench = AnyVersion
  \/ seen[c] # NoVersion /\ (req[c].allow \/ Satisfied(req[c].bench, seen[c]))
DutChecked(c) == req[c].allow \/ Satisfied(req[c].firmware, version[c])

Checked(c) ==
  /\ pc[c] \in Measured => BenchChecked(c)
  /\ pc[c] \in AfterDerive /\ Asks(c) => DutChecked(c)
  /\ "dut" \in flashes[c] => BenchChecked(c) /\ DutChecked(c)

\* What the bench is, once it was flashed or read back.
BenchStands(c) == "bench" \notin moved[c] =>
  /\ pc[c] \in Measured /\ req[c].bench # AnyVersion =>
       board["bench"].runs /\ board["bench"].image = seen[c]
  /\ pc[c] \in Measured \cup {"hello"} /\ "bench" \in flashes[c] => board["bench"].runs

\* Where the derived version is: in the tree, then in the artifact, then on the board.
DutStands(c) == "dut" \notin moved[c] =>
  /\ pc[c] = "dut_build" => tree["dut"] = version[c]
  /\ pc[c] = "dut_flash" => artifact["dut"] = version[c]
  /\ pc[c] \in AfterFlash /\ Asks(c) => board["dut"].image = version[c]
  /\ pc[c] \in Resets /\ Asks(c) => board["dut"].runs

\* What the row will be read from, and the row.
RowStands(c) == "row" \notin moved[c] =>
  /\ pc[c] \in AfterDerive /\ Asks(c) => tree["dut"] = version[c]
  /\ pc[c] \in {"dut_flash"} \cup AfterFlash /\ Asks(c) => artifact["dut"] = version[c]
  /\ row[c] # NoRow /\ "dut" \in flashes[c] => row[c] = [hash |-> version[c], commit |-> version[c]]
RowIsLast(c) == row[c] # NoRow => pc[c] = "done"

CallInv(c) == OnlyAsked(c) /\ Checked(c) /\ BenchStands(c) /\ DutStands(c)
              /\ RowStands(c) /\ RowIsLast(c)
IInv == TypeOK /\ \A c \in Calls : CallInv(c)

-----------------------------------------------------------------------------

LEMMA InitInv == Init => IInv
<1> SUFFICES ASSUME Init PROVE IInv
  OBVIOUS
<1>1. TypeOK
  BY DEF Init, TypeOK, Steps, Images, NoRow, Boards
<1>2. ASSUME NEW c \in Calls PROVE CallInv(c)
  BY <1>2 DEF Init, CallInv, OnlyAsked, Checked, BenchStands, DutStands, RowStands,
              RowIsLast, Measured, AfterDerive, AfterFlash, Resets
<1> QED BY <1>1, <1>2 DEF IInv

\* A flash and a reset change one board, and keep its type.
LEMMA BoardIsSet ==
  ASSUME NEW Flashed, NEW bs \in [Boards -> [image : Flashed, runs : BOOLEAN]], NEW b \in Boards,
         NEW i \in Flashed, NEW r \in BOOLEAN
  PROVE  [bs EXCEPT ![b] = [image |-> i, runs |-> r]]
           \in [Boards -> [image : Flashed, runs : BOOLEAN]]
  OBVIOUS

\* Type correctness of every step.
LEMMA TypeStep == TypeOK /\ [Next]_vars => TypeOK'
<1> SUFFICES ASSUME TypeOK, [Next]_vars PROVE TypeOK'
  OBVIOUS
<1> USE RequestAssumption DEF TypeOK, Boards, Images, Steps, Goto
<1>1. ASSUME NEW c \in Calls, Begin(c) \/ Fail(c) \/ SkipHello(c) \/ Post(c) \/ RecordSkipped(c)
      PROVE  TypeOK'
  BY <1>1 DEF Begin, Fail, SkipHello, Post, RecordSkipped, AfterAsked, AfterHello, world, notes
<1>2. ASSUME NEW c \in Calls, Hello(c) PROVE TypeOK'
  BY <1>2 DEF Hello, AfterHello, world
<1>3. ASSUME NEW c \in Calls, Derive(c) PROVE TypeOK'
  BY <1>3 DEF Derive, world
<1>4. ASSUME NEW c \in Calls, Record(c) PROVE TypeOK'
  BY <1>4 DEF Record, world, DutImage, NoRow
<1> DEFINE Pebbles == {"bench", "dut", "row"}
<1>5. ASSUME NEW others, NEW event \in {"edit", "build", "flash"}, NEW b \in Boards,
             MoveFor(others, event, b)
      PROVE  moved' \in [Calls -> SUBSET Pebbles]
  <2>1. \A d \in Calls : Hit(d, event, b) \subseteq Pebbles
    BY DEF Hit
  <2>2. moved \in [Calls -> SUBSET Pebbles]
    OBVIOUS
  <2>3. moved' = [d \in Calls |-> IF d \in others THEN moved[d] \cup Hit(d, event, b) ELSE moved[d]]
    BY <1>5 DEF MoveFor
  <2> HIDE DEF Pebbles, TypeOK
  <2> QED BY <2>1, <2>2, <2>3
<1>6. ASSUME NEW c \in Calls, NEW b \in Boards, Build(c, b) \/ BuildFails(c, b) PROVE TypeOK'
  <2>1. moved' \in [Calls -> SUBSET {"bench", "dut", "row"}]
    BY <1>6, <1>5 DEF Build, BuildFails
  <2> QED BY <1>6, <2>1 DEF Build, BuildFails, FlashStep, notes
<1>7. ASSUME NEW c \in Calls, NEW b \in Boards, Flash(c, b) \/ FlashFails(c, b) PROVE TypeOK'
  <2>1. moved' \in [Calls -> SUBSET {"bench", "dut", "row"}]
    BY <1>7, <1>5 DEF Flash, FlashFails
  <2>2. \E i \in Images : board' = [board EXCEPT ![b] = [image |-> i, runs |-> FALSE]]
    <3>1. artifact[b] \in Images /\ NoVersion \in Images
      OBVIOUS
    <3>2. CASE Flash(c, b)
      BY <3>1, <3>2 DEF Flash
    <3>3. CASE FlashFails(c, b)
      BY <3>1, <3>3 DEF FlashFails
    <3> QED BY <1>7, <3>2, <3>3
  <2>3. board' \in [Boards -> [image : Images, runs : BOOLEAN]]
    BY <2>2, BoardIsSet DEF TypeOK
  <2>4. flashes' = [flashes EXCEPT ![c] = @ \cup {b}]
    BY <1>7 DEF Flash, FlashFails
  <2>5. flashes' \in [Calls -> SUBSET Boards]
    BY <2>4
  <2>6. \E s \in Steps : pc' = [pc EXCEPT ![c] = s]
    BY <1>7 DEF Flash, FlashFails, AfterFlashOf, ResetStep
  <2>7. pc' \in [Calls -> Steps]
    BY <2>6
  <2> QED BY <1>7, <2>1, <2>3, <2>5, <2>7 DEF Flash, FlashFails
<1>8. ASSUME NEW c \in Calls, NEW b \in Boards, Reset(c, b) PROVE TypeOK'
  <2>1. board' = [board EXCEPT ![b] = [image |-> board[b].image, runs |-> TRUE]]
    BY <1>8 DEF Reset
  <2>2. board' \in [Boards -> [image : Images, runs : BOOLEAN]]
    BY <2>1, BoardIsSet DEF TypeOK
  <2> QED BY <1>8, <2>2 DEF Reset, AfterReset, notes
<1>9. ASSUME NEW b \in Boards, Edit(b) PROVE TypeOK'
  <2>1. moved' \in [Calls -> SUBSET {"bench", "dut", "row"}]
    BY <1>9, <1>5 DEF Edit
  <2> QED BY <1>9, <2>1 DEF Edit, notes
<1>10. CASE UNCHANGED vars
  BY <1>10 DEF vars, world, notes
<1> QED BY <1>1, <1>2, <1>3, <1>4, <1>6, <1>7, <1>8, <1>9, <1>10 DEF Next, Step, Done

-----------------------------------------------------------------------------
(* What a step of one call does to another *)

\* The call keeps its own facts, and what it relies on stays or is marked as moved.
Own(d) == /\ pc'[d] = pc[d] /\ req'[d] = req[d] /\ seen'[d] = seen[d]
          /\ version'[d] = version[d] /\ flashes'[d] = flashes[d] /\ row'[d] = row[d]

LEMMA OthersKeep ==
  ASSUME TypeOK, NEW d \in Calls, CallInv(d), Own(d),
         \/ UNCHANGED world /\ moved'[d] = moved[d]
         \/ \E b \in Boards, others \in SUBSET Calls :
              /\ d \in others
              /\ \/ Edit(b)
                 \/ MoveFor(others, "build", b) /\ UNCHANGED <<tree, board>>
                    /\ \E i \in Images : artifact' = [artifact EXCEPT ![b] = i]
                 \/ MoveFor(others, "flash", b) /\ UNCHANGED <<tree, artifact>>
                    /\ \E i \in Images : board' = [board EXCEPT ![b] = [image |-> i, runs |-> FALSE]]
         \/ UNCHANGED <<tree, artifact, moved>>
            /\ \E b \in Boards : board' = [board EXCEPT ![b] = [image |-> board[b].image, runs |-> TRUE]]
  PROVE  CallInv(d)'
<1> USE DEF CallInv, OnlyAsked, Checked, BenchChecked, DutChecked, RowIsLast, Own, Asks,
            Measured, Resets, AfterDerive, AfterFlash
<1>1. OnlyAsked(d)' /\ Checked(d)' /\ RowIsLast(d)'
  OBVIOUS
<1> USE DEF BenchStands, DutStands, RowStands
<1>2. CASE UNCHANGED world /\ moved'[d] = moved[d]
  BY <1>2 DEF world
<1>3. ASSUME NEW b \in Boards, Edit(b) PROVE CallInv(d)'
  BY <1>3 DEF Edit, MoveFor, Hit, TypeOK, Boards, notes
<1>4. ASSUME NEW b \in Boards, NEW others \in SUBSET Calls, d \in others,
             MoveFor(others, "build", b), UNCHANGED <<tree, board>>,
             NEW i \in Images, artifact' = [artifact EXCEPT ![b] = i]
      PROVE  CallInv(d)'
  BY <1>4 DEF MoveFor, Hit, TypeOK, Boards
<1>5. ASSUME NEW b \in Boards, NEW others \in SUBSET Calls, d \in others,
             MoveFor(others, "flash", b), UNCHANGED <<tree, artifact>>,
             NEW i \in Images, board' = [board EXCEPT ![b] = [image |-> i, runs |-> FALSE]]
      PROVE  CallInv(d)'
  BY <1>5 DEF MoveFor, Hit, TypeOK, Boards
<1>6. ASSUME UNCHANGED <<tree, artifact, moved>>, NEW b \in Boards,
             board' = [board EXCEPT ![b] = [image |-> board[b].image, runs |-> TRUE]]
      PROVE  CallInv(d)'
  BY <1>6 DEF TypeOK, Boards
<1> QED BY <1>2, <1>3, <1>4, <1>5, <1>6

-----------------------------------------------------------------------------
(* Every step keeps the invariant *)

LEMMA StepInv == IInv /\ [Next]_vars => IInv'
<1> SUFFICES ASSUME IInv, [Next]_vars PROVE IInv'
  OBVIOUS
<1>1. TypeOK /\ TypeOK'
  BY TypeStep DEF IInv
<1>2. \A d \in Calls : CallInv(d)
  BY DEF IInv
<1> USE DEF Goto
\* Steps that touch neither boards, trees nor what is marked as moved.
<1>3. ASSUME NEW c \in Calls, Begin(c) \/ Fail(c) \/ SkipHello(c) \/ Post(c) \/ RecordSkipped(c),
             NEW d \in Calls
      PROVE  CallInv(d)'
  <2>1. UNCHANGED <<world, moved, req, seen, version, flashes, row>>
    BY <1>3 DEF Begin, Fail, SkipHello, Post, RecordSkipped, notes
  <2>2. CASE d # c
    <3>1. Own(d)
      BY <2>1, <2>2, <1>3, <1>1 DEF Own, TypeOK, Begin, Fail, SkipHello, Post, RecordSkipped
    <3> QED BY <3>1, <2>1, <1>1, <1>2, OthersKeep
  <2>3. CASE d = c
    <3> USE DEF CallInv, OnlyAsked, Checked, BenchChecked, DutChecked, BenchStands, DutStands, RowStands,
                RowIsLast, Asks, Measured, Resets, AfterDerive, AfterFlash
    <3>1. CallInv(c) /\ pc \in [Calls -> Steps]
      BY <1>1, <1>2 DEF TypeOK
    <3>2. CASE Begin(c)
      BY <2>1, <2>3, <3>1, <3>2 DEF Begin, AfterAsked, world
    <3>3. CASE Fail(c)
      BY <2>1, <2>3, <3>1, <3>3 DEF Fail, world
    <3>4. CASE SkipHello(c)
      BY <2>1, <2>3, <3>1, <3>4 DEF SkipHello, AfterHello, world
    <3>5. CASE Post(c)
      BY <2>1, <2>3, <3>1, <3>5 DEF Post, world
    <3>6. CASE RecordSkipped(c)
      BY <2>1, <2>3, <3>1, <3>6 DEF RecordSkipped, world
    <3> QED BY <1>3, <2>3, <3>2, <3>3, <3>4, <3>5, <3>6
  <2> QED BY <2>2, <2>3
<1>4. ASSUME NEW c \in Calls, Hello(c), NEW d \in Calls PROVE CallInv(d)'
  <2>2. CASE d # c
    <3>1. Own(d) /\ moved'[d] = moved[d]
      BY <2>2, <1>4, <1>1 DEF Own, TypeOK, Hello
    <3>2. UNCHANGED world
      BY <1>4 DEF Hello
    <3> QED BY <3>1, <3>2, <1>1, <1>2, OthersKeep
  <2>3. CASE d = c
    BY <2>3, <1>1, <1>2, <1>4
       DEF TypeOK, Hello, AfterHello, world, Images,
           CallInv, OnlyAsked, Checked, BenchChecked, DutChecked, BenchStands, DutStands, RowStands,
           RowIsLast, Asks, Measured, Resets, AfterDerive, AfterFlash
  <2> QED BY <2>2, <2>3
<1>5. ASSUME NEW c \in Calls, Derive(c), NEW d \in Calls PROVE CallInv(d)'
  <2>2. CASE d # c
    <3>1. Own(d) /\ UNCHANGED <<world, moved>>
      BY <2>2, <1>5, <1>1 DEF Own, TypeOK, Derive
    <3> QED BY <3>1, <1>1, <1>2, OthersKeep
  <2>3. CASE d = c
    BY <2>3, <1>1, <1>2, <1>5
       DEF TypeOK, Derive, world, 
           CallInv, OnlyAsked, Checked, BenchChecked, DutChecked, BenchStands, DutStands, RowStands,
           RowIsLast, Asks, Measured, Resets, AfterDerive, AfterFlash
  <2> QED BY <2>2, <2>3
<1>6. ASSUME NEW c \in Calls, Record(c), NEW d \in Calls PROVE CallInv(d)'
  <2>2. CASE d # c
    <3>1. Own(d) /\ UNCHANGED <<world, moved>>
      BY <2>2, <1>6, <1>1 DEF Own, TypeOK, Record
    <3> QED BY <3>1, <1>1, <1>2, OthersKeep
  <2>3. CASE d = c
    BY <2>3, <1>1, <1>2, <1>6
       DEF TypeOK, Record, DutImage, world,
           CallInv, OnlyAsked, Checked, BenchChecked, DutChecked, BenchStands, DutStands, RowStands,
           RowIsLast, Asks, Measured, Resets, AfterDerive, AfterFlash
  <2> QED BY <2>2, <2>3
<1>7. ASSUME NEW c \in Calls, NEW b \in Boards, Build(c, b) \/ BuildFails(c, b), NEW d \in Calls
      PROVE  CallInv(d)'
  <2>1. /\ UNCHANGED <<tree, board>> /\ MoveFor(Calls \ {c}, "build", b)
        /\ \E i \in Images : artifact' = [artifact EXCEPT ![b] = i]
    <3>1. tree[b] \in Images /\ NoVersion \in Images
      BY <1>1 DEF TypeOK, Images
    <3> QED BY <1>7, <3>1 DEF Build, BuildFails
  <2>2. CASE d # c
    <3>1. Own(d) /\ d \in Calls \ {c} /\ Calls \ {c} \in SUBSET Calls
      BY <2>2, <1>7, <1>1 DEF Own, TypeOK, Build, BuildFails, notes
    <3> QED BY <3>1, <2>1, <1>1, <1>2, OthersKeep
  <2>3. CASE d = c
    <3>1. moved'[c] = moved[c]
      BY <2>1, <1>1 DEF MoveFor
    <3>2. CASE Build(c, b)
      BY <3>1, <3>2, <2>3, <1>1, <1>2
       DEF TypeOK, Build, BuildStep, FlashStep, Boards, notes,
           CallInv, OnlyAsked, Checked, BenchChecked, DutChecked, BenchStands, DutStands, RowStands,
           RowIsLast, Asks, Measured, Resets, AfterDerive, AfterFlash
    <3>3. CASE BuildFails(c, b)
      BY <3>1, <3>3, <2>3, <1>1, <1>2
       DEF TypeOK, BuildFails, BuildStep, Boards, notes,
           CallInv, OnlyAsked, Checked, BenchChecked, DutChecked, BenchStands, DutStands, RowStands,
           RowIsLast, Asks, Measured, Resets, AfterDerive, AfterFlash
    <3> QED BY <1>7, <3>2, <3>3
  <2> QED BY <2>2, <2>3
<1>8. ASSUME NEW c \in Calls, NEW b \in Boards, Flash(c, b) \/ FlashFails(c, b), NEW d \in Calls
      PROVE  CallInv(d)'
  <2>1. /\ UNCHANGED <<tree, artifact>> /\ MoveFor(Calls \ {c}, "flash", b)
        /\ \E i \in Images : board' = [board EXCEPT ![b] = [image |-> i, runs |-> FALSE]]
    BY <1>8, <1>1 DEF Flash, FlashFails, TypeOK, Images
  <2>2. CASE d # c
    <3>1. Own(d) /\ d \in Calls \ {c} /\ Calls \ {c} \in SUBSET Calls
      BY <2>2, <1>8, <1>1 DEF Own, TypeOK, Flash, FlashFails
    <3> QED BY <3>1, <2>1, <1>1, <1>2, OthersKeep
  <2>3. CASE d = c
    <3>1. moved'[c] = moved[c]
      BY <2>1, <1>1 DEF MoveFor
    <3>2. CASE Flash(c, b)
      BY <3>1, <3>2, <2>3, <1>1, <1>2
       DEF TypeOK, Flash, FlashStep, ResetStep, AfterFlashOf, Boards,
           CallInv, OnlyAsked, Checked, BenchChecked, DutChecked, BenchStands, DutStands, RowStands,
           RowIsLast, Asks, Measured, Resets, AfterDerive, AfterFlash
    <3>3. CASE FlashFails(c, b)
      BY <3>1, <3>3, <2>3, <1>1, <1>2
       DEF TypeOK, FlashFails, FlashStep, Boards,
           CallInv, OnlyAsked, Checked, BenchChecked, DutChecked, BenchStands, DutStands, RowStands,
           RowIsLast, Asks, Measured, Resets, AfterDerive, AfterFlash
    <3> QED BY <1>8, <3>2, <3>3
  <2> QED BY <2>2, <2>3
<1>9. ASSUME NEW c \in Calls, NEW b \in Boards, Reset(c, b), NEW d \in Calls PROVE CallInv(d)'
  <2>1. /\ UNCHANGED <<tree, artifact, moved>>
        /\ board' = [board EXCEPT ![b] = [image |-> board[b].image, runs |-> TRUE]]
    BY <1>9 DEF Reset
  <2>2. CASE d # c
    <3>1. Own(d)
      BY <2>2, <1>9, <1>1 DEF Own, TypeOK, Reset, notes
    <3> QED BY <3>1, <2>1, <1>1, <1>2, OthersKeep
  <2>3. CASE d = c
    BY <2>1, <2>3, <1>1, <1>2, <1>9
       DEF TypeOK, Reset, ResetStep, AfterReset, Boards, notes,
           CallInv, OnlyAsked, Checked, BenchChecked, DutChecked, BenchStands, DutStands, RowStands,
           RowIsLast, Asks, Measured, Resets, AfterDerive, AfterFlash, Goto
  <2> QED BY <2>2, <2>3
<1>10. ASSUME NEW b \in Boards, Edit(b), NEW d \in Calls PROVE CallInv(d)'
  <2>1. Own(d)
    BY <1>10 DEF Edit, Own, notes
  <2> QED BY <2>1, <1>10, <1>1, <1>2, OthersKeep
<1>11. ASSUME UNCHANGED vars, NEW d \in Calls PROVE CallInv(d)'
  <2>1. Own(d) /\ UNCHANGED <<world, moved>>
    BY <1>11 DEF vars, notes, Own
  <2> QED BY <2>1, <1>1, <1>2, OthersKeep
<1> QED BY <1>1, <1>3, <1>4, <1>5, <1>6, <1>7, <1>8, <1>9, <1>10, <1>11 DEF IInv, Next, Step, Done

THEOREM Invariance == Spec => []IInv
<1> QED BY InitInv, StepInv, PTL DEF Spec

\* Every variable of a call, the boards and the trees keeps its type.
THEOREM TypeCorrect == Spec => []TypeOK
<1>1. IInv => TypeOK
  BY DEF IInv
<1> QED BY <1>1, Invariance, PTL

\* A study is submitted to boards that run what it requires and what is recorded.
THEOREM SubmissionsRunWhatTheyRequire == Spec => []RunsWhatItRequires
<1> USE DEF Measured, Resets, AfterDerive, AfterFlash, Asks
<1>1. ASSUME IInv, NEW c \in Calls, Accepted(c) PROVE RunsAsRequired(c)
  <2>1. CallInv(c) /\ pc[c] = "record" /\ flashes[c] \subseteq {"bench", "dut"}
    BY <1>1 DEF IInv, TypeOK, Boards, Accepted
  <2>2. \A b \in flashes[c] \ moved[c] : board[b].runs
    BY <2>1 DEF CallInv, OnlyAsked, BenchStands, DutStands
  <2>3. req[c].bench # AnyVersion /\ ~ req[c].allow /\ "bench" \notin moved[c] =>
          board["bench"].runs /\ Satisfied(req[c].bench, board["bench"].image)
    BY <2>1 DEF CallInv, Checked, BenchChecked, BenchStands
  <2>4. "dut" \in req[c].reflash /\ "dut" \notin moved[c] =>
          board["dut"].image = version[c] /\ (req[c].allow \/ Satisfied(req[c].firmware, version[c]))
    BY <2>1 DEF CallInv, Checked, DutChecked, DutStands
  <2> QED BY <2>2, <2>3, <2>4 DEF RunsAsRequired
<1>2. IInv => RunsWhatItRequires
  BY <1>1 DEF RunsWhatItRequires
<1> QED BY <1>2, Invariance, PTL

\* The DUT is not overwritten before both checks have passed or were overridden.
THEOREM DutIsSafe == Spec => []DutIsTouchedLast
<1>1. IInv => DutIsTouchedLast
  BY DEF IInv, DutIsTouchedLast, CallInv, OnlyAsked, Checked, BenchChecked, DutChecked, Asks
<1> QED BY <1>1, Invariance, PTL

\* The ledger's row names the flashed image and its commit.
THEOREM RowsAreTrue == Spec => []RowNamesTheImage
<1>1. IInv => RowNamesTheImage
  BY DEF IInv, RowNamesTheImage, CallInv, RowStands
<1> QED BY <1>1, Invariance, PTL
=============================================================================
