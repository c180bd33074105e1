--------------------------- MODULE McpGate_proofs ---------------------------
(***************************************************************************)
(* For any calls, files, sessions and threads: McpGate keeps its types,    *)
(* loses no write, and implements SerialTools.                             *)
(***************************************************************************)
EXTENDS McpGate, TLAPS

LEMMA InitTypeOK == Init => GateTypeOK
BY DEF Init, GateTypeOK, Stage

LEMMA StepTypeOK == GateTypeOK /\ [Next]_gateVars => GateTypeOK'
<1> SUFFICES ASSUME GateTypeOK, [Next]_gateVars PROVE GateTypeOK'
  OBVIOUS
<1> USE GateConstants DEF GateTypeOK, Stage, handlerVars
<1>1. ASSUME NEW c \in Call, Receive(c)
      PROVE  GateTypeOK'
  BY <1>1 DEF Receive
<1>2. ASSUME NEW c \in Call, Start(c)
      PROVE  GateTypeOK'
  BY <1>2 DEF Start
<1>3. ASSUME NEW c \in Call, Enter(c)
      PROVE  GateTypeOK'
  BY <1>3 DEF Enter
<1>4. ASSUME NEW c \in Call, NEW f \in File, ReadFile(c, f)
      PROVE  GateTypeOK'
  BY <1>4 DEF ReadFile
<1>5. ASSUME NEW c \in Call, NEW f \in File, WriteFile(c, f)
      PROVE  GateTypeOK'
  BY <1>5 DEF WriteFile
<1>6. ASSUME NEW c \in Call, NEW r \in {"ok", "error"}, Leave(c, r)
      PROVE  GateTypeOK'
  BY <1>6 DEF Leave
<1>7. ASSUME NEW c \in Call, Answer(c)
      PROVE  GateTypeOK'
  BY <1>7 DEF Answer
<1>8. ASSUME NEW c \in Call, GoAway(c)
      PROVE  GateTypeOK'
  BY <1>8 DEF GoAway
<1>9. ASSUME NEW c \in Call, Drop(c)
      PROVE  GateTypeOK'
  BY <1>9 DEF Drop
<1>10. ASSUME NEW c \in Call, Fails(c)
       PROVE  GateTypeOK'
  BY <1>10 DEF Fails
<1>11. ASSUME NEW c \in Call, NEW f \in File, Undo(c, f)
       PROVE  GateTypeOK'
  BY <1>11 DEF Undo
<1>12. CASE ShutDown
  BY <1>12 DEF ShutDown
<1>13. CASE UNCHANGED gateVars
  BY <1>13 DEF gateVars
<1>14. QED
  BY <1>1, <1>2, <1>3, <1>4, <1>5, <1>6, <1>7, <1>8, <1>9, <1>10, <1>11,
     <1>12, <1>13
     DEF Next, Progress

(* The state keeps its types.                                              *)
THEOREM TypeCorrect == Spec => []GateTypeOK
BY InitTypeOK, StepTypeOK, PTL DEF Spec

-----------------------------------------------------------------------------
(* The inductive invariant: a write handler is inside alone, and what a    *)
(* handler inside has read is what the calls that have left have put into  *)
(* each file, which nobody changes before it leaves.                       *)
Alone == \A c \in held : c \in Writer => held = {c}

HandlersStart ==
  \A c \in Call :
    /\ result[c] = "open" <=> stage[c] # "returned"
    /\ stage[c] \notin {"running", "undoing", "returned"} => read[c] = {}
    /\ wrote[c] # {} => c \in Writer /\ read[c] = File

Left(f) == {c \in Writer : stage[c] = "returned" /\ f \in wrote[c]}

ReadsLeft == \A c \in held : \A f \in read[c] : seen[c][f] = Left(f)

GateInv ==
  /\ GateTypeOK
  /\ Alone
  /\ HandlersStart
  /\ ReadsLeft
  /\ NothingLost

(* All sessions have one gate.                                             *)
LEMMA EntersAlone ==
  ASSUME NEW c, MayEnter(c)
  PROVE  \A d \in held : c \notin Writer /\ d \notin Writer
BY DEF MayEnter, SameGate, GateOf

LEMMA InitGateInv == Init => GateInv
BY GateConstants
   DEF Init, GateInv, GateTypeOK, Stage, Alone, HandlersStart,
       ReadsLeft, NothingLost, Left

(* What somebody outside has written, it has left.                         *)
LEMMA WritersLeft ==
  ASSUME GateTypeOK, HandlersStart,
         NEW d \in Writer, d \notin held, NEW f \in File
  PROVE  f \in wrote[d] <=> d \in Left(f)
<1>1. CASE f \in wrote[d]
  <2>1. d \in Call /\ read[d] = File /\ File # {}
    BY <1>1, GateConstants DEF HandlersStart
  <2>2. stage[d] = "returned"
    BY <2>1 DEF HandlersStart, GateTypeOK
  <2>3. QED
    BY <1>1, <2>2 DEF Left
<1>2. CASE f \notin wrote[d]
  BY <1>2 DEF Left
<1>3. QED
  BY <1>1, <1>2

LEMMA StepGateInv == GateInv /\ [Next]_gateVars => GateInv'
<1> SUFFICES ASSUME GateInv, [Next]_gateVars PROVE GateInv'
  OBVIOUS
<1>0. GateTypeOK'
  BY StepTypeOK DEF GateInv
<1> USE <1>0, GateConstants
    DEF GateInv, GateTypeOK, Stage, Alone, HandlersStart,
        ReadsLeft, NothingLost, Left, handlerVars
<1>1. ASSUME NEW c \in Call, Receive(c)
      PROVE  GateInv'
  BY <1>1 DEF Receive
<1>2. ASSUME NEW c \in Call, Start(c)
      PROVE  GateInv'
  BY <1>2 DEF Start
<1>3. ASSUME NEW c \in Call, Enter(c)
      PROVE  GateInv'
  BY <1>3, EntersAlone DEF Enter
<1>4. ASSUME NEW c \in Call, NEW f \in File, ReadFile(c, f)
      PROVE  GateInv'
  <2>1. Alone' /\ HandlersStart' /\ NothingLost'
    BY <1>4 DEF ReadFile
  <2>2. \A d \in Writer : d # c => (f \in wrote[d] <=> d \in Left(f))
    BY <1>4 DEF ReadFile
  <2>3. c \notin Left(f) /\ wrote[c] = {}
    BY <1>4 DEF ReadFile
  <2>4. file[f] = Left(f)
    BY <2>2, <2>3
  <2>5. \A g \in File : Left(g)' = Left(g)
    BY <1>4 DEF ReadFile
  <2>6. seen'[c][f] = Left(f)
    BY <1>4, <2>4 DEF ReadFile
  <2>7. \A d \in Call, g \in File :
          (d # c \/ g # f) => seen'[d][g] = seen[d][g]
    BY <1>4 DEF ReadFile
  <2>8. ReadsLeft'
    BY <1>4, <2>5, <2>6, <2>7 DEF ReadFile
  <2>9. QED
    BY <2>1, <2>8
<1>5. ASSUME NEW c \in Call, NEW f \in File, WriteFile(c, f)
      PROVE  GateInv'
  <2>1. Alone' /\ HandlersStart'
    BY <1>5 DEF WriteFile
  <2>2. /\ c \in Writer /\ held = {c}
        /\ read[c] = File /\ stage[c] # "returned"
    BY <1>5 DEF WriteFile
  <2>3. \A d \in Writer, g \in File :
          d # c => (g \in wrote[d] <=> d \in Left(g))
    BY <2>2, WritersLeft
  <2>4. seen[c][f] = Left(f) /\ c \notin Left(f)
    BY <2>2
  <2>5. \A g \in File : Left(g)' = Left(g)
    BY <1>5, <2>2 DEF WriteFile
  <2>6. ReadsLeft'
    BY <1>5, <2>5 DEF WriteFile
  <2>7. file'[f] = {d \in Writer : f \in wrote'[d]}
    <3>1. file' = [file EXCEPT ![f] = seen[c][f] \cup {c}]
      BY <1>5 DEF WriteFile
    <3>2. file'[f] = Left(f) \cup {c}
      BY <2>4, <3>1
    <3>3. f \in wrote'[c] /\ \A d \in Call : d # c => wrote'[d] = wrote[d]
      BY <1>5 DEF WriteFile
    <3>4. \A d \in Writer : f \in wrote'[d] <=> d \in Left(f) \cup {c}
      BY <2>3, <3>3
    <3>5. QED
      BY <2>2, <3>2, <3>4 DEF Left
  <2>8. \A g \in File : g # f => file'[g] = {d \in Writer : g \in wrote'[d]}
    BY <1>5 DEF WriteFile
  <2>9. \A d \in Writer : result'[d] = "ok" => wrote'[d] = File
    BY <1>5, <2>2 DEF WriteFile
  <2>10. \A g \in File : file'[g] = {d \in Writer : g \in wrote'[d]}
    BY <2>7, <2>8
  <2>11. NothingLost'
    BY <2>9, <2>10
  <2>12. QED
    BY <2>1, <2>6, <2>11
<1>6. ASSUME NEW c \in Call, NEW r \in {"ok", "error"}, Leave(c, r)
      PROVE  GateInv'
  BY <1>6 DEF Leave
<1>7. ASSUME NEW c \in Call, Answer(c)
      PROVE  GateInv'
  BY <1>7 DEF Answer
<1>8. ASSUME NEW c \in Call, GoAway(c)
      PROVE  GateInv'
  BY <1>8 DEF GoAway
<1>9. ASSUME NEW c \in Call, Drop(c)
      PROVE  GateInv'
  BY <1>9 DEF Drop
<1>10. ASSUME NEW c \in Call, Fails(c)
       PROVE  GateInv'
  BY <1>10 DEF Fails
<1>11. ASSUME NEW c \in Call, NEW f \in File, Undo(c, f)
       PROVE  GateInv'
  <2>1. Alone' /\ HandlersStart'
    BY <1>11 DEF Undo
  <2>2. /\ c \in Writer /\ held = {c}
        /\ read[c] = File /\ stage[c] # "returned"
    BY <1>11 DEF Undo
  <2>3. \A d \in Writer, g \in File :
          d # c => (g \in wrote[d] <=> d \in Left(g))
    BY <2>2, WritersLeft
  <2>4. seen[c][f] = Left(f) /\ c \notin Left(f)
    BY <2>2
  <2>5. \A g \in File : Left(g)' = Left(g)
    BY <1>11, <2>2 DEF Undo
  <2>6. ReadsLeft'
    BY <1>11, <2>5 DEF Undo
  <2>7. file'[f] = {d \in Writer : f \in wrote'[d]}
    <3>1. file'[f] = Left(f)
      BY <1>11, <2>4 DEF Undo
    <3>2. f \notin wrote'[c] /\ \A d \in Call : d # c => wrote'[d] = wrote[d]
      BY <1>11 DEF Undo
    <3>3. \A d \in Writer : f \in wrote'[d] <=> d \in Left(f)
      BY <2>3, <2>4, <3>2
    <3>4. QED
      BY <3>1, <3>3 DEF Left
  <2>8. \A g \in File : g # f => file'[g] = {d \in Writer : g \in wrote'[d]}
    BY <1>11 DEF Undo
  <2>9. \A d \in Writer : result'[d] = "ok" => wrote'[d] = File
    BY <1>11, <2>2 DEF Undo
  <2>10. \A g \in File : file'[g] = {d \in Writer : g \in wrote'[d]}
    BY <2>7, <2>8
  <2>11. NothingLost'
    BY <2>9, <2>10
  <2>12. QED
    BY <2>1, <2>6, <2>11
<1>12. CASE ShutDown
  BY <1>12 DEF ShutDown
<1>13. CASE UNCHANGED gateVars
  BY <1>13 DEF gateVars
<1>14. QED
  BY <1>1, <1>2, <1>3, <1>4, <1>5, <1>6, <1>7, <1>8, <1>9, <1>10, <1>11,
     <1>12, <1>13
     DEF Next, Progress

THEOREM GateInvariant == Spec => []GateInv
BY InitGateInv, StepGateInv, PTL DEF Spec

(* No write is lost that its handler has not taken back, and none that was *)
(* reported as done is half done, for any calls, files, sessions, threads. *)
THEOREM NoLostUpdates == Spec => []NothingLost
BY GateInvariant, PTL DEF GateInv

-----------------------------------------------------------------------------
(* Refinement.  The instant at which a call takes effect is the one at     *)
(* which it lets go of the gate; every other step stutters.                *)

LEMMA InitRefines == Init => Serial!Init
BY DEF Init, Serial!Init, Found, Kept

LEMMA OthersStay ==
  ASSUME result' = result,
         \A c \in Call : result[c] = "ok" => seen'[c] = seen[c],
         \A c \in Call : result[c] # "open" => wrote'[c] = wrote[c]
  PROVE  UNCHANGED Serial!vars
BY DEF Serial!vars, Found, Kept

(* At that instant nobody else has written anything it has not left.       *)
LEMMA LeaveRefines ==
  ASSUME GateInv, NEW c \in Call, NEW r \in {"ok", "error"}, Leave(c, r)
  PROVE  Serial!Next
<1>1. /\ result[c] = "open"
      /\ result' = [result EXCEPT ![c] = r]
      /\ seen' = seen
      /\ wrote' = wrote
  BY DEF Leave, handlerVars, GateInv, HandlersStart
<1>2. \A d \in Call : d # c => Found(d)' = Found(d) /\ Kept(d)' = Kept(d)
  BY <1>1 DEF Found, Kept, GateInv, GateTypeOK
<1>3. Kept(c)' = wrote[c]
  BY <1>1 DEF Kept, GateInv, GateTypeOK
<1>4. [d \in Call |-> Kept(d)]' = [[d \in Call |-> Kept(d)] EXCEPT ![c] = wrote[c]]
  BY <1>2, <1>3
<1>5. c \notin Writer => wrote[c] = {}
  BY DEF GateInv, HandlersStart
<1>6. CASE r = "ok"
  <2>1. wrote[c] = IF c \in Writer THEN File ELSE {}
    BY <1>5, <1>6 DEF Leave
  <2>2. \A f \in File : seen[c][f] = Left(f)
    BY <1>6 DEF Leave, GateInv, GateTypeOK, ReadsLeft
  <2>3. \A d \in Writer, f \in File :
          f \in Kept(d) <=> stage[d] = "returned" /\ f \in wrote[d]
    BY GateConstants DEF Kept, GateInv, HandlersStart
  <2>4. Serial!Effects = [f \in File |-> Left(f)]
    BY <2>3, GateConstants DEF Serial!Effects, Left
  <2>5. Found(c)' = Serial!Effects
    BY <1>1, <1>6, <2>2, <2>4 DEF Found, GateInv, GateTypeOK
  <2>6. [d \in Call |-> Found(d)]' = [[d \in Call |-> Found(d)] EXCEPT ![c] = Serial!Effects]
    BY <1>2, <2>5
  <2>7. QED
    BY <1>1, <1>4, <1>6, <2>1, <2>6 DEF Serial!Next, Serial!Succeed
<1>7. CASE r = "error"
  <2>1. Found(c)' = Found(c)
    BY <1>1, <1>7 DEF Found, GateInv, GateTypeOK
  <2>2. [d \in Call |-> Found(d)]' = [d \in Call |-> Found(d)]
    BY <1>2, <2>1
  <2>3. wrote[c] \in SUBSET File
    BY DEF GateInv, GateTypeOK
  <2>4. QED
    BY <1>1, <1>4, <1>5, <1>7, <2>2, <2>3 DEF Serial!Next, Serial!Fail
<1>8. QED
  BY <1>6, <1>7

LEMMA StepRefines == GateInv /\ [Next]_gateVars => [Serial!Next]_Serial!vars
<1> SUFFICES ASSUME GateInv, [Next]_gateVars
             PROVE  Serial!Next \/ UNCHANGED Serial!vars
  OBVIOUS
<1>1. CASE \E c \in Call, r \in {"ok", "error"} : Leave(c, r)
  BY <1>1, LeaveRefines
<1>2. CASE \E c \in Call, f \in File :
             ReadFile(c, f) \/ WriteFile(c, f) \/ Undo(c, f)
  <2>1. PICK c \in Call, f \in File :
          ReadFile(c, f) \/ WriteFile(c, f) \/ Undo(c, f)
    BY <1>2
  <2>2. result[c] = "open" /\ result' = result
    BY <2>1 DEF ReadFile, WriteFile, Undo, GateInv, HandlersStart
  <2>3. \A d \in Call : d # c => seen'[d] = seen[d] /\ wrote'[d] = wrote[d]
    BY <2>1 DEF ReadFile, WriteFile, Undo, GateInv, GateTypeOK
  <2>4. QED
    BY <2>2, <2>3, OthersStay
<1>3. CASE seen' = seen /\ result' = result /\ wrote' = wrote
  BY <1>3 DEF Serial!vars, Found, Kept
<1>4. QED
  BY <1>1, <1>2, <1>3
     DEF Next, Progress, Receive, Start, Enter, Fails, Answer, GoAway,
         Drop, ShutDown, handlerVars, gateVars

(* The server implements SerialTools: each call that succeeds has taken    *)
(* effect at one instant, on what exactly the calls before it had left.    *)
THEOREM GateSerializes == Spec => ImplementsSerialTools
<1>1. Init => Serial!Init
  BY InitRefines
<1>2. GateInv /\ [Next]_gateVars => [Serial!Next]_Serial!vars
  BY StepRefines
<1>3. QED
  BY <1>1, <1>2, GateInvariant, PTL DEF Spec, Serial!Spec, ImplementsSerialTools
=============================================================================
