---------------------------- MODULE EventLog_proofs ----------------------------
(***************************************************************************)
(* What holds of the log for every number of goroutines, lines and faults: *)
(* its types; that an acknowledged event stays where it is; and, as long   *)
(* as a server process appends at most one decision to an execution, that  *)
(* the chain is intact and that no change of it is lost on Verify.         *)
(***************************************************************************)
EXTENDS EventLog, SequenceTheorems, WellFoundedInduction, TLAPS

\* The lines a write leaves alone: all, or all but an open one.
Kept == IF TailOpen(lines) THEN Len(lines) - 1 ELSE Len(lines)

Hows == {"part", "line", "all"}

LEMMA KeptNat ==
  ASSUME lines \in Seq(Line)
  PROVE  Kept \in Nat /\ Kept \in {Len(lines), Len(lines) - 1} /\ Len(lines) \in Nat
BY EmptySeq, LenProperties DEF Kept, TailOpen

LEMMA JoinedLine ==
  ASSUME NEW l \in Line, NEW h \in Nat
  PROVE  /\ [l EXCEPT !.hash = h, !.whole = FALSE] \in Line
         /\ [l EXCEPT !.hash = h, !.whole = FALSE].hash = h
         /\ [l EXCEPT !.hash = h, !.whole = FALSE].prev = l.prev
         /\ [l EXCEPT !.hash = h, !.whole = FALSE].open = l.open
         /\ [l EXCEPT !.hash = h, !.whole = FALSE].whole = FALSE
BY DEF Line

\* A write that leaves anything puts one line after the ones it leaves alone;
\* it is an event only if it joined no torn line and was not cut off.
LEMMA PutShape ==
  ASSUME TypeOK, NEW prev \in Nat, NEW how \in Hows, lines' = Put(prev, how)
  PROVE  /\ lines' \in Seq(Line) /\ Len(lines') = Kept + 1
         /\ \A i \in 1..Kept : lines'[i] = lines[i]
         /\ lines'[Kept + 1].prev = prev
         /\ lines'[Kept + 1].open <=> how # "all"
         /\ lines'[Kept + 1].hash \in {fresh, fresh + 1}
         /\ lines'[Kept + 1].whole =>
              ~TailOpen(lines) /\ how # "part" /\ lines'[Kept + 1].hash = fresh
<1> USE DEF TypeOK, Hows
<1>1. /\ Written(prev, how) \in Line /\ Written(prev, how).hash = fresh
      /\ Written(prev, how).prev = prev
      /\ Written(prev, how).open <=> how # "all"
      /\ Written(prev, how).whole <=> how # "part"
  BY DEF Written, Line
<1>2. CASE ~TailOpen(lines)
  <2>1. lines' = Append(lines, Written(prev, how)) /\ Kept = Len(lines)
    BY <1>2 DEF Put, Kept
  <2> HIDE DEF TypeOK
  <2>2. /\ lines' \in Seq(Line) /\ Len(lines') = Kept + 1
        /\ \A i \in 1..Kept : lines'[i] = lines[i]
        /\ lines'[Kept + 1] = Written(prev, how)
    BY <1>1, <2>1, KeptNat DEF TypeOK
  <2> QED
    BY <1>1, <1>2, <2>2
<1>3. CASE TailOpen(lines)
  <2> DEFINE joined == [Written(prev, how) EXCEPT !.hash = fresh + 1, !.whole = FALSE]
  <2>1. lines' = Append(Front(lines), joined) /\ Kept = Len(lines) - 1 /\ lines # <<>>
    BY <1>3 DEF Put, Kept, TailOpen
  <2>2. /\ joined \in Line /\ joined.hash = fresh + 1 /\ joined.prev = prev
        /\ joined.open <=> how # "all"
        /\ joined.whole = FALSE
    <3>1. fresh + 1 \in Nat
      OBVIOUS
    <3>2. PICK l \in Line, h \in Nat : l = Written(prev, how) /\ h = fresh + 1
      BY <1>1, <3>1
    <3>3. joined = [l EXCEPT !.hash = h, !.whole = FALSE]
      BY <3>2
    <3> HIDE DEF joined
    <3>4. /\ joined \in Line /\ joined.hash = h /\ joined.whole = FALSE
          /\ joined.prev = l.prev /\ joined.open = l.open
      BY <3>3, JoinedLine, Zenon
    <3> QED
      BY <1>1, <3>2, <3>4
  <2> HIDE DEF joined
  <2>3. Len(lines) \in Nat /\ Kept \in Nat /\ \A i \in 1..Kept : lines[i] \in Line
    BY <2>1, KeptNat, LenProperties
  <2>4. /\ Front(lines) \in Seq(Line) /\ Len(Front(lines)) = Kept
        /\ \A i \in 1..Kept : Front(lines)[i] = lines[i]
    BY <2>1, <2>3, SubSeqProperties DEF Front
  <2> HIDE DEF TypeOK
  <2>5. /\ lines' \in Seq(Line) /\ Len(lines') = Kept + 1
        /\ \A i \in 1..Kept : lines'[i] = lines[i]
        /\ lines'[Kept + 1] = joined
    BY <2>1, <2>2, <2>3, <2>4
  <2> QED
    BY <1>3, <2>2, <2>5
<1> QED
  BY <1>2, <1>3

\* A change at a line shifts or rewrites what follows, and leaves what is
\* before.
LEMMA RemoveShape ==
  ASSUME lines \in Seq(Line), NEW i \in 1..(Len(lines) - 1)
  PROVE  /\ RemoveAt(lines, i) \in Seq(Line)
         /\ Len(RemoveAt(lines, i)) = Len(lines) - 1
         /\ \A j \in 1..(i - 1) : RemoveAt(lines, i)[j] = lines[j]
         /\ RemoveAt(lines, i)[i] = lines[i + 1]
<1>1. Len(lines) \in Nat /\ \A j \in 1..Len(lines) : lines[j] \in Line
  BY LenProperties
<1> DEFINE a == SubSeq(lines, 1, i - 1)
           b == SubSeq(lines, i + 1, Len(lines))
<1>2. a \in Seq(Line) /\ Len(a) = i - 1 /\ \A j \in 1..(i - 1) : a[j] = lines[j]
  <2>1. i - 1 \in Int /\ \A j \in 1..(i - 1) : lines[j] \in Line
    BY <1>1
  <2> QED
    BY <2>1, SubSeqProperties
<1>3. b \in Seq(Line) /\ Len(b) = Len(lines) - i /\ b[1] = lines[i + 1]
  <2>1. i + 1 \in Int /\ Len(lines) \in Int /\ \A j \in (i + 1)..Len(lines) : lines[j] \in Line
    BY <1>1
  <2>2. /\ b \in Seq(Line)
        /\ Len(b) = IF i + 1 <= Len(lines) THEN Len(lines) - (i + 1) + 1 ELSE 0
        /\ \A j \in 1..(Len(lines) - (i + 1) + 1) : b[j] = lines[i + 1 + j - 1]
    BY <2>1, SubSeqProperties
  <2> QED
    BY <1>1, <2>2
<1> HIDE DEF a, b
<1>4. RemoveAt(lines, i) = a \o b
  BY DEF RemoveAt, a, b
<1>5. /\ a \o b \in Seq(Line) /\ Len(a \o b) = Len(a) + Len(b)
      /\ \A j \in 1..(Len(a) + Len(b)) : (a \o b)[j] = IF j <= Len(a) THEN a[j] ELSE b[j - Len(a)]
  BY <1>2, <1>3, ConcatProperties
<1>6. Len(a) + Len(b) = Len(lines) - 1 /\ i <= Len(lines) - 1
  BY <1>1, <1>2, <1>3
<1>7. \A j \in 1..(i - 1) : (a \o b)[j] = lines[j]
  BY <1>1, <1>2, <1>5, <1>6
<1>8. (a \o b)[i] = lines[i + 1]
  BY <1>1, <1>2, <1>3, <1>5, <1>6
<1> QED
  BY <1>4, <1>5, <1>6, <1>7, <1>8

LEMMA SwapShape ==
  ASSUME lines \in Seq(Line), NEW i \in 1..(Len(lines) - 1)
  PROVE  LET swapped == [lines EXCEPT ![i] = lines[i + 1], ![i + 1] = lines[i]]
         IN  /\ swapped \in Seq(Line) /\ Len(swapped) = Len(lines)
             /\ \A j \in 1..(i - 1) : swapped[j] = lines[j]
             /\ swapped[i] = lines[i + 1]
<1>1. /\ Len(lines) \in Nat /\ i \in 1..Len(lines) /\ i + 1 \in 1..Len(lines)
      /\ lines[i] \in Line /\ lines[i + 1] \in Line
  BY LenProperties
<1>2. PICK once \in Seq(Line) : once = [lines EXCEPT ![i] = lines[i + 1]]
  BY <1>1, ExceptSeq
<1>3. Len(once) = Len(lines) /\ \A j \in 1..Len(lines) : once[j] = IF j = i THEN lines[i + 1] ELSE lines[j]
  BY <1>1, <1>2, ExceptSeq
<1>4. PICK twice \in Seq(Line) : twice = [once EXCEPT ![i + 1] = lines[i]]
  BY <1>1, <1>3, ExceptSeq
<1>5. Len(twice) = Len(lines) /\ \A j \in 1..Len(lines) : twice[j] = IF j = i + 1 THEN lines[i] ELSE once[j]
  BY <1>1, <1>3, <1>4, ExceptSeq
<1>6. twice = [lines EXCEPT ![i] = lines[i + 1], ![i + 1] = lines[i]]
  BY <1>2, <1>4
<1> QED
  BY <1>1, <1>3, <1>5, <1>6

-----------------------------------------------------------------------------
(* Types.                                                                  *)

LEMMA AppenderShape ==
  /\ Server \in Appenders /\ Writers \subseteq Appenders
  /\ \A p \in Appenders : HandleOf(p) \in Handles
  /\ \A p \in Writers : HandleOf(p) = "run"
  /\ HandleOf(Server) = "server"
BY EventLogAssumption DEF Appenders, HandleOf, Handles

LEMMA DiskHeadNat ==
  ASSUME lines \in Seq(Line)
  PROVE  /\ DiskHead \in Nat
         /\ Len(lines) \in Nat
         /\ Len(lines) = 0 => DiskHead = Snapshot
         /\ Len(lines) > 0 => DiskHead = lines[Len(lines)].hash
         /\ \A i \in 1..Len(lines) : lines[i] \in Line
<1>1. Len(lines) \in Nat /\ (\A i \in 1..Len(lines) : lines[i] \in Line)
  BY LenProperties
<1>2. lines = <<>> <=> Len(lines) = 0
  BY EmptySeq
<1>3. CASE lines = <<>>
  BY <1>1, <1>2, <1>3 DEF DiskHead, Snapshot
<1>4. CASE lines # <<>>
  <2>1. Len(lines) > 0 /\ DiskHead = lines[Len(lines)].hash
    BY <1>1, <1>2, <1>4 DEF DiskHead, Last
  <2> QED
    BY <1>1, <2>1 DEF Line
<1> QED
  BY <1>3, <1>4

LEMMA InitTyped == Init => TypeOK
<1> SUFFICES ASSUME Init PROVE TypeOK
  OBVIOUS
<1>1. lines \in Seq(Line) /\ acked \in Seq(Nat)
  BY DEF Init
<1>2. head \in [Handles -> Nat \cup {Unknown}] /\ pend \in [Appenders -> Nat \cup {Idle}]
  BY DEF Init
<1>3. live \in BOOLEAN /\ changed \in BOOLEAN
  BY Zenon DEF Init
<1>4. decided \in Nat /\ fresh \in Nat /\ faults \in Nat
  BY DEF Init, Snapshot
<1> QED
  BY <1>1, <1>2, <1>3, <1>4, Zenon DEF TypeOK

\* A write changes the file's lines and the counters only.
LEMMA WriteTyped ==
  ASSUME TypeOK, NEW p \in Appenders, pend[p] # Idle, NEW how \in Hows, lines' = Put(pend[p], how)
  PROVE  lines' \in Seq(Line) /\ pend[p] \in Nat
<1>1. pend[p] \in Nat
  BY DEF TypeOK
<1> QED
  BY <1>1, PutShape

LEMMA NextTyped == TypeOK /\ [Next]_vars => TypeOK'
<1> SUFFICES ASSUME TypeOK, [Next]_vars PROVE TypeOK'
  OBVIOUS
<1>1. CASE UNCHANGED vars
  BY <1>1 DEF vars, TypeOK
<1>2. ASSUME NEW p \in Appenders, BeginAppend(p)
      PROVE  TypeOK'
  <2>1. HeadHash(HandleOf(p)) \in Nat
    BY DiskHeadNat, AppenderShape DEF HeadHash, TypeOK
  <2> QED
    BY <1>2, <2>1 DEF BeginAppend, TypeOK
<1>3. ASSUME NEW p \in Appenders, EndAppend(p)
      PROVE  TypeOK'
  <2>1. lines' \in Seq(Line)
    BY <1>3, WriteTyped DEF EndAppend, Hows
  <2>2. acked' \in Seq(Nat)
    BY <1>3 DEF EndAppend, TypeOK
  <2>3. head' \in [Handles -> Nat \cup {Unknown}]
    BY <1>3, AppenderShape DEF EndAppend, TypeOK
  <2> QED
    BY <1>3, <2>1, <2>2, <2>3 DEF EndAppend, TypeOK
<1>4. ASSUME NEW p \in Appenders, ShortWrite(p)
      PROVE  TypeOK'
  <2>1. lines' \in Seq(Line)
    <3>1. PICK how \in {"none", "part", "line"} : lines' = Put(pend[p], how)
      BY <1>4 DEF ShortWrite
    <3>2. CASE how = "none"
      BY <3>1, <3>2 DEF Put, TypeOK
    <3>3. CASE how # "none"
      BY <1>4, <3>1, <3>3, WriteTyped DEF ShortWrite, Hows
    <3> QED
      BY <3>2, <3>3
  <2> QED
    BY <1>4, <2>1 DEF ShortWrite, TypeOK
<1>5. CASE Launch
  BY <1>5 DEF Launch, TypeOK, Handles
<1>6. CASE RunReturns
  BY <1>6 DEF RunReturns, TypeOK
<1>7. CASE Crash
  <2>1. lines' \in Seq(Line) /\ fresh' \in Nat
    <3>1. CASE UNCHANGED <<lines, fresh>>
      BY <3>1 DEF TypeOK
    <3>2. ASSUME NEW p \in Appenders, NEW how \in {"all", "line", "part"},
                 pend[p] # Idle, lines' = Put(pend[p], how), fresh' = fresh + 2
          PROVE  lines' \in Seq(Line) /\ fresh' \in Nat
      <4>1. lines' \in Seq(Line)
        BY <3>2, WriteTyped DEF Hows
      <4> QED
        BY <3>2, <4>1 DEF TypeOK
    <3> QED
      BY <1>7, <3>1, <3>2 DEF Crash
  <2>2. head' \in [Handles -> Nat \cup {Unknown}] /\ pend' \in [Appenders -> Nat \cup {Idle}]
    BY <1>7 DEF Crash
  <2>3. live' \in BOOLEAN /\ changed' \in BOOLEAN
    BY <1>7, Zenon DEF Crash, TypeOK
  <2>4. decided' \in Nat /\ faults' \in Nat /\ acked' \in Seq(Nat)
    BY <1>7 DEF Crash, TypeOK
  <2> QED
    BY <2>1, <2>2, <2>3, <2>4, Zenon DEF TypeOK
<1>8. CASE Change
  <2>1. lines' \in Seq(Line)
    <3>1. PICK i \in 1..(Len(lines) - 1) :
             lines' \in {[lines EXCEPT ![i].hash = fresh],
                         RemoveAt(lines, i),
                         [lines EXCEPT ![i] = lines[i + 1], ![i + 1] = lines[i]]}
      BY <1>8 DEF Change
    <3>2. /\ Len(lines) \in Nat /\ i \in 1..Len(lines) /\ i + 1 \in 1..Len(lines)
          /\ lines[i] \in Line /\ lines[i + 1] \in Line /\ lines \in Seq(Line)
      BY DiskHeadNat DEF TypeOK
    <3>3. [lines EXCEPT ![i].hash = fresh] \in Seq(Line)
      <4>1. [lines[i] EXCEPT !.hash = fresh] \in Line
        BY <3>2 DEF Line, TypeOK
      <4> QED
        BY <3>2, <4>1, ExceptSeq
    <3>4. RemoveAt(lines, i) \in Seq(Line)
      BY <3>2, RemoveShape
    <3>5. [lines EXCEPT ![i] = lines[i + 1], ![i + 1] = lines[i]] \in Seq(Line)
      BY <3>2, SwapShape
    <3> QED
      BY <3>1, <3>3, <3>4, <3>5
  <2> QED
    BY <1>8, <2>1 DEF Change, TypeOK
<1> QED
  BY <1>1, <1>2, <1>3, <1>4, <1>5, <1>6, <1>7, <1>8 DEF Next

\* The log's variables keep their types, whatever fails and whoever interferes.
THEOREM TypeCorrect == Spec => []TypeOK
BY InitTyped, NextTyped, PTL DEF Spec

-----------------------------------------------------------------------------
(* Who appends: one at a time, the run or the server.                      *)

AtMostOneDecision == MaxDecisions <= 1

Turns ==
  /\ \A p, q \in Appenders : pend[p] # Idle /\ pend[q] # Idle => p = q
  /\ \A p \in Writers : pend[p] # Idle => live
  /\ pend[Server] # Idle => ~live /\ decided > 0
  /\ decided = 0 => head["server"] = Unknown

\* The predecessors that an Append holds, and that the run's next would take.
Held == { pend[p] : p \in { q \in Appenders : pend[q] # Idle } }
Heads == Held \cup (IF live /\ head["run"] # Unknown THEN {head["run"]} ELSE {})

\* A step that writes nothing, or leaves one line behind ones already there.
Quiet ==
  /\ UNCHANGED <<lines, changed>> /\ fresh' \in Nat /\ fresh' >= fresh
  /\ Heads' \subseteq Heads \cup {DiskHead}
Writes ==
  /\ changed' = changed /\ fresh' = fresh + 2
  /\ \E prev \in Heads, how \in Hows :
       /\ lines' = Put(prev, how)
       /\ Heads' \subseteq IF how = "all" THEN {fresh} ELSE Heads

LEMMA HeadsNat ==
  ASSUME TypeOK
  PROVE  Heads \subseteq Nat
BY DEF TypeOK, Heads, Held, Handles

LEMMA BeginStep ==
  ASSUME AtMostOneDecision, TypeOK, Turns, NEW p \in Appenders, BeginAppend(p)
  PROVE  Turns' /\ Quiet
<1> USE DEF TypeOK
<1>1. /\ pend[p] = Idle /\ UNCHANGED <<lines, head, live, fresh, changed>>
      /\ pend' = [pend EXCEPT ![p] = HeadHash(HandleOf(p))]
      /\ p \in Writers => live /\ decided' = decided
      /\ p = Server => ~live /\ decided = 0 /\ decided' = 1
      /\ p \in Writers \/ p = Server
  BY EventLogAssumption DEF BeginAppend, AtMostOneDecision, Appenders
<1>2. \A q \in Appenders : pend[q] = Idle
  <2>1. \A q \in Appenders : HandleOf(q) = HandleOf(p) => pend[q] = Idle
    BY DEF BeginAppend, Unlocked
  <2>2. CASE p \in Writers
    BY <1>1, <2>1, <2>2, AppenderShape DEF Turns, Appenders
  <2>3. CASE p = Server
    BY <1>1, <2>1, <2>3, AppenderShape DEF Turns, Appenders
  <2> QED
    BY <1>1, <2>2, <2>3
<1>3. pend'[p] = HeadHash(HandleOf(p)) /\ \A q \in Appenders \ {p} : pend'[q] = Idle
  BY <1>1, <1>2
<1>4. HeadHash(HandleOf(p)) \in Heads \cup {DiskHead}
  <2>1. CASE p \in Writers
    BY <1>1, <2>1, AppenderShape DEF HeadHash, Heads
  <2>2. CASE p = Server
    BY <1>1, <2>2, AppenderShape DEF HeadHash, Turns
  <2> QED
    BY <1>1, <2>1, <2>2
<1>5. Held' \subseteq {HeadHash(HandleOf(p))}
  BY <1>3 DEF Held
<1>6. Heads' \subseteq Heads \cup {DiskHead}
  BY <1>1, <1>4, <1>5 DEF Heads
<1>7. Turns'
  BY <1>1, <1>3, AppenderShape, EventLogAssumption DEF Turns
<1> QED
  BY <1>1, <1>6, <1>7 DEF Quiet

\* When the append that is under way ends, nothing is held any more.
LEMMA ReleaseStep ==
  ASSUME TypeOK, Turns, NEW p \in Appenders, pend[p] # Idle,
         pend' = [pend EXCEPT ![p] = Idle]
  PROVE  /\ Held' = {} /\ pend[p] \in Heads
         /\ \A q \in Appenders : pend'[q] = Idle
<1>1. pend \in [Appenders -> Nat \cup {Idle}]
  BY DEF TypeOK
<1>2. \A q \in Appenders : pend'[q] = Idle
  BY <1>1 DEF Turns
<1>3. pend[p] \in Heads
  BY DEF Heads, Held
<1> QED
  BY <1>2, <1>3 DEF Held

LEMMA EndStep ==
  ASSUME TypeOK, Turns, NEW p \in Appenders, EndAppend(p)
  PROVE  Turns' /\ Writes
<1> USE DEF TypeOK
<1>1. /\ pend[p] # Idle /\ lines' = Put(pend[p], "all") /\ UNCHANGED <<live, decided, changed>>
      /\ head' = [head EXCEPT ![HandleOf(p)] = fresh] /\ fresh' = fresh + 2
      /\ pend' = [pend EXCEPT ![p] = Idle]
  BY DEF EndAppend
<1>2. Held' = {} /\ pend[p] \in Heads /\ \A q \in Appenders : pend'[q] = Idle
  BY <1>1, ReleaseStep
<1>3. p \in Writers \/ (p = Server /\ ~live /\ decided > 0)
  BY <1>1 DEF Turns, Appenders
<1>4. Heads' \subseteq {fresh}
  BY <1>1, <1>2, <1>3, AppenderShape DEF Heads, Handles
<1>5. Turns'
  <2>1. decided = 0 => head'["server"] = Unknown
    BY <1>1, <1>3, AppenderShape DEF Turns, Handles
  <2> QED
    BY <1>1, <1>2, <2>1, AppenderShape DEF Turns
<1> QED
  BY <1>1, <1>2, <1>4, <1>5 DEF Writes, Hows

LEMMA ShortStep ==
  ASSUME TypeOK, Turns, NEW p \in Appenders, ShortWrite(p)
  PROVE  Turns' /\ (Quiet \/ Writes)
<1> USE DEF TypeOK
<1>1. PICK how \in {"none", "part", "line"} : lines' = Put(pend[p], how)
  BY DEF ShortWrite
<1>2. /\ pend[p] # Idle /\ pend' = [pend EXCEPT ![p] = Idle] /\ fresh' = fresh + 2
      /\ UNCHANGED <<head, live, decided, changed>>
  BY DEF ShortWrite
<1>3. Held' = {} /\ pend[p] \in Heads /\ \A q \in Appenders : pend'[q] = Idle
  BY <1>2, ReleaseStep
<1>4. Heads' \subseteq Heads
  BY <1>2, <1>3 DEF Heads
<1>5. Turns'
  BY <1>2, <1>3, AppenderShape DEF Turns
<1>6. CASE how = "none"
  BY <1>1, <1>2, <1>4, <1>5, <1>6 DEF Quiet, Put
<1>7. CASE how # "none"
  <2>1. how \in Hows /\ how # "all"
    BY <1>1, <1>7 DEF Hows
  <2> QED
    BY <1>1, <1>2, <1>3, <1>4, <1>5, <2>1 DEF Writes
<1> QED
  BY <1>6, <1>7

LEMMA CrashStep ==
  ASSUME TypeOK, Turns, Crash
  PROVE  Turns' /\ (Quiet \/ Writes)
<1> USE DEF TypeOK
<1>1. /\ head' = [h \in Handles |-> Unknown] /\ pend' = [p \in Appenders |-> Idle]
      /\ ~live' /\ decided' = 0 /\ changed' = changed
  BY DEF Crash
<1>2. Heads' = {}
  BY <1>1 DEF Heads, Held
<1>3. Turns'
  BY <1>1, AppenderShape DEF Turns, Handles
<1>4. CASE UNCHANGED <<lines, fresh>>
  BY <1>1, <1>2, <1>3, <1>4 DEF Quiet
<1>5. ASSUME NEW p \in Appenders, NEW how \in {"all", "line", "part"},
             pend[p] # Idle, lines' = Put(pend[p], how), fresh' = fresh + 2
      PROVE  Writes
  <2>1. pend[p] \in Heads /\ how \in Hows
    BY <1>5 DEF Heads, Held, Hows
  <2> QED
    BY <1>1, <1>2, <1>5, <2>1 DEF Writes
<1> QED
  BY <1>3, <1>4, <1>5 DEF Crash

LEMMA RestStep ==
  ASSUME TypeOK, Turns, Launch \/ RunReturns \/ UNCHANGED vars
  PROVE  Turns' /\ Quiet
<1> USE DEF TypeOK
<1>1. CASE Launch
  <2>1. /\ ~live /\ live' /\ head' = [head EXCEPT !["run"] = Unknown] /\ pend[Server] = Idle
        /\ UNCHANGED <<lines, pend, decided, fresh, changed>>
    BY <1>1 DEF Launch
  <2>2. head'["run"] = Unknown /\ head'["server"] = head["server"]
    BY <2>1 DEF Handles
  <2>3. Heads' \subseteq Heads
    BY <2>1, <2>2 DEF Heads, Held
  <2>4. Turns'
    BY <2>1, <2>2 DEF Turns
  <2> QED
    BY <2>1, <2>3, <2>4 DEF Quiet
<1>2. CASE RunReturns
  <2>1. /\ ~live' /\ \A p \in Writers : pend[p] = Idle
        /\ UNCHANGED <<lines, head, pend, decided, fresh, changed>>
    BY <1>2 DEF RunReturns
  <2>2. Heads' \subseteq Heads
    BY <2>1 DEF Heads, Held
  <2>3. Turns'
    BY <2>1 DEF Turns
  <2> QED
    BY <2>1, <2>2, <2>3 DEF Quiet
<1>3. CASE UNCHANGED vars
  BY <1>3 DEF vars, Turns, Quiet, Heads, Held
<1> QED
  BY <1>1, <1>2, <1>3

\* Every step but a change is one of the two kinds.
LEMMA Moves ==
  ASSUME AtMostOneDecision, TypeOK, Turns, [Next]_vars
  PROVE  Turns' /\ (Quiet \/ Writes \/ Change)
<1>1. CASE Change
  BY <1>1 DEF Change, Turns
<1> QED
  BY <1>1, BeginStep, EndStep, ShortStep, CrashStep, RestStep DEF Next

-----------------------------------------------------------------------------
(* The chain.                                                              *)

\* Until a change every line has a number of its own, below the next.
Numbered ==
  /\ fresh > Snapshot
  /\ \A i \in 1..Len(lines) :
       lines[i].hash > Snapshot /\ lines[i].hash < fresh /\ lines[i].prev < fresh
  /\ \A v \in Heads : v < fresh
Distinct == \A i, j \in 1..Len(lines) : lines[i].hash = lines[j].hash => i = j

\* A line is chained to no line before its predecessor, nor will one be.
NoSkip ==
  \A i \in 1..Len(lines) :
    /\ \A j \in 1..(i - 2) : lines[j].hash # lines[i].prev
    /\ i > 1 => lines[i].prev # Snapshot
Current(v) == (\A j \in 1..(Kept - 1) : lines[j].hash # v) /\ (Kept > 0 => v # Snapshot)

\* What is readable is chained, and on a readable file so will be the next.
Linked == \A i \in 1..Len(lines) : Readable(i) => lines[i].prev = Expected(i)
OnDisk == Readable(Len(lines)) /\ ~TailOpen(lines) => \A v \in Heads : v = DiskHead

Sound == Numbered /\ Distinct /\ NoSkip /\ (\A v \in Heads : Current(v)) /\ Linked /\ OnDisk
LogInv == TypeOK /\ Turns /\ (~changed => Sound) /\ ChangeDetected

LEMMA InitLog == Init => LogInv
<1> SUFFICES ASSUME Init PROVE LogInv
  OBVIOUS
<1>1. TypeOK
  BY InitTyped
<1>2. lines = <<>> /\ Len(lines) = 0 /\ ~live /\ ~changed /\ fresh = 1
      /\ head["server"] = Unknown /\ \A p \in Appenders : pend[p] = Idle
  BY DEF Init, Snapshot, Handles
<1>3. Heads = {}
  BY <1>2 DEF Heads, Held
<1>4. Turns
  BY <1>2, AppenderShape DEF Turns
<1>5. Sound
  BY <1>2, <1>3 DEF Sound, Numbered, Distinct, NoSkip, Linked, OnDisk, Snapshot
<1> QED
  BY <1>1, <1>2, <1>4, <1>5 DEF LogInv, ChangeDetected

LEMMA QuietKeeps ==
  ASSUME TypeOK, ~changed => Sound, ChangeDetected, Quiet
  PROVE  (~changed => Sound)' /\ ChangeDetected'
<1> USE DEF Quiet
<1>1. /\ \A i : Expected(i)' = Expected(i) /\ (Readable(i)' <=> Readable(i))
                 /\ (Chained(i)' <=> Chained(i))
      /\ DiskHead' = DiskHead /\ Kept' = Kept
      /\ TailOpen(lines)' <=> TailOpen(lines)
  BY DEF Expected, Readable, Chained, DiskHead, Kept, TailOpen
<1>2. ChangeDetected'
  BY <1>1 DEF ChangeDetected, Verify
<1>3. ASSUME ~changed
      PROVE  Sound'
  <2> USE <1>3 DEF Sound
  <2>1. /\ DiskHead \in Nat /\ Len(lines) \in Nat /\ Kept \in Nat
        /\ Kept \in {Len(lines), Len(lines) - 1} /\ fresh \in Nat
        /\ Len(lines) = 0 => DiskHead = Snapshot
        /\ Len(lines) > 0 => DiskHead = lines[Len(lines)].hash
        /\ \A i \in 1..Len(lines) : lines[i].hash \in Nat /\ lines[i].prev \in Nat
    BY DiskHeadNat, KeptNat DEF TypeOK, Line
  <2>2. DiskHead < fresh
    BY <2>1 DEF Numbered
  <2>3. Current(DiskHead)
    <3>1. CASE Len(lines) = 0
      BY <2>1, <3>1 DEF Current
    <3>2. CASE Len(lines) > 0
      <4>1. \A j \in 1..(Kept - 1) : j \in 1..Len(lines) /\ j # Len(lines)
        BY <2>1
      <4>2. Len(lines) \in 1..Len(lines) /\ DiskHead > Snapshot
        BY <2>1, <3>2 DEF Numbered
      <4> QED
        BY <2>1, <3>2, <4>1, <4>2 DEF Current, Distinct, Snapshot
    <3> QED
      BY <2>1, <3>1, <3>2
  <2>4. \A v : Current(v)' <=> Current(v)
    BY <1>1 DEF Current
  <2>5. \A v \in Heads' : v \in Heads \/ v = DiskHead
    OBVIOUS
  <2>6. Numbered'
    BY <2>1, <2>2, <2>5, HeadsNat DEF Numbered, Snapshot
  <2>7. Distinct' /\ NoSkip'
    BY DEF Distinct, NoSkip
  <2>8. Linked'
    BY <1>1 DEF Linked
  <2>9. OnDisk'
    BY <1>1, <2>5 DEF OnDisk
  <2> QED
    BY <2>3, <2>4, <2>5, <2>6, <2>7, <2>8, <2>9
<1> QED
  BY <1>2, <1>3

\* The line a write leaves behind is chained as it should be.
LEMMA WriteKeeps ==
  ASSUME TypeOK, ~changed => Sound, ChangeDetected, Writes
  PROVE  (~changed => Sound)' /\ ChangeDetected'
<1>1. PICK prev \in Heads, how \in Hows :
         lines' = Put(prev, how) /\ Heads' \subseteq IF how = "all" THEN {fresh} ELSE Heads
  BY DEF Writes
<1>2. PICK k \in Nat : k = Kept
  BY KeptNat DEF TypeOK
<1>3. /\ Len(lines) \in Nat /\ k \in {Len(lines), Len(lines) - 1}
      /\ TailOpen(lines) => k = Len(lines) - 1
      /\ ~TailOpen(lines) => k = Len(lines)
  BY <1>2, KeptNat DEF Kept, TypeOK
<1>4. /\ lines' \in Seq(Line) /\ Len(lines') = k + 1
      /\ \A i \in 1..k : lines'[i] = lines[i]
      /\ lines'[k + 1].prev = prev
      /\ lines'[k + 1].open <=> how # "all"
      /\ lines'[k + 1].hash \in {fresh, fresh + 1}
      /\ lines'[k + 1].whole => ~TailOpen(lines) /\ how # "part" /\ lines'[k + 1].hash = fresh
  <2>1. prev \in Nat
    BY <1>1, HeadsNat
  <2> QED
    BY <1>1, <1>2, <2>1, PutShape
<1>5. fresh' = fresh + 2 /\ fresh \in Nat /\ changed' = changed /\ Heads \subseteq Nat
  BY HeadsNat DEF Writes, TypeOK
<1>6. \A i \in 1..k : Expected(i)' = Expected(i) /\ (Readable(i)' <=> Readable(i))
  <2> SUFFICES ASSUME NEW i \in 1..k
               PROVE  Expected(i)' = Expected(i) /\ (Readable(i)' <=> Readable(i))
    OBVIOUS
  <2>1. \A j \in 1..i : lines'[j] = lines[j]
    BY <1>4
  <2>2. Readable(i)' <=> Readable(i)
    BY <2>1 DEF Readable
  <2>3. Expected(i)' = Expected(i)
    <3>1. CASE i = 1
      BY <3>1 DEF Expected
    <3>2. CASE i # 1
      <4>1. i - 1 \in 1..i
        BY <3>2
      <4> QED
        BY <2>1, <3>2, <4>1 DEF Expected
    <3> QED
      BY <3>1, <3>2
  <2> QED
    BY <2>2, <2>3
<1>7. TailOpen(lines)' <=> how # "all"
  <2>1. lines' # <<>>
    BY <1>3, <1>4, EmptySeq
  <2> QED
    BY <1>4, <2>1 DEF TailOpen, Last
<1>8. Kept' = IF how = "all" THEN k + 1 ELSE k
  BY <1>3, <1>4, <1>7 DEF Kept
<1>9. ASSUME changed
      PROVE  ~Verify'
  <2>1. PICK i \in 1..Len(lines) : ~lines[i].whole \/ lines[i].prev # Expected(i)
    BY <1>9 DEF ChangeDetected, Verify, Readable, Chained
  <2>2. CASE i \in 1..k
    <3>1. i \in 1..Len(lines') /\ lines'[i] = lines[i] /\ Expected(i)' = Expected(i)
      BY <1>4, <1>6, <2>2
    <3> QED
      BY <2>1, <3>1 DEF Verify, Readable, Chained
  <2>3. CASE i \notin 1..k
    <3>1. TailOpen(lines) /\ k + 1 \in 1..Len(lines')
      BY <1>3, <1>4, <2>3
    <3> QED
      BY <1>4, <3>1 DEF Verify, Readable
  <2> QED
    BY <2>2, <2>3
<1>10. ASSUME ~changed
       PROVE  Sound'
  <2> USE <1>10 DEF Sound
  <2>1. /\ \A i \in 1..k : lines[i].hash > Snapshot /\ lines[i].hash < fresh /\ lines[i].prev < fresh
        /\ \A i \in 1..k : lines[i].hash \in Nat /\ lines[i].prev \in Nat
        /\ \A i \in 1..k : i \in 1..Len(lines)
        /\ prev \in Nat /\ prev < fresh
        /\ Snapshot = 0 /\ fresh > 0
    <3>1. \A i \in 1..k : i \in 1..Len(lines)
      BY <1>3
    <3>2. \A i \in 1..k : lines[i].hash \in Nat /\ lines[i].prev \in Nat
      BY <3>1, DiskHeadNat DEF Line, TypeOK
    <3>3. prev \in Nat /\ prev < fresh /\ Snapshot = 0 /\ fresh > 0
      BY <1>1, <1>5 DEF Numbered, Snapshot
    <3> QED
      BY <3>1, <3>2, <3>3 DEF Numbered
  <2>2. \A i \in 1..(k + 1) : i \in 1..k \/ i = k + 1
    BY <1>2
  <2>3. Numbered'
    <3>1. ASSUME NEW i \in 1..(k + 1)
          PROVE  lines'[i].hash > 0 /\ lines'[i].hash < fresh + 2 /\ lines'[i].prev < fresh + 2
      <4>1. CASE i \in 1..k
        BY <1>4, <1>5, <2>1, <4>1
      <4>2. CASE i = k + 1
        BY <1>4, <1>5, <2>1, <4>2
      <4> QED
        BY <2>2, <4>1, <4>2
    <3>2. \A v \in Heads' : v < fresh + 2
      BY <1>1, <1>5 DEF Numbered
    <3> QED
      BY <1>4, <1>5, <2>1, <3>1, <3>2 DEF Numbered
  <2>4. Distinct'
    <3> SUFFICES ASSUME NEW i \in 1..(k + 1), NEW j \in 1..(k + 1), lines'[i].hash = lines'[j].hash
                 PROVE  i = j
      BY <1>4 DEF Distinct
    <3>1. \A m \in 1..k : lines'[m].hash < fresh /\ lines'[m].hash \in Nat /\ lines'[m] = lines[m]
      BY <1>4, <2>1
    <3>2. lines'[k + 1].hash >= fresh
      BY <1>4, <1>5
    <3>3. CASE i \in 1..k /\ j \in 1..k
      BY <2>1, <3>1, <3>3 DEF Distinct
    <3>4. CASE i = k + 1 /\ j \in 1..k
      BY <1>5, <3>1, <3>2, <3>4
    <3>5. CASE j = k + 1 /\ i \in 1..k
      BY <1>5, <3>1, <3>2, <3>5
    <3> QED
      BY <2>2, <3>3, <3>4, <3>5
  <2>5. NoSkip'
    <3> SUFFICES ASSUME NEW i \in 1..(k + 1)
                 PROVE  /\ \A j \in 1..(i - 2) : lines'[j].hash # lines'[i].prev
                        /\ i > 1 => lines'[i].prev # Snapshot
      BY <1>4 DEF NoSkip
    <3>1. \A j \in 1..(i - 2) : j \in 1..k /\ lines'[j] = lines[j]
      BY <1>2, <1>4
    <3>2. CASE i \in 1..k
      <4>1. lines'[i] = lines[i] /\ i \in 1..Len(lines)
        BY <1>4, <2>1, <3>2
      <4> QED
        BY <3>1, <4>1 DEF NoSkip
    <3>3. CASE i = k + 1
      <4>1. (\A j \in 1..(k - 1) : lines[j].hash # prev) /\ (k > 0 => prev # Snapshot)
        BY <1>1, <1>2 DEF Current
      <4>2. i - 2 = k - 1 /\ (i > 1 <=> k > 0)
        BY <1>2, <3>3
      <4> QED
        BY <1>4, <3>1, <3>3, <4>1, <4>2
    <3> QED
      BY <2>2, <3>2, <3>3
  <2>6. ASSUME NEW v \in Heads'
        PROVE  Current(v)'
    <3>1. CASE how = "all"
      <4>1. v = fresh /\ Kept' = k + 1
        BY <1>1, <1>8, <3>1
      <4>2. \A j \in 1..k : lines'[j].hash # fresh
        BY <1>4, <1>5, <2>1
      <4>3. (k + 1) - 1 = k
        BY <1>2
      <4> QED
        BY <2>1, <4>1, <4>2, <4>3 DEF Current
    <3>2. CASE how # "all"
      <4>1. v \in Heads /\ Kept' = k
        BY <1>1, <1>8, <3>2
      <4>2. \A j \in 1..(k - 1) : lines'[j] = lines[j]
        BY <1>2, <1>4
      <4> QED
        BY <1>2, <4>1, <4>2 DEF Current
    <3> QED
      BY <3>1, <3>2
  <2>7. Readable(k + 1)' => ~TailOpen(lines) /\ lines'[k + 1].hash = fresh /\ prev = DiskHead
    <3> SUFFICES ASSUME Readable(k + 1)'
                 PROVE  ~TailOpen(lines) /\ lines'[k + 1].hash = fresh /\ prev = DiskHead
      OBVIOUS
    <3>1. \A i \in 1..(k + 1) : lines'[i].whole
      BY DEF Readable
    <3>2. lines'[k + 1].whole
      BY <1>2, <3>1
    <3>3. ~TailOpen(lines) /\ lines'[k + 1].hash = fresh /\ k = Len(lines)
      BY <1>3, <1>4, <3>2
    <3>4. Readable(Len(lines))
      <4>1. \A i \in 1..k : lines[i].whole
        BY <1>2, <1>4, <3>1
      <4> QED
        BY <3>3, <4>1 DEF Readable
    <3> QED
      BY <1>1, <3>3, <3>4 DEF OnDisk
  <2>8. Linked'
    <3> SUFFICES ASSUME NEW i \in 1..(k + 1), Readable(i)'
                 PROVE  lines'[i].prev = Expected(i)'
      BY <1>4 DEF Linked
    <3>1. CASE i \in 1..k
      BY <1>4, <1>6, <2>1, <3>1 DEF Linked
    <3>2. CASE i = k + 1
      <4>1. prev = DiskHead /\ k = Len(lines)
        BY <1>3, <2>7, <3>2
      <4>2. CASE k = 0
        BY <1>4, <3>2, <4>1, <4>2, DiskHeadNat DEF Expected, TypeOK
      <4>3. CASE k > 0
        <5>1. k \in 1..k /\ Expected(k + 1)' = lines'[k].hash
          BY <1>2, <4>3 DEF Expected
        <5>2. lines'[k] = lines[k]
          BY <1>4, <5>1
        <5> QED
          BY <1>4, <3>2, <4>1, <4>3, <5>1, <5>2, DiskHeadNat DEF TypeOK
      <4> QED
        BY <1>2, <4>2, <4>3
    <3> QED
      BY <2>2, <3>1, <3>2
  <2>9. OnDisk'
    <3> SUFFICES ASSUME Readable(k + 1)', how = "all", NEW v \in Heads'
                 PROVE  v = DiskHead'
      BY <1>4, <1>7 DEF OnDisk
    <3>1. v = fresh /\ lines'[k + 1].hash = fresh
      BY <1>1, <2>7
    <3>2. lines' # <<>>
      BY <1>2, <1>4, EmptySeq
    <3> QED
      BY <1>4, <3>1, <3>2 DEF DiskHead, Last
  <2> QED
    BY <2>3, <2>4, <2>5, <2>6, <2>8, <2>9
<1> QED
  BY <1>5, <1>9, <1>10 DEF ChangeDetected

\* A changed line no longer has the hash its successor is chained to, and what
\* takes a line's place is not chained to what stands before it.
LEMMA ChangeKeeps ==
  ASSUME TypeOK, ~changed => Sound, Change
  PROVE  (~changed => Sound)' /\ ChangeDetected'
<1>1. ~changed /\ changed' /\ Sound
  BY DEF Change
<1>2. PICK i \in 1..(Len(lines) - 1) :
         lines' \in {[lines EXCEPT ![i].hash = fresh],
                     RemoveAt(lines, i),
                     [lines EXCEPT ![i] = lines[i + 1], ![i + 1] = lines[i]]}
  BY DEF Change
<1>3. /\ Len(lines) \in Nat /\ i \in 1..Len(lines) /\ i + 1 \in 1..Len(lines)
      /\ lines \in Seq(Line) /\ lines[i] \in Line /\ lines[i + 1] \in Line
  BY <1>2, DiskHeadNat DEF TypeOK
<1>4. CASE lines' = [lines EXCEPT ![i].hash = fresh]
  <2>1. [lines[i] EXCEPT !.hash = fresh] \in Line /\ [lines[i] EXCEPT !.hash = fresh].hash = fresh
    BY <1>3 DEF Line, TypeOK
  <2>2. PICK l \in Line : l = [lines[i] EXCEPT !.hash = fresh]
    BY <2>1
  <2>3. lines' = [lines EXCEPT ![i] = l] /\ l.hash = fresh
    BY <1>4, <2>1, <2>2
  <2>4. /\ Len(lines') = Len(lines) /\ lines'[i] = l
        /\ \A j \in 1..Len(lines) : j # i => lines'[j] = lines[j]
    BY <1>3, <2>3, ExceptSeq
  <2>5. i + 1 # 1 /\ (i + 1) - 1 = i /\ i + 1 # i
    BY <1>3
  <2>6. lines'[i + 1].prev = lines[i + 1].prev /\ Expected(i + 1)' = fresh
    BY <1>3, <2>3, <2>4, <2>5 DEF Expected
  <2>7. lines[i + 1].prev # fresh
    BY <1>1, <1>3 DEF Sound, Numbered, Line, TypeOK
  <2> QED
    BY <1>1, <1>3, <2>4, <2>6, <2>7 DEF ChangeDetected, Verify, Chained
<1>5. ASSUME \A j \in 1..(i - 1) : lines'[j] = lines[j], lines'[i] = lines[i + 1], i \in 1..Len(lines')
      PROVE  ~Verify'
  <2>1. /\ \A j \in 1..(i - 1) : lines[j].hash # lines[i + 1].prev
        /\ lines[i + 1].prev # Snapshot
    <3>1. (i + 1) - 2 = i - 1 /\ i + 1 > 1
      BY <1>3
    <3> QED
      BY <1>1, <1>3, <3>1 DEF Sound, NoSkip
  <2>2. Expected(i)' # lines[i + 1].prev
    <3>1. CASE i = 1
      BY <2>1, <3>1 DEF Expected
    <3>2. CASE i # 1
      <4>1. i - 1 \in 1..(i - 1)
        BY <1>3, <3>2
      <4> QED
        BY <1>5, <2>1, <3>2, <4>1 DEF Expected
    <3> QED
      BY <3>1, <3>2
  <2> QED
    BY <1>5, <2>2 DEF Verify, Chained
<1>6. CASE lines' = RemoveAt(lines, i)
  BY <1>1, <1>2, <1>3, <1>5, <1>6, RemoveShape DEF ChangeDetected
<1>7. CASE lines' = [lines EXCEPT ![i] = lines[i + 1], ![i + 1] = lines[i]]
  BY <1>1, <1>2, <1>3, <1>5, <1>7, SwapShape DEF ChangeDetected
<1> QED
  BY <1>1, <1>2, <1>4, <1>6, <1>7

LEMMA NextLog ==
  ASSUME AtMostOneDecision, LogInv, [Next]_vars
  PROVE  LogInv'
<1> USE DEF LogInv
<1>1. TypeOK'
  BY NextTyped
<1>2. Turns' /\ (Quiet \/ Writes \/ Change)
  BY Moves
<1> QED
  BY <1>1, <1>2, QuietKeeps, WriteKeeps, ChangeKeeps

LEMMA AlwaysLog ==
  ASSUME AtMostOneDecision
  PROVE  Spec => []LogInv
<1>1. LogInv /\ [Next]_vars => LogInv'
  BY NextLog
<1> QED
  BY <1>1, InitLog, PTL DEF Spec

-----------------------------------------------------------------------------
(* The first torn line.                                                    *)

Lower == { ss \in Nat \X Nat : ss[1] < ss[2] }

LEMMA LowerWellFounded == IsWellFoundedOn(Lower, Nat)
BY NatLessThanWellFounded DEF OpToRel, Lower

LEMMA Least ==
  ASSUME NEW T \in SUBSET Nat, T # {}
  PROVE  \E n \in T : \A m \in T : n <= m
<1>1. PICK n \in T : \A m \in T : <<m, n>> \notin Lower
  BY LowerWellFounded, WFMin
<1>2. \A m \in T : ~(m < n)
  <2> SUFFICES ASSUME NEW m \in T, m < n PROVE FALSE
    OBVIOUS
  <2>1. <<m, n>> \in Nat \X Nat /\ <<m, n>>[1] = m /\ <<m, n>>[2] = n
    OBVIOUS
  <2>2. <<m, n>> \in Lower
    BY <2>1 DEF Lower
  <2> QED
    BY <1>1, <2>2
<1> QED
  BY <1>2

LEMMA CleanShape ==
  ASSUME lines \in Seq(Line)
  PROVE  Clean \in 0..Len(lines) /\ Readable(Clean)
<1>1. Len(lines) \in Nat
  BY LenProperties
<1>2. \E n \in 0..Len(lines) : Readable(n) /\ (n = Len(lines) \/ ~lines[n + 1].whole)
  <2> DEFINE T == { i \in 1..Len(lines) : ~lines[i].whole }
  <2>1. CASE T = {}
    BY <1>1, <2>1 DEF Readable
  <2>2. CASE T # {}
    <3>0. T \in SUBSET Nat
      BY <1>1
    <3> HIDE DEF T
    <3>1. PICK n \in T : \A m \in T : n <= m
      BY <2>2, <3>0, Least
    <3> USE DEF T
    <3>2. n - 1 \in 0..Len(lines) /\ (n - 1) + 1 = n /\ n \in 1..Len(lines) /\ ~lines[n].whole
      BY <1>1
    <3>3. \A i \in 1..(n - 1) : lines[i].whole
      BY <1>1, <3>1, <3>2
    <3> QED
      BY <3>2, <3>3 DEF Readable
  <2> QED
    BY <2>1, <2>2
<1> QED
  BY <1>2 DEF Clean

\* As long as nobody changes the file, all that was recorded before the first
\* torn line verifies: for every number of goroutines, lines and faults, when
\* a server process records at most one decision on an execution.
THEOREM ChainHolds ==
  ASSUME AtMostOneDecision
  PROVE  Spec => []ChainIntact
<1>1. LogInv => ChainIntact
  <2> SUFFICES ASSUME LogInv, ~changed PROVE Chained(Clean)
    BY DEF ChainIntact
  <2>1. Clean \in 0..Len(lines) /\ Readable(Clean) /\ Len(lines) \in Nat
    BY CleanShape, LenProperties DEF LogInv, TypeOK
  <2>2. PICK c \in 0..Len(lines) : c = Clean
    BY <2>1
  <2>3. \A i \in 1..c : i \in 1..Len(lines) /\ Readable(i)
    BY <2>1, <2>2 DEF Readable
  <2>4. \A i \in 1..c : lines[i].prev = Expected(i)
    BY <2>3 DEF LogInv, Sound, Linked
  <2> QED
    BY <2>2, <2>4 DEF Chained
<1> QED
  BY <1>1, AlwaysLog, PTL

\* An edited, deleted or swapped line with a successor fails Verify then and
\* ever after, through every restart and later append, on the same condition.
THEOREM ChangesFound ==
  ASSUME AtMostOneDecision
  PROVE  Spec => []ChangeDetected
<1>1. LogInv => ChangeDetected
  BY DEF LogInv
<1> QED
  BY <1>1, AlwaysLog, PTL

-----------------------------------------------------------------------------
(* Acknowledged events.  Hashes grow along the file and along the appends, *)
(* and a line that a later write may still join was not acknowledged.      *)

Ascends   == \A i, j \in 1..Len(lines) : i < j => lines[i].hash < lines[j].hash
AcksAscend == \A a, b \in 1..Len(acked) : a < b => acked[a] < acked[b]
Used      == /\ \A i \in 1..Len(lines) : lines[i].hash < fresh
             /\ \A a \in 1..Len(acked) : acked[a] < fresh
OpenOwed  == \A i \in 1..Len(lines) : lines[i].open =>
               \A a \in 1..Len(acked) : acked[a] # lines[i].hash
There(h)  == \E i \in 1..Len(lines) : lines[i].hash = h
AllThere  == Readable(Len(lines)) => \A a \in 1..Len(acked) : There(acked[a])

AckSound == Ascends /\ AcksAscend /\ Used /\ OpenOwed /\ AllThere
AckInv   == TypeOK /\ (~changed => AckSound)

\* A write keeps all that was acknowledged, or leaves a torn line; what it
\* acknowledges itself is its line, when that is not torn.
LEMMA WriteKeepsAcks ==
  ASSUME TypeOK, AckSound, NEW prev \in Nat, NEW how \in Hows, lines' = Put(prev, how),
         fresh' = fresh + 2,
         \/ acked' = acked
         \/ acked' = Append(acked, fresh) /\ how = "all"
  PROVE  AckSound'
<1> DEFINE k == Kept
           new == lines'[k + 1]
<1>1. /\ lines' \in Seq(Line) /\ Len(lines') = k + 1
      /\ \A i \in 1..k : lines'[i] = lines[i]
      /\ new.open <=> how # "all"
      /\ new.hash \in {fresh, fresh + 1}
      /\ new.whole => ~TailOpen(lines) /\ new.hash = fresh
  BY PutShape
<1>2. k \in Nat /\ k \in {Len(lines), Len(lines) - 1} /\ Len(lines) \in Nat
  BY KeptNat DEF TypeOK
<1>3. TailOpen(lines) => k = Len(lines) - 1 /\ lines[Len(lines)].open
  BY DEF TailOpen, Kept, Last
<1>4. ~TailOpen(lines) => k = Len(lines)
  BY DEF Kept
<1>5. /\ fresh \in Nat /\ acked \in Seq(Nat) /\ Len(acked) \in Nat
      /\ \A i \in 1..Len(lines) : lines[i] \in Line /\ lines[i].hash \in Nat
      /\ \A a \in 1..Len(acked) : acked[a] \in Nat
  <2>1. fresh \in Nat /\ acked \in Seq(Nat) /\ lines \in Seq(Line)
    BY DEF TypeOK
  <2>2. Len(acked) \in Nat /\ \A a \in 1..Len(acked) : acked[a] \in Nat
    BY <2>1, LenProperties
  <2>3. \A i \in 1..Len(lines) : lines[i] \in Line /\ lines[i].hash \in Nat
    BY <2>1, DiskHeadNat DEF Line
  <2> QED
    BY <2>1, <2>2, <2>3
<1> DEFINE m == Len(acked)
<1>6. /\ Len(acked') \in {m, m + 1}
      /\ \A a \in 1..m : acked'[a] = acked[a]
      /\ Len(acked') = m + 1 => acked'[m + 1] = fresh /\ how = "all"
  BY <1>5
<1>7. new.hash \in Nat /\ \A i \in 1..k : i \in 1..Len(lines) /\ lines[i].hash < fresh
  BY <1>1, <1>2, <1>5 DEF AckSound, Used
<1> HIDE DEF k, new, m
<1> USE DEF AckSound
<1>8. Ascends'
  <2> SUFFICES ASSUME NEW i \in 1..Len(lines'), NEW j \in 1..Len(lines'), i < j
               PROVE  lines'[i].hash < lines'[j].hash
    BY DEF Ascends
  <2>1. i \in 1..k /\ lines'[i] = lines[i] /\ i \in 1..Len(lines)
    BY <1>1, <1>2, <1>7
  <2>2. CASE j = k + 1
    BY <1>1, <1>5, <1>7, <2>1, <2>2 DEF new
  <2>3. CASE j # k + 1
    BY <1>1, <1>2, <1>7, <2>1, <2>3 DEF Ascends
  <2> QED
    BY <2>2, <2>3
<1>9. AcksAscend'
  <2> SUFFICES ASSUME NEW a \in 1..Len(acked'), NEW b \in 1..Len(acked'), a < b
               PROVE  acked'[a] < acked'[b]
    BY DEF AcksAscend
  <2>1. a \in 1..m /\ acked'[a] = acked[a]
    BY <1>5, <1>6 DEF m
  <2>2. CASE b \in 1..m
    BY <1>6, <2>1, <2>2 DEF AcksAscend, m
  <2>3. CASE b \notin 1..m
    <3>1. acked'[b] = fresh
      BY <1>5, <1>6, <2>3 DEF m
    <3> QED
      BY <2>1, <3>1 DEF Used, m
  <2> QED
    BY <2>2, <2>3
<1>10. Used'
  <2>1. \A i \in 1..Len(lines') : lines'[i].hash < fresh'
    BY <1>1, <1>2, <1>5, <1>7 DEF new
  <2>2. \A a \in 1..Len(acked') : acked'[a] < fresh'
    BY <1>5, <1>6 DEF Used, m
  <2> QED
    BY <2>1, <2>2 DEF Used
<1>11. OpenOwed'
  <2> SUFFICES ASSUME NEW i \in 1..Len(lines'), lines'[i].open, NEW a \in 1..Len(acked')
               PROVE  acked'[a] # lines'[i].hash
    BY DEF OpenOwed
  <2>1. CASE i = k + 1
    <3>1. how # "all" /\ a \in 1..m /\ acked'[a] < fresh
      BY <1>1, <1>5, <1>6, <2>1 DEF Used, m, new
    <3> QED
      BY <1>1, <1>5, <1>6, <2>1, <3>1 DEF new, m
  <2>2. CASE i # k + 1
    <3>1. i \in 1..k /\ lines'[i] = lines[i] /\ i \in 1..Len(lines)
      BY <1>1, <1>2, <1>7, <2>2
    <3>2. CASE a \in 1..m
      BY <1>6, <2>2, <3>1, <3>2 DEF OpenOwed, m
    <3>3. CASE a \notin 1..m
      BY <1>5, <1>6, <1>7, <3>1, <3>3 DEF m
    <3> QED
      BY <3>2, <3>3
  <2> QED
    BY <2>1, <2>2
<1>12. AllThere'
  <2> SUFFICES ASSUME Readable(Len(lines))', NEW a \in 1..Len(acked')
               PROVE  There(acked[a])'
    BY DEF AllThere
  <2>1. /\ k + 1 \in 1..Len(lines') /\ new.whole
        /\ \A i \in 1..k : i \in 1..Len(lines') /\ lines'[i].whole
    BY <1>1, <1>2 DEF Readable, new
  <2>2. ~TailOpen(lines) /\ k = Len(lines) /\ new.hash = fresh
    BY <1>1, <1>4, <2>1
  <2>3. Readable(Len(lines))
    BY <1>1, <2>1, <2>2 DEF Readable
  <2>4. CASE a \in 1..m
    <3>1. PICK i \in 1..Len(lines) : lines[i].hash = acked[a]
      BY <2>3, <2>4 DEF AllThere, There, m
    <3>2. i \in 1..Len(lines') /\ lines'[i].hash = acked'[a]
      BY <1>1, <1>6, <2>1, <2>2, <2>4, <3>1
    <3> QED
      BY <3>2 DEF There
  <2>5. CASE a \notin 1..m
    <3>1. acked'[a] = fresh
      BY <1>5, <1>6, <2>5 DEF m
    <3> QED
      BY <2>1, <2>2, <3>1 DEF There, new
  <2> QED
    BY <2>4, <2>5
<1> QED
  BY <1>8, <1>9, <1>10, <1>11, <1>12

LEMMA NoWriteKeepsAcks ==
  ASSUME TypeOK, AckSound, UNCHANGED <<lines, acked>>, fresh' \in {fresh, fresh + 2}
  PROVE  AckSound'
<1>1. /\ fresh \in Nat
      /\ \A i \in 1..Len(lines) : lines[i].hash \in Nat
      /\ \A a \in 1..Len(acked) : acked[a] \in Nat
  BY DiskHeadNat, LenProperties DEF TypeOK, Line
<1>2. Used'
  BY <1>1 DEF AckSound, Used
<1> QED
  BY <1>2 DEF AckSound, Ascends, AcksAscend, OpenOwed, AllThere, There, Readable

LEMMA NextAcks == AckInv /\ [Next]_vars => AckInv'
<1> SUFFICES ASSUME AckInv, [Next]_vars, ~changed' PROVE AckSound'
  BY NextTyped DEF AckInv
<1>1. TypeOK /\ (~changed => AckSound)
  BY DEF AckInv
<1>2. ASSUME NEW p \in Appenders, EndAppend(p)
      PROVE  AckSound'
  <2>1. /\ ~changed /\ pend[p] \in Nat /\ lines' = Put(pend[p], "all") /\ fresh' = fresh + 2
        /\ acked' = Append(acked, fresh) /\ "all" \in Hows
    BY <1>1, <1>2 DEF EndAppend, TypeOK, Hows
  <2> QED
    BY <1>1, <2>1, WriteKeepsAcks
<1>3. ASSUME NEW p \in Appenders, ShortWrite(p)
      PROVE  AckSound'
  <2>1. ~changed /\ pend[p] \in Nat /\ fresh' = fresh + 2 /\ acked' = acked
    BY <1>1, <1>3 DEF ShortWrite, TypeOK
  <2>2. PICK how \in {"none", "part", "line"} : lines' = Put(pend[p], how)
    BY <1>3 DEF ShortWrite
  <2>3. CASE how = "none"
    BY <1>1, <2>1, <2>2, <2>3, NoWriteKeepsAcks DEF Put
  <2>4. CASE how # "none"
    BY <1>1, <2>1, <2>2, <2>4, WriteKeepsAcks DEF Hows
  <2> QED
    BY <2>3, <2>4
<1>4. CASE Crash
  <2>1. ~changed /\ acked' = acked
    BY <1>4 DEF Crash
  <2>2. CASE UNCHANGED <<lines, fresh>>
    BY <1>1, <2>1, <2>2, NoWriteKeepsAcks
  <2>3. ASSUME NEW p \in Appenders, NEW how \in {"all", "line", "part"},
               pend[p] # Idle, lines' = Put(pend[p], how), fresh' = fresh + 2
        PROVE  AckSound'
    <3>1. pend[p] \in Nat /\ how \in Hows
      BY <1>1, <2>3 DEF TypeOK, Hows
    <3> QED
      BY <1>1, <2>1, <2>3, <3>1, WriteKeepsAcks
  <2> QED
    BY <1>4, <2>2, <2>3 DEF Crash
<1>5. CASE Change
  BY <1>5 DEF Change
<1>6. ASSUME UNCHANGED <<lines, acked, fresh, changed>>
      PROVE  AckSound'
  BY <1>1, <1>6, NoWriteKeepsAcks
<1> QED
  BY <1>2, <1>3, <1>4, <1>5, <1>6 DEF Next, vars, BeginAppend, Launch, RunReturns

\* An event whose append succeeded is in the file once and in its place, and
\* is missing only where a line is torn: for every number of goroutines,
\* server decisions, short writes and crashes, as long as nobody changes the
\* file.
THEOREM AcksStay == Spec => []AckedKept
<1>1. Init => AckInv
  <2> SUFFICES ASSUME Init PROVE AckSound
    BY InitTyped DEF AckInv
  <2>1. Len(lines) = 0 /\ Len(acked) = 0
    BY DEF Init
  <2> QED
    BY <2>1 DEF AckSound, Ascends, AcksAscend, Used, OpenOwed, AllThere
<1>2. AckInv => AckedKept
  <2> SUFFICES ASSUME AckInv, ~changed PROVE AckedKept
    BY DEF AckedKept
  <2>1. /\ Len(lines) \in Nat /\ Len(acked) \in Nat
        /\ \A i \in 1..Len(lines) : lines[i].hash \in Nat
        /\ \A a \in 1..Len(acked) : acked[a] \in Nat
    BY DiskHeadNat, LenProperties DEF AckInv, TypeOK, Line
  <2>2. ASSUME NEW i \in 1..Len(lines), NEW j \in 1..Len(lines),
               NEW a \in 1..Len(acked), NEW b \in 1..Len(acked),
               lines[i].hash = acked[a], lines[j].hash = acked[b]
        PROVE  i < j <=> a < b
    <3>1. i < j <=> lines[i].hash < lines[j].hash
      BY <2>1 DEF AckInv, AckSound, Ascends
    <3>2. a < b <=> acked[a] < acked[b]
      BY <2>1 DEF AckInv, AckSound, AcksAscend
    <3> QED
      BY <2>2, <3>1, <3>2
  <2>3. Readable(Len(lines)) =>
          \A a \in 1..Len(acked) : \E i \in 1..Len(lines) : lines[i].hash = acked[a]
    BY DEF AckInv, AckSound, AllThere, There
  <2> QED
    BY <2>2, <2>3 DEF AckedKept
<1> QED
  BY <1>1, <1>2, NextAcks, PTL DEF Spec

=============================================================================
