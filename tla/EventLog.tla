------------------------------ MODULE EventLog ------------------------------
(***************************************************************************)
(* The hash-chained event log of one execution (core/eventlog) as the      *)
(* control plane uses it.  The file is shared by two Log instances: the    *)
(* server's own (server.go:139), which lives as long as the process and    *)
(* appends approval decisions and reconciliation events, and the one that  *)
(* every launch builds anew in its assembly (cli/internal/runner), which   *)
(* the run's goroutines append through.  Each instance caches the hash of  *)
(* the last line it wrote and serializes its own appends; nothing orders   *)
(* the two.  The server appends only to a log that is there and while no   *)
(* run is in flight.                                                       *)
(*                                                                         *)
(* A line's hash is a number no other line has: SHA-256 is taken to be     *)
(* injective.  Writes can stop part-way (a full disk, a crash), and the    *)
(* file can be changed behind the log's back.                              *)
(***************************************************************************)
EXTENDS Naturals, Sequences, FiniteSets, SequencesExt

CONSTANTS Writers,         \* the goroutines of a run
          Server,          \* the request handler that appends a decision
          Unknown,         \* lastCh has no entry
          Idle,            \* no Append under way
          MaxLines,        \* bound: appends begun
          MaxDecisions,    \* bound: server appends per server process
          MaxFaults        \* bound: short writes, crashes and outside changes

Appenders == Writers \cup {Server}
HandleOf(p) == IF p = Server THEN "server" ELSE "run"
Handles == {"server", "run"}

Snapshot == 0              \* hash of snapshot.json, the chain's genesis

ASSUME EventLogAssumption ==
  /\ IsFiniteSet(Writers) /\ Server \notin Writers
  /\ Unknown \notin Nat /\ Idle \notin Nat
  /\ MaxLines \in Nat /\ MaxDecisions \in Nat /\ MaxFaults \in Nat

VARIABLES
  lines,    \* the file: its non-blank lines
  head,     \* head[h]: lastCh of instance h
  pend,     \* pend[p]: the predecessor hash p's Append holds, or Idle
  live,     \* a run is in flight
  decided,  \* server appends in this process
  acked,    \* hashes of the events whose Append returned nil, in that order
  fresh,    \* the next unused hash
  faults,   \* short writes, crashes and outside changes so far
  changed   \* a line with a successor was edited, deleted or reordered

vars == <<lines, head, pend, live, decided, acked, fresh, faults, changed>>

\* whole: the line is one JSON event; open: it has no newline yet.
Line == [hash : Nat, prev : Nat, whole : BOOLEAN, open : BOOLEAN]

Init ==
  /\ lines = <<>>
  /\ head = [h \in Handles |-> Unknown]
  /\ pend = [p \in Appenders |-> Idle]
  /\ live = FALSE /\ decided = 0 /\ acked = <<>>
  /\ fresh = Snapshot + 1
  /\ faults = 0 /\ changed = FALSE

-----------------------------------------------------------------------------
(* The file. *)

DiskHead == IF lines = <<>> THEN Snapshot ELSE Last(lines).hash

TailOpen(ls) == ls # <<>> /\ Last(ls).open

\* A line chained to prev as a write that ended so leaves it: "all" of it,
\* all but the newline ("line"), or a "part".
Written(prev, how) ==
  [hash |-> fresh, prev |-> prev, whole |-> how # "part", open |-> how # "all"]

\* mutant: opened without O_APPEND
Truncating(prev, how) == IF how = "none" THEN lines ELSE <<Written(prev, how)>>

\* Onto an open tail the bytes join the line that is there, and the two are
\* no event.
Put(prev, how) ==
  CASE how = "none" -> lines
    [] how # "none" /\ ~TailOpen(lines) -> Append(lines, Written(prev, how))
    [] how # "none" /\ TailOpen(lines) ->
         Append(Front(lines), [Written(prev, how) EXCEPT !.hash = fresh + 1, !.whole = FALSE])

-----------------------------------------------------------------------------
(* Append: headHash and the write, under the instance's mutex. *)

AnyTime(h) == TRUE \* mutant: no mutex
Unlocked(h) == \A p \in Appenders : HandleOf(p) = h => pend[p] = Idle

Cached(h) == head[h] \* mutant: the map lookup's ok is dropped
HeadHash(h) == IF head[h] = Unknown THEN DiskHead ELSE head[h]

\* Lines and appends under way.
Begun == Len(lines) + Cardinality({ p \in Appenders : pend[p] # Idle })

BeginAppend(p) ==
  /\ pend[p] = Idle /\ Unlocked(HandleOf(p)) /\ Begun < MaxLines
  /\ IF p = Server THEN ~live /\ lines # <<>> /\ decided < MaxDecisions ELSE live
  /\ pend' = [pend EXCEPT ![p] = HeadHash(HandleOf(p))]
  /\ decided' = decided + (IF p = Server THEN 1 ELSE 0)
  /\ UNCHANGED <<lines, head, live, acked, fresh, faults, changed>>

EndAppend(p) ==
  /\ pend[p] # Idle
  /\ lines' = Put(pend[p], "all")
  /\ head' = [head EXCEPT ![HandleOf(p)] = fresh]
  /\ pend' = [pend EXCEPT ![p] = Idle]
  /\ acked' = Append(acked, fresh)
  /\ fresh' = fresh + 2
  /\ UNCHANGED <<live, decided, faults, changed>>

\* The write fails part-way; the head is not advanced, and the scheduler
\* drops the error (emit is best-effort).
ShortWrite(p) ==
  /\ pend[p] # Idle /\ faults < MaxFaults
  /\ \E how \in {"none", "part", "line"} : lines' = Put(pend[p], how)
  /\ pend' = [pend EXCEPT ![p] = Idle]
  /\ fresh' = fresh + 2 /\ faults' = faults + 1
  /\ UNCHANGED <<head, live, decided, acked, changed>>

-----------------------------------------------------------------------------
(* Runs, the process, and the world outside it. *)

\* runner.LoadWith builds a new Log for every launch.
Launch ==
  /\ ~live /\ pend[Server] = Idle
  /\ live' = TRUE
  /\ head' = [head EXCEPT !["run"] = Unknown]
  /\ UNCHANGED <<lines, pend, decided, acked, fresh, faults, changed>>

RunReturns ==
  /\ live /\ \A p \in Writers : pend[p] = Idle
  /\ live' = FALSE
  /\ UNCHANGED <<lines, head, pend, decided, acked, fresh, faults, changed>>

\* The process dies, perhaps inside a write, and a new one starts: both
\* instances are gone.
Crash ==
  /\ faults < MaxFaults
  /\ \/ UNCHANGED <<lines, fresh>>
     \/ \E p \in Appenders, how \in {"all", "line", "part"} :
          /\ pend[p] # Idle
          /\ lines' = Put(pend[p], how) /\ fresh' = fresh + 2
  /\ head' = [h \in Handles |-> Unknown]
  /\ pend' = [p \in Appenders |-> Idle]
  /\ live' = FALSE /\ decided' = 0 /\ faults' = faults + 1
  /\ UNCHANGED <<acked, changed>>

\* Somebody edits, deletes or swaps a line that has a successor.
Change ==
  /\ faults < MaxFaults /\ ~changed
  /\ \E i \in 1..(Len(lines) - 1) :
       lines' \in {[lines EXCEPT ![i].hash = fresh],
                   RemoveAt(lines, i),
                   [lines EXCEPT ![i] = lines[i + 1], ![i + 1] = lines[i]]}
  /\ changed' = TRUE
  /\ fresh' = fresh + 2 /\ faults' = faults + 1
  /\ UNCHANGED <<head, pend, live, decided, acked>>

Next ==
  \/ \E p \in Appenders : BeginAppend(p) \/ EndAppend(p) \/ ShortWrite(p)
  \/ Launch \/ RunReturns \/ Crash \/ Change

Spec == Init /\ [][Next]_vars

-----------------------------------------------------------------------------
(* Verify and ReadAll. *)

\* mutant: the first line is compared with itself, not with the snapshot
AnyGenesis(i) == IF i = 1 THEN lines[1].prev ELSE lines[i - 1].hash
Expected(i) == IF i = 1 THEN Snapshot ELSE lines[i - 1].hash

Readable(n) == \A i \in 1..n : lines[i].whole
Chained(n)  == \A i \in 1..n : lines[i].prev = Expected(i)
Verify      == Readable(Len(lines)) /\ Chained(Len(lines))

\* The lines before the first that is no event.
Clean == CHOOSE n \in 0..Len(lines) : Readable(n) /\ (n = Len(lines) \/ ~lines[n + 1].whole)

-----------------------------------------------------------------------------
(* Properties. *)

\* Every variable keeps its type.
TypeOK ==
  /\ lines \in Seq(Line)
  /\ head \in [Handles -> Nat \cup {Unknown}]
  /\ pend \in [Appenders -> Nat \cup {Idle}]
  /\ live \in BOOLEAN /\ changed \in BOOLEAN
  /\ decided \in Nat /\ fresh \in Nat /\ faults \in Nat
  /\ acked \in Seq(Nat)

\* REQ-EVENT-03: as long as nobody changes the file, what was recorded before
\* the first torn line verifies, whatever goroutines, launches, server
\* decisions, restarts and failed writes produced it.
ChainIntact == ~changed => Chained(Clean)

\* REQ-EVENT-02: an event whose append returned nil stays in the file where
\* it was put, once and in the order of the appends; none is missing unless it
\* was appended onto a torn line.
AckedKept ==
  ~changed =>
    /\ \A i, j \in 1..Len(lines), a, b \in 1..Len(acked) :
         lines[i].hash = acked[a] /\ lines[j].hash = acked[b] => (i < j <=> a < b)
    /\ Readable(Len(lines)) =>
         \A a \in 1..Len(acked) : \E i \in 1..Len(lines) : lines[i].hash = acked[a]

\* REQ-EVENT-03: an edit, deletion or swap of a line that has a successor is
\* found by Verify then and ever after, through restarts and later appends.
ChangeDetected == changed => ~Verify

=============================================================================
