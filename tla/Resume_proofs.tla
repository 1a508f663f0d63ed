---------------------------- MODULE Resume_proofs ----------------------------
(***************************************************************************)
(* What holds of an execution over any number of crashes, resumes,         *)
(* retries, approvals, backups and restores, for every workflow: what the  *)
(* record says of a node that no retry threw away is what every result     *)
(* that is rebuilt from it says.                                           *)
(***************************************************************************)
EXTENDS Resume, FiniteSetTheorems, TLAPS

-----------------------------------------------------------------------------
(* The record: what one more event changes.                                *)

IsLog(log) == \E S : log \in Seq(S)

\* An event at the end of a log leaves the rest of it in place.
LEMMA Appended ==
  ASSUME NEW log, IsLog(log), NEW e
  PROVE  /\ IsLog(log \o <<e>>)
         /\ Len(log) \in Nat /\ DOMAIN log = 1..Len(log)
         /\ Len(log \o <<e>>) = Len(log) + 1
         /\ DOMAIN (log \o <<e>>) = DOMAIN log \cup {Len(log) + 1}
         /\ \A i \in DOMAIN log : (log \o <<e>>)[i] = log[i]
         /\ (log \o <<e>>)[Len(log) + 1] = e
         /\ Len(log) + 1 \notin DOMAIN log
<1>1. PICK S : log \in Seq(S)
  BY DEF IsLog
<1>2. log \in Seq(S \cup {e}) /\ <<e>> \in Seq(S \cup {e})
  BY <1>1
<1>3. log \o <<e>> \in Seq(S \cup {e})
  BY <1>2
<1>4. IsLog(log \o <<e>>)
  BY <1>3 DEF IsLog
<1> QED
  BY <1>2, <1>3, <1>4

Later == { ss \in Nat \X Nat : ss[1] < ss[2] }

\* Of some places in a log one is the last.
LEMMA SomeLast ==
  ASSUME NEW k \in Nat, NEW T \in SUBSET (1..k), T # {}
  PROVE  \E m \in T : \A j \in T : j <= m
<1> DEFINE D == { k - i : i \in T }
<1>1. IsWellFoundedOn(Later, Nat)
  BY NatLessThanWellFounded DEF OpToRel, Later
<1>2. D \in SUBSET Nat /\ D # {}
  <2>1. \A i \in T : k - i \in Nat
    OBVIOUS
  <2> QED
    BY <2>1
<1>3. PICK d \in D : \A c \in D : <<c, d>> \notin Later
  <2> HIDE DEF D
  <2> QED
    BY <1>1, <1>2, WFMin
<1>4. PICK m \in T : d = k - m
  BY <1>3
<1>5. ASSUME NEW j \in T, m < j PROVE FALSE
  <2>1. k - j \in D
    OBVIOUS
  <2>2. <<k - j, d>> \in Nat \X Nat /\ <<k - j, d>>[1] = k - j /\ <<k - j, d>>[2] = d
    BY <1>4
  <2>3. <<k - j, d>> \in Later
    BY <1>4, <1>5, <2>2 DEF Later
  <2> QED
    BY <1>3, <2>1, <2>3
<1> QED
  BY <1>5

\* The last event of some types about a node is one of them.
LEMMA LastIsOne ==
  ASSUME NEW log, IsLog(log), NEW types, NEW n, About(log, types, n) # {}
  PROVE  \E i \in About(log, types, n) :
           /\ \A j \in About(log, types, n) : j <= i
           /\ LastOf(log, types, n) = log[i]
<1> DEFINE T == About(log, types, n)
<1>1. PICK k \in Nat : DOMAIN log = 1..k
  <2>1. Len(log) \in Nat /\ DOMAIN log = 1..Len(log)
    BY DEF IsLog
  <2> QED
    BY <2>1
<1>2. T \in SUBSET (1..k) /\ T # {}
  BY <1>1 DEF About
<1>3. \E m \in T : \A j \in T : j <= m
  <2> HIDE DEF T
  <2> QED
    BY <1>1, <1>2, SomeLast
<1> QED
  BY <1>3 DEF LastOf

EndOf(log, n) == IF About(log, Ends, n) = {} THEN "none" ELSE LastOf(log, Ends, n).type
SeenBy(log, n) == LastOf(log, {"WorkerFinished"}, n).seen

\* What a log with one more event is about.
LEMMA AboutNow ==
  ASSUME NEW log, IsLog(log), NEW e, NEW types, NEW n
  PROVE  /\ e.type \in types /\ e.node = n =>
              /\ About(log \o <<e>>, types, n) = About(log, types, n) \cup {Len(log) + 1}
              /\ LastOf(log \o <<e>>, types, n) = e
         /\ ~(e.type \in types /\ e.node = n) =>
              /\ About(log \o <<e>>, types, n) = About(log, types, n)
              /\ About(log, types, n) # {} =>
                   LastOf(log \o <<e>>, types, n) = LastOf(log, types, n)
<1> DEFINE new == log \o <<e>>
<1>1. PICK k \in Nat : /\ k = Len(log) /\ IsLog(new) /\ DOMAIN log = 1..k
                       /\ DOMAIN new = DOMAIN log \cup {k + 1}
                       /\ \A i \in DOMAIN log : new[i] = log[i]
                       /\ new[k + 1] = e
  BY Appended
<1> HIDE DEF new
<1>2. CASE e.type \in types /\ e.node = n
  <2>1. About(new, types, n) = About(log, types, n) \cup {k + 1}
    BY <1>1, <1>2 DEF About
  <2>2. About(new, types, n) # {}
    BY <2>1
  <2>3. PICK i \in About(new, types, n) :
          /\ \A j \in About(new, types, n) : j <= i /\ LastOf(new, types, n) = new[i]
    BY <1>1, <2>2, LastIsOne
  <2>4. i = k + 1
    BY <1>1, <2>1, <2>3 DEF About
  <2> QED
    BY <1>1, <1>2, <2>1, <2>2, <2>3, <2>4 DEF new
<1>3. CASE ~(e.type \in types /\ e.node = n)
  <2>1. About(new, types, n) = About(log, types, n)
    BY <1>1, <1>3 DEF About
  <2>2. ASSUME About(log, types, n) # {} PROVE LastOf(new, types, n) = LastOf(log, types, n)
    <3>1. \E i \in About(log, types, n) : \A j \in About(log, types, n) : j <= i
      BY <2>2, LastIsOne
    <3> DEFINE last == CHOOSE i \in About(log, types, n) : \A j \in About(log, types, n) : j <= i
    <3>2. last \in About(log, types, n)
      BY <3>1
    <3>3. last \in DOMAIN log
      BY <3>2 DEF About
    <3> QED
      BY <1>1, <2>1, <3>3 DEF LastOf
  <2> QED
    BY <1>3, <2>1, <2>2 DEF new
<1> QED
  BY <1>2, <1>3

\* What one more event changes of all that is rebuilt from a log
\* (resume.go:87, audit.go:97).
LEMMA Recorded ==
  ASSUME NEW log, IsLog(log), NEW e, NEW n
  PROVE  /\ \A t : Has(log \o <<e>>, t, n) <=> Has(log, t, n) \/ (e.type = t /\ e.node = n)
         /\ LastHash(log \o <<e>>, n) =
              IF e.type = "ArtifactCreated" /\ e.node = n THEN e.hash ELSE LastHash(log, n)
         /\ EndOf(log \o <<e>>, n) =
              IF e.type \in Ends /\ e.node = n THEN e.type ELSE EndOf(log, n)
         /\ e.type = "WorkerFinished" /\ e.node = n => SeenBy(log \o <<e>>, n) = e.seen
         /\ ~(e.type = "WorkerFinished" /\ e.node = n) /\ Has(log, "WorkerFinished", n) =>
              SeenBy(log \o <<e>>, n) = SeenBy(log, n)
<1> DEFINE new == log \o <<e>>
<1>0. \A types :
        /\ e.type \in types /\ e.node = n =>
              /\ About(new, types, n) = About(log, types, n) \cup {Len(log) + 1}
              /\ LastOf(new, types, n) = e
        /\ ~(e.type \in types /\ e.node = n) =>
              /\ About(new, types, n) = About(log, types, n)
              /\ About(log, types, n) # {} => LastOf(new, types, n) = LastOf(log, types, n)
  BY AboutNow
<1> HIDE DEF new
<1>1. \A t : Has(new, t, n) <=> Has(log, t, n) \/ (e.type = t /\ e.node = n)
  <2> SUFFICES ASSUME NEW t PROVE Has(new, t, n) <=> Has(log, t, n) \/ (e.type = t /\ e.node = n)
    OBVIOUS
  <2>1. e.type = t /\ e.node = n => About(new, {t}, n) = About(log, {t}, n) \cup {Len(log) + 1}
    BY <1>0
  <2>2. ~(e.type = t /\ e.node = n) => About(new, {t}, n) = About(log, {t}, n)
    BY <1>0
  <2> QED
    BY <2>1, <2>2 DEF Has
<1>2. LastHash(new, n) =
        IF e.type = "ArtifactCreated" /\ e.node = n THEN e.hash ELSE LastHash(log, n)
  <2> DEFINE C == {"ArtifactCreated"}
  <2>1. e.type \in C <=> e.type = "ArtifactCreated"
    OBVIOUS
  <2>2. e.type \in C /\ e.node = n => LastOf(new, C, n) = e
    BY <1>0
  <2>3. ~(e.type \in C /\ e.node = n) =>
          /\ About(new, C, n) = About(log, C, n)
          /\ About(log, C, n) # {} => LastOf(new, C, n) = LastOf(log, C, n)
    BY <1>0
  <2> QED
    BY <1>1, <2>1, <2>2, <2>3 DEF LastHash, Has
<1>3. EndOf(new, n) = IF e.type \in Ends /\ e.node = n THEN e.type ELSE EndOf(log, n)
  <2>2. e.type \in Ends /\ e.node = n =>
          /\ About(new, Ends, n) = About(log, Ends, n) \cup {Len(log) + 1}
          /\ LastOf(new, Ends, n) = e
    BY <1>0
  <2>3. ~(e.type \in Ends /\ e.node = n) =>
          /\ About(new, Ends, n) = About(log, Ends, n)
          /\ About(log, Ends, n) # {} => LastOf(new, Ends, n) = LastOf(log, Ends, n)
    BY <1>0
  <2> QED
    BY <2>2, <2>3 DEF EndOf
<1>4. e.type = "WorkerFinished" /\ e.node = n => SeenBy(new, n) = e.seen
  BY <1>0 DEF SeenBy
<1>5. ~(e.type = "WorkerFinished" /\ e.node = n) /\ Has(log, "WorkerFinished", n) =>
        SeenBy(new, n) = SeenBy(log, n)
  BY <1>0 DEF SeenBy, Has
<1> QED
  BY <1>1, <1>2, <1>3, <1>4, <1>5 DEF new

-----------------------------------------------------------------------------
(* The graph.                                                              *)

\* An edge into a node ends there and starts at a node (scheduler.go:224).
LEMMA EdgeEnds ==
  ASSUME NEW n
  PROVE  /\ \A e \in ToSet(EdgesInto(n)) :
              e \in ToSet(Edges) /\ e \in ToSet(wf.edges) /\ e.from \in Ids /\ e.to = n /\ e.to \in Ids
         /\ \A e \in ToSet(Edges) : e \in ToSet(wf.edges) /\ e \in ToSet(EdgesInto(e.to))
         /\ \A i \in DOMAIN EdgesInto(n) :
              EdgesInto(n)[i] \in ToSet(EdgesInto(n)) /\ EdgesInto(n)[i].from \in Ids
         /\ ParentsOf(n) \subseteq Ids
         /\ \A e \in ToSet(EdgesInto(n)) : e.from \in ParentsOf(n)
         /\ \A p \in ParentsOf(n) : \E e \in ToSet(EdgesInto(n)) : e.from = p
<1>1. /\ DOMAIN Edges = { i \in DOMAIN wf.edges : Known(wf.edges[i]) }
      /\ \A i \in DOMAIN Edges : Edges[i] = wf.edges[i]
  BY DEF Edges, RestrictValues, Restrict
<1>2. \A m : /\ DOMAIN EdgesInto(m) = { i \in DOMAIN Edges : Edges[i].to = m }
             /\ \A i \in DOMAIN EdgesInto(m) : EdgesInto(m)[i] = Edges[i]
  BY DEF EdgesInto, RestrictValues, Restrict
<1>3. \A e \in ToSet(EdgesInto(n)) :
        e \in ToSet(Edges) /\ e \in ToSet(wf.edges) /\ e.from \in Ids /\ e.to = n /\ e.to \in Ids
  <2> SUFFICES ASSUME NEW e \in ToSet(EdgesInto(n))
               PROVE  e \in ToSet(Edges) /\ e \in ToSet(wf.edges) /\ e.from \in Ids /\ e.to = n /\ e.to \in Ids
    OBVIOUS
  <2>1. PICK i \in DOMAIN EdgesInto(n) : e = EdgesInto(n)[i]
    BY DEF ToSet
  <2>0. /\ DOMAIN EdgesInto(n) = { j \in DOMAIN Edges : Edges[j].to = n }
        /\ \A j \in DOMAIN EdgesInto(n) : EdgesInto(n)[j] = Edges[j]
    BY <1>2
  <2>2. i \in DOMAIN Edges /\ e = Edges[i] /\ e.to = n
    BY <2>0, <2>1
  <2>3. i \in DOMAIN wf.edges /\ e = wf.edges[i] /\ Known(e)
    BY <1>1, <2>2
  <2> QED
    BY <2>2, <2>3 DEF ToSet, Known
<1>4. \A e \in ToSet(Edges) : e \in ToSet(wf.edges) /\ e \in ToSet(EdgesInto(e.to))
  BY ZenonT(30), <1>1, <1>2 DEF ToSet
<1>5. \A i \in DOMAIN EdgesInto(n) :
        EdgesInto(n)[i] \in ToSet(EdgesInto(n)) /\ EdgesInto(n)[i].from \in Ids
  BY <1>3 DEF ToSet
<1> QED
  BY <1>3, <1>4, <1>5 DEF ParentsOf

\* What is upstream of a parent is upstream (graph.go:260).
LEMMA Upstream ==
  ASSUME NEW n, NEW p \in ParentsOf(n)
  PROVE  p \in AncestorsOf(n) /\ AncestorsOf(p) \subseteq AncestorsOf(n)
<1>1. p \in Ids
  BY EdgeEnds
<1> QED
  BY <1>1 DEF AncestorsOf, Closed

\* A node downstream of another is followed by its children
\* (descendantsInclusive, resume.go:146).
LEMMA DownstreamClosed ==
  ASSUME NEW n, NEW m \in Ids, NEW p \in ParentsOf(m), p \in DownstreamOf(n)
  PROVE  m \in DownstreamOf(n)
BY Upstream DEF DownstreamOf

\* The graph is that of the submission, which no step changes.
LEMMA SameGraph ==
  ASSUME wf' = wf
  PROVE  /\ Ids' = Ids /\ Edges' = Edges
         /\ \A n : /\ EdgesInto(n)' = EdgesInto(n) /\ ParentsOf(n)' = ParentsOf(n)
                  /\ AncestorsOf(n)' = AncestorsOf(n) /\ NodeOf(n)' = NodeOf(n)
         /\ FallbackOnly' = FallbackOnly /\ \A n : Fallback(n)' = Fallback(n)
         /\ \A s : Missing(s)' = Missing(s)
<1>1. Ids' = Ids
  BY DEF Ids
<1>2. \A e : Known(e)' <=> Known(e)
  BY <1>1 DEF Known
<1>3. Edges' = Edges
  BY <1>2 DEF Edges, RestrictValues, Restrict
<1>4. \A n : EdgesInto(n)' = EdgesInto(n)
  BY <1>3 DEF EdgesInto, RestrictValues, Restrict
<1>5. \A n : ParentsOf(n)' = ParentsOf(n)
  BY <1>4 DEF ParentsOf
<1>6. \A n : AncestorsOf(n)' = AncestorsOf(n)
  BY <1>1, <1>5 DEF AncestorsOf, Closed
<1>7. \A n : NodeOf(n)' = NodeOf(n)
  BY DEF NodeOf
<1>8. \A s : Missing(s)' = Missing(s)
  BY DEF Missing, Bound
<1>9. FallbackOnly' = FallbackOnly /\ \A n : Fallback(n)' = Fallback(n)
  BY <1>1, <1>7 DEF FallbackOnly, Fallback
<1> QED
  BY <1>1, <1>3, <1>4, <1>5, <1>6, <1>7, <1>8, <1>9

LEMMA SameContext ==
  ASSUME wf' = wf
  PROVE  \A n, ins : Admitted(n, ins)' = Admitted(n, ins)
<1>1. \A n : NodeOf(n)' = NodeOf(n)
  BY SameGraph
<1>2. \A context, ins : Resolve(context, ins)' = Resolve(context, ins)
  BY <1>1 DEF Resolve, RestrictValues, Restrict
<1> QED
  BY <1>1, <1>2 DEF Admitted, RestrictValues, Restrict

-----------------------------------------------------------------------------
(* What a record says of the nodes no retry threw away, and what the       *)
(* states and outputs rebuilt from it say.                                 *)

States == {"pending", "running", "succeeded", "failed", "skipped"}
Out == Docs \cup {NoDoc}
Feed(out, n) ==
  [i \in DOMAIN EdgesInto(n) |->
     [from |-> EdgesInto(n)[i].from, doc |-> out[EdgesInto(n)[i].from]]]
Hashes(log) == [m \in Ids |-> LastHash(log, m)]

\* The node's last run is its last finish, of what its parents finished with,
\* by itself or by its fallback.
Sound(log, n) ==
  /\ EndOf(log, n) = "WorkerFinished"
  /\ \A e \in ToSet(EdgesInto(n)) :
       Finished(log, e.from) /\ EvalCondition(e.cond, LastHash(log, e.from)) = "yes"
  /\ \E d \in {n} \cup Fallback(n) :
       SeenBy(log, n) = HashesOf(Admitted(d, Feed(Hashes(log), n)))
LogOK(log, dropped) ==
  /\ \A n \in Ids : Finished(log, n) => LastHash(log, n) \in Docs
  /\ \A n \in Ids \ dropped : Finished(log, n) => Sound(log, n)

Succ(st, out, log) ==
  \A n \in Ids : IF st[n] = "succeeded" THEN Finished(log, n) /\ out[n] = LastHash(log, n)
                 ELSE out[n] = NoDoc
Kept(st, log, dropped) ==
  \A n \in Ids \ dropped : Finished(log, n) =>
    st[n] = "succeeded" /\ \A p \in ParentsOf(n) : st[p] = "succeeded"
Failures(st, log) == \A n \in Ids : st[n] = "failed" => EndOf(log, n) = "Failure"
Agree(st, out, log, dropped) ==
  Succ(st, out, log) /\ Kept(st, log, dropped) /\ Failures(st, log)

\* An event that says neither an artifact nor an end changes none of it.
Alike(log, new) ==
  \A n \in Ids : /\ Finished(new, n) <=> Finished(log, n)
                 /\ LastHash(new, n) = LastHash(log, n) /\ EndOf(new, n) = EndOf(log, n)
                 /\ Finished(log, n) => SeenBy(new, n) = SeenBy(log, n)

LEMMA OtherEvent ==
  ASSUME NEW log, IsLog(log), NEW e,
         e.type \notin {"ArtifactCreated", "WorkerFinished", "Failure"}
  PROVE  Alike(log, log \o <<e>>)
<1> SUFFICES ASSUME NEW n \in Ids
             PROVE  /\ Finished(log \o <<e>>, n) <=> Finished(log, n)
                    /\ LastHash(log \o <<e>>, n) = LastHash(log, n)
                    /\ EndOf(log \o <<e>>, n) = EndOf(log, n)
                    /\ Finished(log, n) => SeenBy(log \o <<e>>, n) = SeenBy(log, n)
  BY DEF Alike
<1>1. e.type \notin Ends /\ e.type # "WorkerFinished" /\ e.type # "ArtifactCreated"
  BY DEF Ends
<1>2. /\ \A t : Has(log \o <<e>>, t, n) <=> Has(log, t, n) \/ (e.type = t /\ e.node = n)
      /\ LastHash(log \o <<e>>, n) = LastHash(log, n)
      /\ EndOf(log \o <<e>>, n) = EndOf(log, n)
      /\ Has(log, "WorkerFinished", n) => SeenBy(log \o <<e>>, n) = SeenBy(log, n)
  BY <1>1, Recorded
<1> QED
  BY <1>1, <1>2 DEF Finished

\* What a node is fed depends on what its parents put out only.
LEMMA FeedOf ==
  ASSUME NEW out, NEW new, NEW n,
         \A e \in ToSet(EdgesInto(n)) : new[e.from] = out[e.from]
  PROVE  Feed(new, n) = Feed(out, n)
<1>1. \A i \in DOMAIN EdgesInto(n) : new[EdgesInto(n)[i].from] = out[EdgesInto(n)[i].from]
  BY EdgeEnds
<1> QED
  BY <1>1 DEF Feed

LEMMA SoundStays ==
  ASSUME NEW log, NEW new, NEW n \in Ids, Sound(log, n),
         EndOf(new, n) = EndOf(log, n), SeenBy(new, n) = SeenBy(log, n),
         \A p \in ParentsOf(n) : /\ Finished(log, p) => Finished(new, p)
                                 /\ LastHash(new, p) = LastHash(log, p)
  PROVE  Sound(new, n)
<1>1. \A e \in ToSet(EdgesInto(n)) :
        /\ e.from \in ParentsOf(n) /\ e.from \in Ids
        /\ Finished(new, e.from) /\ LastHash(new, e.from) = LastHash(log, e.from)
  BY EdgeEnds DEF Sound
<1>2. \A e \in ToSet(EdgesInto(n)) : Hashes(new)[e.from] = Hashes(log)[e.from]
  BY <1>1 DEF Hashes
<1>3. Feed(Hashes(new), n) = Feed(Hashes(log), n)
  BY <1>2, FeedOf
<1> QED
  BY <1>1, <1>3 DEF Sound

LEMMA AlikeKeeps ==
  ASSUME NEW log, NEW new, Alike(log, new), NEW dropped, LogOK(log, dropped)
  PROVE  /\ LogOK(new, dropped)
         /\ \A st, out : Agree(st, out, log, dropped) => Agree(st, out, new, dropped)
<1>1. \A n \in Ids : ParentsOf(n) \subseteq Ids
  BY EdgeEnds
<1>2. ASSUME NEW n \in Ids \ dropped, Finished(new, n) PROVE Sound(new, n)
  <2>1. Finished(log, n) /\ Sound(log, n)
    BY <1>2 DEF Alike, LogOK
  <2> QED
    BY <1>1, <2>1, SoundStays DEF Alike
<1>3. LogOK(new, dropped)
  BY <1>2 DEF LogOK, Alike
<1> QED
  BY <1>3 DEF Alike, Agree, Succ, Kept, Failures

\* An artifact of a node that runs changes nothing of what a reused node was
\* given: everything after the one that runs was thrown away, or never ran.
LEMMA CreatedKeeps ==
  ASSUME NEW log, IsLog(log), NEW dropped, LogOK(log, dropped),
         NEW st, NEW out, Agree(st, out, log, dropped),
         NEW n \in Ids, st[n] = "running", NEW e,
         e.type = "ArtifactCreated", e.node = n, e.hash \in Docs
  PROVE  LogOK(log \o <<e>>, dropped) /\ Agree(st, out, log \o <<e>>, dropped)
<1> DEFINE new == log \o <<e>>
<1>1. ASSUME NEW m \in Ids
      PROVE  /\ Finished(new, m) <=> Finished(log, m)
             /\ EndOf(new, m) = EndOf(log, m)
             /\ Finished(log, m) => SeenBy(new, m) = SeenBy(log, m)
             /\ LastHash(new, m) = IF m = n THEN e.hash ELSE LastHash(log, m)
  <2>1. e.type \notin Ends /\ e.type # "WorkerFinished"
    BY DEF Ends
  <2> QED
    BY <2>1, Recorded DEF Finished
<1> HIDE DEF new
<1>2. \A m \in Ids \ dropped :
        Finished(log, m) => m # n /\ n \notin ParentsOf(m) /\ Sound(log, m)
  BY DEF Agree, Kept, LogOK
<1>3. ASSUME NEW m \in Ids \ dropped, Finished(new, m) PROVE Sound(new, m)
  <2>1. /\ m # n /\ Sound(log, m) /\ n \notin ParentsOf(m)
        /\ EndOf(new, m) = EndOf(log, m) /\ SeenBy(new, m) = SeenBy(log, m)
    BY <1>1, <1>2, <1>3
  <2>2. ParentsOf(m) \subseteq Ids
    BY EdgeEnds
  <2>3. \A p \in ParentsOf(m) : /\ Finished(log, p) => Finished(new, p)
                                /\ LastHash(new, p) = LastHash(log, p)
    BY <1>1, <2>1, <2>2
  <2> QED
    BY <2>1, <2>3, SoundStays
<1>4. LogOK(new, dropped)
  BY <1>1, <1>3 DEF LogOK
<1>5. Succ(st, out, new) /\ Kept(st, new, dropped) /\ Failures(st, new)
  BY <1>1 DEF Agree, Succ, Kept, Failures
<1> QED
  BY <1>4, <1>5 DEF Agree, new

\* A node that fails was not reusable, unless thrown away.
LEMMA FailureKeeps ==
  ASSUME NEW log, IsLog(log), NEW dropped, LogOK(log, dropped),
         NEW st \in [Ids -> States], NEW out, Agree(st, out, log, dropped),
         NEW n \in Ids, st[n] = "running", NEW e, e.type = "Failure", e.node = n
  PROVE  /\ LogOK(log \o <<e>>, dropped)
         /\ Agree(st, out, log \o <<e>>, dropped)
         /\ Agree([st EXCEPT ![n] = "failed"], out, log \o <<e>>, dropped)
<1> DEFINE new == log \o <<e>>
<1>1. ASSUME NEW m \in Ids
      PROVE  /\ Finished(new, m) <=> Finished(log, m)
             /\ EndOf(new, m) = IF m = n THEN "Failure" ELSE EndOf(log, m)
             /\ Finished(log, m) => SeenBy(new, m) = SeenBy(log, m)
             /\ LastHash(new, m) = LastHash(log, m)
  <2>1. e.type \in Ends /\ e.type # "WorkerFinished" /\ e.type # "ArtifactCreated"
    BY DEF Ends
  <2> QED
    BY <2>1, Recorded DEF Finished
<1> HIDE DEF new
<1>2. \A m \in Ids \ dropped : Finished(log, m) => m # n /\ Sound(log, m)
  BY DEF Agree, Kept, LogOK
<1>3. ASSUME NEW m \in Ids \ dropped, Finished(new, m) PROVE Sound(new, m)
  <2>1. m # n /\ Sound(log, m) /\ EndOf(new, m) = EndOf(log, m) /\ SeenBy(new, m) = SeenBy(log, m)
    BY <1>1, <1>2, <1>3
  <2>2. ParentsOf(m) \subseteq Ids
    BY EdgeEnds
  <2>3. \A p \in ParentsOf(m) : /\ Finished(log, p) => Finished(new, p)
                                /\ LastHash(new, p) = LastHash(log, p)
    BY <1>1, <2>2
  <2> QED
    BY <2>1, <2>3, SoundStays
<1>4. LogOK(new, dropped)
  BY <1>1, <1>3 DEF LogOK
<1> DEFINE next == [st EXCEPT ![n] = "failed"]
<1>5. \A m \in Ids : next[m] = IF m = n THEN "failed" ELSE st[m]
  OBVIOUS
<1>6. \A m \in Ids : ParentsOf(m) \subseteq Ids
  BY EdgeEnds
<1> HIDE DEF next
<1>7. Succ(next, out, new)
  BY <1>1, <1>5 DEF Agree, Succ
<1>8. Kept(next, new, dropped)
  BY <1>1, <1>5, <1>6 DEF Agree, Kept
<1>9. Failures(next, new)
  BY <1>1, <1>5 DEF Agree, Failures
<1>10. Succ(st, out, new) /\ Kept(st, new, dropped) /\ Failures(st, new)
  BY <1>1 DEF Agree, Succ, Kept, Failures
<1> QED
  BY <1>4, <1>7, <1>8, <1>9, <1>10 DEF Agree, new, next

Holds(e, out) == EvalCondition(e.cond, out[e.from]) = "yes"
\* A node that runs, or ran and failed, was chosen by every edge into it.
ChosenBy(n, st, out) ==
  \A e \in ToSet(EdgesInto(n)) : st[e.from] = "succeeded" /\ Holds(e, out)
Chosen(st, out) ==
  \A n \in Ids : st[n] \in {"running", "failed"} => ChosenBy(n, st, out)

\* A node that finishes is reusable from now on.
LEMMA FinishKeeps ==
  ASSUME NEW log, IsLog(log), NEW dropped, LogOK(log, dropped),
         NEW st \in [Ids -> States], NEW out \in [Ids -> Out], Agree(st, out, log, dropped),
         NEW n \in Ids, st[n] = "running", ChosenBy(n, st, out),
         LastHash(log, n) \in Docs, NEW e, e.type = "WorkerFinished", e.node = n,
         NEW d \in {n} \cup Fallback(n), e.seen = HashesOf(Admitted(d, Feed(out, n)))
  PROVE  /\ LogOK(log \o <<e>>, dropped \ {n})
         /\ Agree([st EXCEPT ![n] = "succeeded"], [out EXCEPT ![n] = LastHash(log, n)],
                  log \o <<e>>, dropped \ {n})
<1> DEFINE new == log \o <<e>>
           left == dropped \ {n}
           nst == [st EXCEPT ![n] = "succeeded"]
           nout == [out EXCEPT ![n] = LastHash(log, n)]
<1>1. ASSUME NEW m \in Ids
      PROVE  /\ Finished(new, m) <=> Finished(log, m) \/ m = n
             /\ EndOf(new, m) = IF m = n THEN "WorkerFinished" ELSE EndOf(log, m)
             /\ m = n => SeenBy(new, m) = e.seen
             /\ m # n /\ Finished(log, m) => SeenBy(new, m) = SeenBy(log, m)
             /\ LastHash(new, m) = LastHash(log, m)
  <2>1. e.type \in Ends /\ e.type # "ArtifactCreated"
    BY DEF Ends
  <2>2. Finished(new, m) <=> Finished(log, m) \/ m = n
    BY <2>1, Recorded DEF Finished
  <2>3. EndOf(new, m) = IF m = n THEN "WorkerFinished" ELSE EndOf(log, m)
    BY <2>1, Recorded
  <2>4. m = n => SeenBy(new, m) = e.seen
    BY <2>1, Recorded
  <2>5. m # n /\ Finished(log, m) => SeenBy(new, m) = SeenBy(log, m)
    BY <2>1, Recorded DEF Finished
  <2>6. LastHash(new, m) = LastHash(log, m)
    BY <2>1, Recorded
  <2> QED
    BY <2>2, <2>3, <2>4, <2>5, <2>6
<1>2. /\ \A m \in Ids : nst[m] = IF m = n THEN "succeeded" ELSE st[m]
      /\ \A m \in Ids : nout[m] = IF m = n THEN LastHash(log, n) ELSE out[m]
  OBVIOUS
<1>3. \A m \in Ids : ParentsOf(m) \subseteq Ids
  BY EdgeEnds
<1> HIDE DEF new, nst, nout
<1>4. ASSUME NEW m \in Ids \ dropped, m # n, Finished(log, m) PROVE Sound(new, m)
  <2>1. /\ Sound(log, m) /\ EndOf(new, m) = EndOf(log, m) /\ SeenBy(new, m) = SeenBy(log, m)
    BY <1>1, <1>4 DEF LogOK
  <2>3. \A p \in ParentsOf(m) : /\ Finished(log, p) => Finished(new, p)
                                /\ LastHash(new, p) = LastHash(log, p)
    BY <1>1, <1>3
  <2> QED
    BY <2>1, <2>3, SoundStays
<1>5. Sound(new, n)
  <2>1. \A x \in ToSet(EdgesInto(n)) :
          /\ x.from \in Ids /\ st[x.from] = "succeeded"
          /\ Finished(log, x.from) /\ out[x.from] = LastHash(log, x.from)
          /\ EvalCondition(x.cond, out[x.from]) = "yes"
    BY EdgeEnds DEF ChosenBy, Holds, Agree, Succ
  <2>2. \A x \in ToSet(EdgesInto(n)) : Finished(new, x.from)
    BY <1>1, <2>1
  <2>3. \A x \in ToSet(EdgesInto(n)) : LastHash(new, x.from) = out[x.from]
    BY <1>1, <2>1
  <2>4. \A x \in ToSet(EdgesInto(n)) : Hashes(new)[x.from] = out[x.from]
    BY <2>1, <2>3 DEF Hashes
  <2>5. Feed(Hashes(new), n) = Feed(out, n)
    BY <2>4, FeedOf
  <2>6. SeenBy(new, n) = HashesOf(Admitted(d, Feed(Hashes(new), n)))
    BY <1>1, <2>5
  <2>7. EndOf(new, n) = "WorkerFinished"
    BY <1>1
  <2> QED
    BY <2>1, <2>2, <2>3, <2>6, <2>7 DEF Sound
<1>6. LogOK(new, left)
  <2>1. \A m \in Ids : Finished(new, m) => LastHash(new, m) \in Docs
    BY <1>1 DEF LogOK
  <2>2. \A m \in Ids \ left : Finished(new, m) => Sound(new, m)
    BY <1>1, <1>4, <1>5
  <2> QED
    BY <2>1, <2>2 DEF LogOK
<1>7. Succ(nst, nout, new)
  BY <1>1, <1>2 DEF Agree, Succ
<1>8. Kept(nst, new, left)
  <2>1. \A p \in ParentsOf(n) : st[p] = "succeeded"
    BY EdgeEnds DEF ChosenBy
  <2> QED
    BY <1>1, <1>2, <1>3, <2>1 DEF Agree, Kept
<1>9. Failures(nst, new)
  BY <1>1, <1>2 DEF Agree, Failures
<1> QED
  BY <1>6, <1>7, <1>8, <1>9 DEF Agree, new, nst, nout

\* A node the coordinator decides, or that waits for an approval, is not one
\* that the record says is done.
LEMMA MoveKeeps ==
  ASSUME NEW log, NEW dropped, NEW st \in [Ids -> States], NEW out,
         Agree(st, out, log, dropped), NEW n \in Ids, st[n] # "succeeded",
         NEW x \in {"pending", "running", "skipped"}
  PROVE  Agree([st EXCEPT ![n] = x], out, log, dropped)
<1> DEFINE next == [st EXCEPT ![n] = x]
<1>1. \A m \in Ids : next[m] = IF m = n THEN x ELSE st[m]
  OBVIOUS
<1>2. \A m \in Ids : ParentsOf(m) \subseteq Ids
  BY EdgeEnds
<1> HIDE DEF next
<1>3. Succ(next, out, log)
  BY <1>1 DEF Agree, Succ
<1>4. Kept(next, log, dropped)
  BY <1>1, <1>2 DEF Agree, Kept
<1>5. Failures(next, log)
  BY <1>1 DEF Agree, Failures
<1> QED
  BY <1>3, <1>4, <1>5 DEF Agree, next

\* A skipped node has an edge that did not hold, but for a fallback node that
\* nothing triggered.
SkippedBy(n, st, out) ==
  \E e \in ToSet(EdgesInto(n)) :
    \/ st[e.from] \in {"failed", "skipped"}
    \/ /\ st[e.from] = "succeeded"
       /\ EvalCondition(e.cond, out[e.from]) \notin {"yes", "error"}
Skips(st, out) == \A n \in Ids \ FallbackOnly : st[n] = "skipped" => SkippedBy(n, st, out)

\* A decision is not taken back when another node moves.
LEMMA ChosenStays ==
  ASSUME NEW st \in [Ids -> States], NEW out, NEW new, Chosen(st, out),
         NEW n \in Ids, st[n] # "succeeded", NEW x \in States,
         x \in {"running", "failed"} => ChosenBy(n, st, out),
         \A m \in Ids \ {n} : new[m] = out[m]
  PROVE  Chosen([st EXCEPT ![n] = x], new)
<1> DEFINE next == [st EXCEPT ![n] = x]
<1>1. \A m \in Ids : next[m] = IF m = n THEN x ELSE st[m]
  OBVIOUS
<1> HIDE DEF next
<1>2. ASSUME NEW m \in Ids, ChosenBy(m, st, out) PROVE ChosenBy(m, next, new)
  <2>1. \A e \in ToSet(EdgesInto(m)) : e.from \in Ids
    BY EdgeEnds
  <2> QED
    BY <1>1, <1>2, <2>1 DEF ChosenBy, Holds
<1> QED
  BY <1>1, <1>2 DEF Chosen, next

LEMMA SkipsStay ==
  ASSUME NEW st \in [Ids -> States], NEW out, NEW new, Skips(st, out),
         NEW n \in Ids, st[n] \in {"pending", "running"}, NEW x \in States,
         x = "skipped" => SkippedBy(n, st, out),
         \A m \in Ids \ {n} : new[m] = out[m]
  PROVE  Skips([st EXCEPT ![n] = x], new)
<1> DEFINE next == [st EXCEPT ![n] = x]
<1>1. \A m \in Ids : next[m] = IF m = n THEN x ELSE st[m]
  OBVIOUS
<1> HIDE DEF next
<1>2. ASSUME NEW m \in Ids, SkippedBy(m, st, out) PROVE SkippedBy(m, next, new)
  <2>1. PICK e \in ToSet(EdgesInto(m)) :
          \/ st[e.from] \in {"failed", "skipped"}
          \/ /\ st[e.from] = "succeeded"
             /\ EvalCondition(e.cond, out[e.from]) \notin {"yes", "error"}
    BY <1>2 DEF SkippedBy
  <2>2. e.from \in Ids /\ e.from # n
    BY <2>1, EdgeEnds
  <2>3. next[e.from] = st[e.from] /\ new[e.from] = out[e.from]
    BY <1>1, <2>2
  <2> QED
    BY <2>1, <2>3 DEF SkippedBy
<1> QED
  BY <1>1, <1>2 DEF Skips, next

-----------------------------------------------------------------------------
(* The run: the coordinator's maps and the tasks of the workers.           *)

Phases == {"none", "called", "stored", "created"}
Causes == {"none", "approval", "node", "edge"}
Busy(r) == { n \in DOMAIN r.task : r.task[n].phase # "none" }

RunShape(r) ==
  /\ r = [state |-> r.state, out |-> r.out, due |-> r.due, ready |-> r.ready,
          used |-> r.used, task |-> r.task,
          tried |-> r.tried, asked |-> r.asked, cause |-> r.cause]
  /\ r.state \in [Ids -> States] /\ r.out \in [Ids -> Out]
  /\ r.due \in SUBSET Ids /\ r.ready \in SUBSET Ids
  /\ DOMAIN r.used = Ids /\ r.task \in [Ids -> [phase : Phases, doc : Out]]
  /\ r.cause \in Causes
  /\ r.tried \in SUBSET Ids /\ r.asked \in SUBSET Ids /\ \A n \in r.tried : Fallback(n) # {}
\* A running node sees what its parents put out; a task is about what is
\* stored, and what it recorded.
Fed(r) == \A n \in Ids : r.state[n] = "running" => r.used[n] = Feed(r.out, n)
Tasks(r, log, store) ==
  \A n \in Ids :
    /\ r.task[n].phase # "none" => r.state[n] = "running"
    /\ r.task[n].phase \in {"stored", "created"} => r.task[n].doc \in store
    /\ r.task[n].phase = "created" => LastHash(log, n) = r.task[n].doc
\* A running node waits for a slot or has a task.
Queued(r) ==
  \A n \in Ids :
    /\ n \in r.ready => r.state[n] = "running" /\ r.task[n].phase = "none"
    /\ r.state[n] = "running" => n \in r.ready \/ r.task[n].phase # "none"
\* A node whose parents are settled is due, or a fallback node that was not
\* seeded; one that is due has no other parents.
Unseeded(r, n) == n \in FallbackOnly /\ \A p \in ParentsOf(n) : r.state[p] = "succeeded"
NotLost(r) ==
  \A n \in Ids : r.state[n] = "pending" /\ (\A p \in ParentsOf(n) : Settled(r.state, p)) =>
    n \in r.due \/ r.cause # "none" \/ Unseeded(r, n)
DueOK(r) == \A n \in r.due : \A p \in ParentsOf(n) : Settled(r.state, p)
Flow(r) == NotLost(r) /\ DueOK(r)

RunInv(r, log, store, dropped) ==
  /\ RunShape(r) /\ Cardinality(Busy(r)) <= Slots
  /\ Agree(r.state, r.out, log, dropped)
  /\ Chosen(r.state, r.out) /\ (r.cause = "none" => Skips(r.state, r.out))
  /\ Fed(r) /\ Tasks(r, log, store) /\ Queued(r) /\ Flow(r)

\* Settling a node releases the children it was the last to hold back
\* (scheduler.go:322).
LEMMA SettleKeepsFlow ==
  ASSUME NEW r, NEW new, r.state \in [Ids -> States], Flow(r), NEW n \in Ids,
         NEW x \in {"succeeded", "failed", "skipped"},
         new.state = [r.state EXCEPT ![n] = x],
         new.due = (r.due \ {n}) \cup Released(new.state, n),
         r.cause # "none" => new.cause # "none"
  PROVE  Flow(new)
<1>1. \A m \in Ids : new.state[m] = IF m = n THEN x ELSE r.state[m]
  OBVIOUS
<1>2. \A m : ParentsOf(m) \subseteq Ids
  BY EdgeEnds
<1>3. \A p \in Ids : Settled(new.state, p) <=> p = n \/ Settled(r.state, p)
  BY <1>1 DEF Settled
<1>4. NotLost(new)
  <2> SUFFICES ASSUME NEW m \in Ids, new.state[m] = "pending",
                      \A p \in ParentsOf(m) : Settled(new.state, p)
               PROVE  m \in new.due \/ new.cause # "none" \/ Unseeded(new, m)
    BY DEF NotLost
  <2>1. m # n /\ r.state[m] = "pending"
    BY <1>1
  <2>2. CASE n \in ParentsOf(m)
    BY <2>2 DEF Released
  <2>3. CASE n \notin ParentsOf(m)
    <3>1. \A p \in ParentsOf(m) : Settled(r.state, p)
      BY <1>2, <1>3, <2>3
    <3>2. m \in r.due \/ r.cause # "none" \/ Unseeded(r, m)
      BY <2>1, <3>1 DEF Flow, NotLost
    <3>3. Unseeded(r, m) => Unseeded(new, m)
      BY <1>1, <1>2, <2>3 DEF Unseeded
    <3> QED
      BY <2>1, <3>2, <3>3
  <2> QED
    BY <2>2, <2>3
<1>5. DueOK(new)
  <2> SUFFICES ASSUME NEW m \in new.due, NEW p \in ParentsOf(m) PROVE Settled(new.state, p)
    BY DEF DueOK
  <2>1. CASE m \in Released(new.state, n)
    BY <2>1 DEF Released
  <2>2. CASE m \in r.due
    BY <1>2, <1>3, <2>2 DEF Flow, DueOK
  <2> QED
    BY <2>1, <2>2
<1> QED
  BY <1>4, <1>5 DEF Flow

\* One task begins, goes on, or ends: the slots are enough.
LEMMA SlotsHold ==
  ASSUME NEW r, NEW new, IsFiniteSet(Ids), DOMAIN r.task = Ids, DOMAIN new.task = Ids,
         Cardinality(Busy(r)) <= Slots, NEW n \in Ids,
         \A m \in Ids \ {n} : new.task[m] = r.task[m],
         r.task[n].phase # "none" \/ new.task[n].phase = "none" \/ Cardinality(Busy(r)) < Slots
  PROVE  Cardinality(Busy(new)) <= Slots
<1>1. IsFiniteSet(Busy(r)) /\ IsFiniteSet(Busy(new))
  <2>1. Busy(r) \in SUBSET Ids /\ Busy(new) \in SUBSET Ids
    BY DEF Busy
  <2> QED
    BY <2>1, FS_Subset
<1>2. Cardinality(Busy(r)) \in Nat /\ Cardinality(Busy(new)) \in Nat /\ Slots \in Nat
  BY <1>1, FS_CardinalityType, SlotsAssumption
<1>3. CASE r.task[n].phase # "none" \/ new.task[n].phase = "none"
  <2>1. Busy(new) \in SUBSET Busy(r)
    BY <1>3 DEF Busy
  <2>2. Cardinality(Busy(new)) <= Cardinality(Busy(r))
    BY <1>1, <2>1, FS_Subset
  <2> QED
    BY <1>2, <2>2
<1>4. CASE Cardinality(Busy(r)) < Slots
  <2>1. Busy(new) \in SUBSET (Busy(r) \cup {n})
    BY DEF Busy
  <2>2. /\ IsFiniteSet(Busy(r) \cup {n})
        /\ Cardinality(Busy(r) \cup {n}) =
             IF n \in Busy(r) THEN Cardinality(Busy(r)) ELSE Cardinality(Busy(r)) + 1
    BY <1>1, FS_AddElement
  <2>3. Cardinality(Busy(new)) <= Cardinality(Busy(r) \cup {n})
    BY <2>1, <2>2, FS_Subset
  <2> QED
    BY <1>2, <1>4, <2>2, <2>3
<1> QED
  BY <1>3, <1>4

FilesShape ==
  /\ files = [snap |-> files.snap, inputs |-> files.inputs, events |-> files.events,
              store |-> files.store]
  /\ IsLog(files.events) /\ files.store \subseteq Docs \ TooLarge
HistoryShape ==
  /\ history = [dropped |-> history.dropped, crashed |-> history.crashed, torn |-> history.torn,
                lives |-> history.lives, backups |-> history.backups]
  /\ history.dropped \subseteq Ids
Base == wf \in Workflows /\ FilesShape /\ HistoryShape
Underway == RunInv(run, files.events, files.store, history.dropped)
Sane == LogOK(files.events, history.dropped)

LEMMA IdsFinite == ASSUME wf \in Workflows PROVE IsFiniteSet(Ids)
<1>1. IsFiniteSet(DOMAIN wf.nodes)
  BY SubmissionsAssumption DEF SubmissionOK
<1> DEFINE f == [i \in DOMAIN wf.nodes |-> wf.nodes[i].id]
<1>2. f \in Surjection(DOMAIN wf.nodes, Ids)
  BY DEF Surjection, Ids
<1> QED
  BY <1>1, <1>2, FS_Surjection

\* A decision (scheduler.go:331) moves a node that waits, and only that.
LEMMA DecideKeeps ==
  ASSUME Base, Underway, NEW n \in Ids, Decide(n), NEW r, r = run'
  PROVE  RunInv(r, files.events, files.store, history.dropped)
<1> DEFINE log == files.events
           edges == EdgesInto(n)
           said == { Verdict(e) : e \in ToSet(edges) }
           skipped == [run.state EXCEPT ![n] = "skipped"]
<1>0. RunShape(run) /\ IsFiniteSet(Ids)
  BY IdsFinite DEF Underway, RunInv, Base
<1>1. n \in run.due
  BY DEF Decide
<1>2. CASE run.state[n] # "pending"
  <2>1. r = [run EXCEPT !.due = @ \ {n}]
    BY <1>2 DEF Decide
  <2>2. /\ r.state = run.state /\ r.out = run.out /\ r.due = run.due \ {n} /\ r.ready = run.ready
        /\ r.used = run.used /\ r.task = run.task /\ r.cause = run.cause
        /\ r.tried = run.tried /\ r.asked = run.asked
        /\ r = [state |-> r.state, out |-> r.out, due |-> r.due, ready |-> r.ready,
                used |-> r.used, task |-> r.task,
                tried |-> r.tried, asked |-> r.asked, cause |-> r.cause]
    BY <1>0, <2>1 DEF RunShape
  <2>3. RunShape(r)
    BY <1>0, <2>2 DEF RunShape
  <2>4. Flow(r)
    BY <1>2, <2>2 DEF Underway, RunInv, Flow, NotLost, DueOK, Unseeded
  <2>5. Busy(r) = Busy(run)
    BY <2>2 DEF Busy
  <2>6. Fed(r) /\ Tasks(r, log, files.store) /\ Queued(r)
    BY <2>2 DEF Underway, RunInv, Fed, Tasks, Queued
  <2> QED
    BY <2>2, <2>3, <2>4, <2>5, <2>6 DEF Underway, RunInv
<1>3. CASE run.state[n] = "pending" /\ said \subseteq {"yes"}
  <2>1. r = [run EXCEPT !.due = @ \ {n}, !.ready = @ \cup {n}, !.state[n] = "running",
                        !.used[n] = [i \in DOMAIN edges |->
                           [from |-> edges[i].from, doc |-> run.out[edges[i].from]]]]
    BY <1>3 DEF Decide
  <2>2. /\ r.state = [run.state EXCEPT ![n] = "running"] /\ r.out = run.out
        /\ r.due = run.due \ {n} /\ r.ready = run.ready \cup {n}
        /\ r.used = [run.used EXCEPT ![n] = Feed(run.out, n)]
        /\ r.task = run.task /\ r.cause = run.cause
        /\ r.tried = run.tried /\ r.asked = run.asked
        /\ r = [state |-> r.state, out |-> r.out, due |-> r.due, ready |-> r.ready,
                used |-> r.used, task |-> r.task,
                tried |-> r.tried, asked |-> r.asked, cause |-> r.cause]
    BY <1>0, <2>1 DEF RunShape, Feed
  <2>3. \A m \in Ids : r.state[m] = IF m = n THEN "running" ELSE run.state[m]
    BY <1>0, <2>2 DEF RunShape
  <2>4. \A m \in Ids : r.used[m] = IF m = n THEN Feed(run.out, n) ELSE run.used[m]
    BY <1>0, <2>2 DEF RunShape
  <2>5. RunShape(r)
    BY <1>0, <2>2 DEF RunShape, States
  <2>0. /\ run.state \in [Ids -> States] /\ run.state[n] = "pending"
        /\ Agree(run.state, run.out, log, history.dropped) /\ Chosen(run.state, run.out)
        /\ run.cause = "none" => Skips(run.state, run.out)
    BY <1>0, <1>3 DEF Underway, RunInv, RunShape
  <2>6. Agree(r.state, r.out, log, history.dropped)
    <3>1. Agree([run.state EXCEPT ![n] = "running"], run.out, log, history.dropped)
      BY <2>0, MoveKeeps
    <3> QED
      BY <2>2, <3>1
  <2>7. ChosenBy(n, run.state, run.out)
    <3>1. \A e \in ToSet(edges) : Verdict(e) = "yes"
      BY <1>3
    <3> QED
      BY <3>1 DEF ChosenBy, Verdict, Holds
  <2>8. Chosen(r.state, r.out)
    <3>1. Chosen([run.state EXCEPT ![n] = "running"], run.out)
      BY <2>0, <2>7, ChosenStays DEF States
    <3> QED
      BY <2>2, <3>1
  <2>9. ASSUME r.cause = "none" PROVE Skips(r.state, r.out)
    <3>1. Skips(run.state, run.out)
      BY <2>0, <2>2, <2>9
    <3>2. Skips([run.state EXCEPT ![n] = "running"], run.out)
      BY <2>0, <3>1, SkipsStay DEF States
    <3> QED
      BY <2>2, <3>2
  <2>10. Fed(r)
    BY <2>2, <2>3, <2>4 DEF Underway, RunInv, Fed
  <2>11. Tasks(r, log, files.store) /\ Queued(r)
    BY <1>3, <2>2, <2>3 DEF Underway, RunInv, Tasks, Queued
  <2>12. \A m \in Ids : ParentsOf(m) \subseteq Ids
    BY EdgeEnds
  <2>13. \A p \in Ids : Settled(r.state, p) <=> Settled(run.state, p)
    BY <1>3, <2>3 DEF Settled
  <2>17. \A m \in Ids : Unseeded(run, m) => Unseeded(r, m)
    BY <1>3, <2>3, <2>12 DEF Unseeded
  <2>14. NotLost(r)
    BY <2>2, <2>3, <2>12, <2>13, <2>17 DEF Underway, RunInv, Flow, NotLost
  <2>15. DueOK(r)
    BY <1>0, <2>2, <2>12, <2>13 DEF Underway, RunInv, Flow, DueOK, RunShape
  <2>16. Busy(r) = Busy(run)
    BY <2>2 DEF Busy
  <2> QED
    BY <2>5, <2>6, <2>8, <2>9, <2>10, <2>11, <2>14, <2>15, <2>16 DEF Underway, RunInv, Flow
<1>4. CASE run.state[n] = "pending" /\ ~(said \subseteq {"yes"})
  <2>1. r = [run EXCEPT !.due = (@ \ {n}) \cup Released(skipped, n),
                        !.state = skipped,
                        !.cause = IF "error" \in said THEN Halt("edge") ELSE @]
    BY <1>4 DEF Decide
  <2>2. /\ r.state = skipped /\ r.out = run.out
        /\ r.due = (run.due \ {n}) \cup Released(skipped, n) /\ r.ready = run.ready
        /\ r.used = run.used /\ r.task = run.task
        /\ r.cause = IF "error" \in said THEN Halt("edge") ELSE run.cause
        /\ r.tried = run.tried /\ r.asked = run.asked
        /\ r = [state |-> r.state, out |-> r.out, due |-> r.due, ready |-> r.ready,
                used |-> r.used, task |-> r.task,
                tried |-> r.tried, asked |-> r.asked, cause |-> r.cause]
    BY <1>0, <2>1 DEF RunShape
  <2>3. \A m \in Ids : r.state[m] = IF m = n THEN "skipped" ELSE run.state[m]
    BY <1>0, <2>2 DEF RunShape
  <2>4. RunShape(r)
    <3>1. r.cause \in Causes
      BY <1>0, <2>2 DEF RunShape, Causes, Halt, Halted
    <3>2. Released(skipped, n) \subseteq Ids
      BY DEF Released
    <3>3. r.state \in [Ids -> States]
      BY <1>0, <2>2 DEF RunShape, States
    <3> HIDE DEF skipped, said
    <3>4. r.due \in SUBSET Ids
      BY <1>0, <2>2, <3>2 DEF RunShape
    <3> QED
      BY <1>0, <2>2, <3>1, <3>3, <3>4 DEF RunShape
  <2>0. /\ run.state \in [Ids -> States] /\ run.state[n] = "pending"
        /\ Agree(run.state, run.out, log, history.dropped) /\ Chosen(run.state, run.out)
        /\ run.cause = "none" => Skips(run.state, run.out)
    BY <1>0, <1>4 DEF Underway, RunInv, RunShape
  <2>5. Agree(r.state, r.out, log, history.dropped)
    <3>1. Agree([run.state EXCEPT ![n] = "skipped"], run.out, log, history.dropped)
      BY <2>0, MoveKeeps
    <3> QED
      BY <2>2, <3>1
  <2>6. Chosen(r.state, r.out)
    <3>1. Chosen([run.state EXCEPT ![n] = "skipped"], run.out)
      BY <2>0, ChosenStays DEF States
    <3> QED
      BY <2>2, <3>1
  <2>7. ASSUME r.cause = "none" PROVE Skips(r.state, r.out)
    <3>1. run.cause = "none" /\ "error" \notin said
      BY <2>2, <2>7 DEF Halt, Halted
    <3>2. SkippedBy(n, run.state, run.out)
      <4>1. PICK e \in ToSet(edges) : Verdict(e) # "yes"
        BY <1>4
      <4>2. Verdict(e) # "error" /\ e.from \in ParentsOf(n)
        BY <3>1, EdgeEnds
      <4>3. Settled(run.state, e.from)
        BY <1>1, <4>2 DEF Underway, RunInv, Flow, DueOK
      <4> QED
        BY <4>1, <4>2, <4>3 DEF SkippedBy, Verdict, Settled
    <3>3. Skips([run.state EXCEPT ![n] = "skipped"], run.out)
      BY <2>0, <3>1, <3>2, SkipsStay DEF States
    <3> QED
      BY <2>2, <3>3
  <2>8. Fed(r)
    BY <2>2, <2>3 DEF Underway, RunInv, Fed
  <2>9. Tasks(r, log, files.store) /\ Queued(r)
    BY <1>4, <2>2, <2>3 DEF Underway, RunInv, Tasks, Queued
  <2>10. Flow(r)
    <3>1. run.cause # "none" => r.cause # "none"
      BY <2>2 DEF Halt, Halted
    <3>2. Flow(run) /\ r.due = (run.due \ {n}) \cup Released(r.state, n)
      BY <2>2 DEF Underway, RunInv
    <3> QED
      BY ZenonT(30), <2>0, <2>2, <3>1, <3>2, SettleKeepsFlow
  <2>11. Busy(r) = Busy(run)
    BY <2>2 DEF Busy
  <2> QED
    BY <2>4, <2>5, <2>6, <2>7, <2>8, <2>9, <2>10, <2>11 DEF Underway, RunInv
<1> QED
  BY <1>2, <1>3, <1>4

\* An append to the log (node.go) changes nothing else on disk.
LEMMA WrittenIs ==
  ASSUME FilesShape, NEW e, files' = Written(<<e>>)
  PROVE  /\ files'.events = files.events \o <<e>> /\ files'.store = files.store
         /\ files'.snap = files.snap /\ files'.inputs = files.inputs
         /\ files' = [snap |-> files'.snap, inputs |-> files'.inputs, events |-> files'.events,
                      store |-> files'.store]
         /\ IsLog(files'.events)
<1>1. IsLog(files.events \o <<e>>)
  BY Appended DEF FilesShape
<1> QED
  BY <1>1 DEF FilesShape, Written

LEMMA NoteIs ==
  ASSUME NEW t, NEW n
  PROVE  Note(t, n).type = t /\ Note(t, n).node = n /\ Note(t, n).hash = NoDoc
BY DEF Note, Event

LEMMA CheckpointIs ==
  ASSUME NEW t, NEW n, NEW asks
  PROVE  /\ Checkpoint(t, n, asks).type = t /\ Checkpoint(t, n, asks).node = n
         /\ Checkpoint(t, n, asks).hash = NoDoc /\ Checkpoint(t, n, asks).seen = <<asks>>
BY DEF Checkpoint, Event

\* The node that runs is the node itself or its fallback.
LEMMA DoerIs ==
  ASSUME RunShape(run), NEW n \in Ids
  PROVE  Doer(n) \in {n} \cup Fallback(n)
<1>1. ASSUME n \in run.tried PROVE Doer(n) \in Fallback(n)
  <2>1. Fallback(n) # {}
    BY <1>1 DEF RunShape
  <2> QED
    BY <1>1, <2>1 DEF Fallback, Doer
<1> QED
  BY <1>1 DEF Doer

\* A node that is dispatched (scheduler.go:455) has a slot of its own.
LEMMA DispatchKeeps ==
  ASSUME Base, Underway, Sane, NEW n \in Ids, Dispatch(n),
         NEW r, r = run', NEW log, log = files.events'
  PROVE  RunInv(r, log, files.store, history.dropped) /\ LogOK(log, history.dropped)
<1>0. RunShape(run) /\ IsFiniteSet(Ids)
  BY IdsFinite DEF Underway, RunInv, Base
<1>1. n \in run.ready /\ Room
  BY DEF Dispatch
<1>2. Alike(files.events, log)
  <2>1. log = files.events \o <<Note("WorkerStarted", n)>>
    BY WrittenIs DEF Dispatch, Base
  <2> QED
    BY <2>1, NoteIs, OtherEvent DEF Base, FilesShape
<1>3. LogOK(log, history.dropped) /\ Agree(run.state, run.out, log, history.dropped)
  BY <1>2, AlikeKeeps DEF Sane, Underway, RunInv
<1>4. r = [run EXCEPT !.ready = @ \ {n}, !.task[n] = [phase |-> "called", doc |-> NoDoc]]
  BY DEF Dispatch
<1>5. /\ r.state = run.state /\ r.out = run.out /\ r.due = run.due
      /\ r.ready = run.ready \ {n} /\ r.used = run.used
      /\ r.task = [run.task EXCEPT ![n] = [phase |-> "called", doc |-> NoDoc]]
      /\ r.cause = run.cause
      /\ r.tried = run.tried /\ r.asked = run.asked
      /\ r = [state |-> r.state, out |-> r.out, due |-> r.due, ready |-> r.ready,
              used |-> r.used, task |-> r.task,
              tried |-> r.tried, asked |-> r.asked, cause |-> r.cause]
  BY <1>0, <1>4 DEF RunShape
<1>6. \A m \in Ids : r.task[m] = IF m = n THEN [phase |-> "called", doc |-> NoDoc] ELSE run.task[m]
  BY <1>0, <1>5 DEF RunShape
<1>7. RunShape(r)
  BY <1>0, <1>5 DEF RunShape, Phases, Out
<1>8. Cardinality(Busy(r)) <= Slots
  <2>1. Cardinality(Busy(run)) < Slots /\ Cardinality(Busy(run)) <= Slots
    BY <1>1 DEF Room, InFlight, Busy, Underway, RunInv
  <2>2. DOMAIN run.task = Ids /\ DOMAIN r.task = Ids
    BY <1>0, <1>7 DEF RunShape
  <2> QED
    BY <1>0, <1>6, <2>1, <2>2, SlotsHold
<1>9. Fed(r) /\ Flow(r)
  BY <1>5 DEF Underway, RunInv, Fed, Flow, NotLost, DueOK, Unseeded
<1>10. Tasks(r, log, files.store)
  <2>1. \A m \in Ids : LastHash(log, m) = LastHash(files.events, m)
    BY <1>2 DEF Alike
  <2>2. run.state[n] = "running"
    BY <1>1 DEF Underway, RunInv, Queued
  <2> QED
    BY <1>5, <1>6, <2>1, <2>2 DEF Underway, RunInv, Tasks
<1>11. Queued(r)
  BY <1>5, <1>6 DEF Underway, RunInv, Queued
<1> QED
  BY <1>3, <1>5, <1>7, <1>8, <1>9, <1>10, <1>11 DEF Underway, RunInv

\* An executor's answer is stored under its own content (node.go:199) before
\* the record says so.
LEMMA PutKeeps ==
  ASSUME Base, Underway, Sane, NEW n \in Ids, NEW d \in Docs, PutArtifact(n, d),
         NEW r, r = run', NEW store, store = files.store'
  PROVE  RunInv(r, files.events, store, history.dropped) /\ store \subseteq Docs \ TooLarge
<1>0. RunShape(run) /\ IsFiniteSet(Ids)
  BY IdsFinite DEF Underway, RunInv, Base
<1>1. run.task[n].phase = "called" /\ store = files.store \cup {d} /\ d \notin TooLarge
  BY DEF PutArtifact, Base, FilesShape
<1>2. store \subseteq Docs \ TooLarge
  BY <1>1 DEF Base, FilesShape
<1>4. r = [run EXCEPT !.task[n] = [phase |-> "stored", doc |-> d]]
  BY DEF PutArtifact
<1>5. /\ r.state = run.state /\ r.out = run.out /\ r.due = run.due
      /\ r.ready = run.ready /\ r.used = run.used
      /\ r.task = [run.task EXCEPT ![n] = [phase |-> "stored", doc |-> d]]
      /\ r.cause = run.cause
      /\ r.tried = run.tried /\ r.asked = run.asked
      /\ r = [state |-> r.state, out |-> r.out, due |-> r.due, ready |-> r.ready,
              used |-> r.used, task |-> r.task,
              tried |-> r.tried, asked |-> r.asked, cause |-> r.cause]
  BY <1>0, <1>4 DEF RunShape
<1>6. \A m \in Ids : r.task[m] = IF m = n THEN [phase |-> "stored", doc |-> d] ELSE run.task[m]
  BY <1>0, <1>5 DEF RunShape
<1>7. RunShape(r)
  BY <1>0, <1>5 DEF RunShape, Phases, Out
<1>8. Cardinality(Busy(r)) <= Slots
  <2>1. run.task[n].phase # "none" /\ Cardinality(Busy(run)) <= Slots
    BY <1>1 DEF Underway, RunInv
  <2>2. DOMAIN run.task = Ids /\ DOMAIN r.task = Ids
    BY <1>0, <1>7 DEF RunShape
  <2> QED
    BY <1>0, <1>6, <2>1, <2>2, SlotsHold
<1>9. Fed(r) /\ Flow(r)
  BY <1>5 DEF Underway, RunInv, Fed, Flow, NotLost, DueOK, Unseeded
<1>10. Tasks(r, files.events, store) /\ Queued(r)
  BY <1>1, <1>5, <1>6 DEF Underway, RunInv, Tasks, Queued
<1> QED
  BY <1>2, <1>5, <1>7, <1>8, <1>9, <1>10 DEF Underway, RunInv

\* The event names what is stored (node.go:208).
LEMMA CreateKeeps ==
  ASSUME Base, Underway, Sane, NEW n \in Ids, CreateArtifact(n),
         NEW r, r = run', NEW log, log = files.events'
  PROVE  RunInv(r, log, files.store, history.dropped) /\ LogOK(log, history.dropped)
<1>0. RunShape(run) /\ IsFiniteSet(Ids)
  BY IdsFinite DEF Underway, RunInv, Base
<1> DEFINE d == run.task[n].doc
           e == Event("ArtifactCreated", n, d, <<>>)
<1>1. /\ run.task[n].phase = "stored" /\ run.state[n] = "running"
      /\ d \in files.store /\ d \in Docs
  BY DEF CreateArtifact, Underway, RunInv, Tasks, Base, FilesShape
<1>2. log = files.events \o <<e>>
  BY WrittenIs DEF CreateArtifact, Base
<1>3. e.type = "ArtifactCreated" /\ e.node = n /\ e.hash = d
  BY DEF Event
<1>4. LogOK(log, history.dropped) /\ Agree(run.state, run.out, log, history.dropped)
  <2> HIDE DEF e
  <2> QED
    BY <1>1, <1>2, <1>3, CreatedKeeps DEF Sane, Underway, RunInv, Base, FilesShape
<1>5. /\ r.state = run.state /\ r.out = run.out /\ r.due = run.due
      /\ r.ready = run.ready /\ r.used = run.used
      /\ r.task = [run.task EXCEPT ![n].phase = "created"]
      /\ r.cause = run.cause
      /\ r.tried = run.tried /\ r.asked = run.asked
      /\ r = [state |-> r.state, out |-> r.out, due |-> r.due, ready |-> r.ready,
              used |-> r.used, task |-> r.task,
              tried |-> r.tried, asked |-> r.asked, cause |-> r.cause]
  BY <1>0 DEF RunShape, CreateArtifact
<1>6. /\ \A m \in Ids \ {n} : r.task[m] = run.task[m]
      /\ r.task[n].phase = "created" /\ r.task[n].doc = d
      /\ r.task \in [Ids -> [phase : Phases, doc : Out]]
  BY <1>0, <1>5 DEF RunShape, Phases
<1>7. RunShape(r)
  BY <1>0, <1>5, <1>6 DEF RunShape
<1>8. Cardinality(Busy(r)) <= Slots
  <2>1. run.task[n].phase # "none" /\ Cardinality(Busy(run)) <= Slots
    BY <1>1 DEF Underway, RunInv
  <2>2. DOMAIN run.task = Ids /\ DOMAIN r.task = Ids
    BY <1>0, <1>7 DEF RunShape
  <2> QED
    BY <1>0, <1>6, <2>1, <2>2, SlotsHold
<1>9. Fed(r) /\ Flow(r)
  BY <1>5 DEF Underway, RunInv, Fed, Flow, NotLost, DueOK, Unseeded
<1>10. Tasks(r, log, files.store)
  <2>1. \A m \in Ids : LastHash(log, m) = IF m = n THEN d ELSE LastHash(files.events, m)
    <3> HIDE DEF e
    <3> QED
      BY <1>2, <1>3, Recorded DEF Base, FilesShape
  <2> QED
    BY <1>1, <1>5, <1>6, <2>1 DEF Underway, RunInv, Tasks
<1>11. Queued(r)
  BY <1>1, <1>5, <1>6 DEF Underway, RunInv, Queued
<1> QED
  BY <1>4, <1>5, <1>7, <1>8, <1>9, <1>10, <1>11 DEF Underway, RunInv

\* A task that ends frees its slot and leaves the node to the coordinator.
TaskEnds(r, n) ==
  /\ r.ready = run.ready /\ r.used = run.used
  /\ r.task = [run.task EXCEPT ![n] = IdleTask]
  /\ r.tried = run.tried /\ r.asked = run.asked
  /\ r = [state |-> r.state, out |-> r.out, due |-> r.due, ready |-> r.ready,
          used |-> r.used, task |-> r.task,
          tried |-> r.tried, asked |-> r.asked, cause |-> r.cause]

LEMMA TaskEndKeeps ==
  ASSUME Base, Underway, NEW n \in Ids, run.state[n] = "running", run.task[n].phase # "none",
         NEW r, TaskEnds(r, n), NEW x \in States, x # "running",
         r.state = [run.state EXCEPT ![n] = x], r.out \in [Ids -> Out],
         \A m \in Ids \ {n} : r.out[m] = run.out[m],
         r.due \in SUBSET Ids, r.cause \in Causes,
         NEW log, \A m \in Ids : LastHash(log, m) = LastHash(files.events, m)
  PROVE  /\ RunShape(r) /\ Cardinality(Busy(r)) <= Slots
         /\ Fed(r) /\ Tasks(r, log, files.store) /\ Queued(r)
<1>0. RunShape(run) /\ IsFiniteSet(Ids)
  BY IdsFinite DEF Underway, RunInv, Base
<1>1. /\ \A m \in Ids : r.task[m] = IF m = n THEN IdleTask ELSE run.task[m]
      /\ \A m \in Ids : r.state[m] = IF m = n THEN x ELSE run.state[m]
  BY <1>0 DEF RunShape, TaskEnds
<1>2. IdleTask \in [phase : Phases, doc : Out] /\ IdleTask.phase = "none"
  BY DEF IdleTask, Phases, Out
<1>3. RunShape(r)
  BY <1>0, <1>2 DEF RunShape, TaskEnds
<1>4. Cardinality(Busy(r)) <= Slots
  <2>1. run.task[n].phase # "none" /\ Cardinality(Busy(run)) <= Slots
    BY DEF Underway, RunInv
  <2>2. DOMAIN run.task = Ids /\ DOMAIN r.task = Ids
    BY <1>0, <1>3 DEF RunShape
  <2> QED
    BY <1>0, <1>1, <2>1, <2>2, SlotsHold
<1>5. Fed(r)
  <2> SUFFICES ASSUME NEW m \in Ids, r.state[m] = "running" PROVE r.used[m] = Feed(r.out, m)
    BY DEF Fed
  <2>1. m # n /\ run.state[m] = "running"
    BY <1>1
  <2>2. r.used[m] = Feed(run.out, m)
    BY <2>1 DEF Underway, RunInv, Fed, TaskEnds
  <2>3. ChosenBy(m, run.state, run.out)
    BY <2>1 DEF Underway, RunInv, Chosen
  <2>4. \A e \in ToSet(EdgesInto(m)) : r.out[e.from] = run.out[e.from]
    BY <2>3, EdgeEnds DEF ChosenBy
  <2> QED
    BY <2>2, <2>4, FeedOf
<1>6. Tasks(r, log, files.store)
  BY <1>1, <1>2 DEF Underway, RunInv, Tasks
<1>7. Queued(r)
  BY <1>1, <1>2 DEF Underway, RunInv, Queued, TaskEnds
<1> QED
  BY <1>3, <1>4, <1>5, <1>6, <1>7

\* A failure (scheduler.go:422), whatever its cause, is recorded.
LEMMA FailKeeps ==
  ASSUME Base, Underway, Sane, NEW n \in Ids, NEW collateral \in BOOLEAN, Fail(n, collateral),
         NEW r, r = run', NEW log, log = files.events'
  PROVE  RunInv(r, log, files.store, history.dropped) /\ LogOK(log, history.dropped)
<1>0. RunShape(run)
  BY DEF Underway, RunInv
<1> DEFINE failed == [run.state EXCEPT ![n] = "failed"]
<1>1. /\ run.task[n].phase = "called" /\ run.task[n].phase # "none" /\ run.state[n] = "running"
      /\ run.due = {}
  BY DEF Fail, Dies, Underway, RunInv, Tasks
<1>2. log = files.events \o <<Note("Failure", n)>>
  BY WrittenIs DEF Fail, Dies, Obituary, Base
<1>3. LogOK(log, history.dropped) /\ Agree(failed, run.out, log, history.dropped)
  <2>1. /\ IsLog(files.events) /\ LogOK(files.events, history.dropped)
        /\ run.state \in [Ids -> States] /\ Agree(run.state, run.out, files.events, history.dropped)
    BY <1>0 DEF Sane, Underway, RunInv, RunShape, Base, FilesShape
  <2> QED
    BY <1>1, <1>2, <2>1, NoteIs, FailureKeeps
<1>4. \A m \in Ids : LastHash(log, m) = LastHash(files.events, m)
  BY <1>2, NoteIs, Recorded DEF Base, FilesShape
<1>5. /\ r.state = failed /\ r.out = run.out /\ r.due = Released(failed, n)
      /\ TaskEnds(r, n)
      /\ r.cause \in {Halt("node"), run.cause}
  BY <1>0 DEF RunShape, Fail, TaskEnds
<1>6. /\ r.cause \in Causes /\ (run.cause # "none" => r.cause # "none")
      /\ (r.cause = "none" => run.cause = "none")
  BY <1>0, <1>5 DEF RunShape, Causes, Halt, Halted
<1>7. r.due \in SUBSET Ids
  BY <1>5 DEF Released
<1>8. /\ RunShape(r) /\ Cardinality(Busy(r)) <= Slots
      /\ Fed(r) /\ Tasks(r, log, files.store) /\ Queued(r)
  <2>1. "failed" \in States /\ r.state = failed /\ r.out \in [Ids -> Out] /\ r.out = run.out
    BY <1>0, <1>5 DEF RunShape, States
  <2> QED
    BY <1>1, <1>4, <1>5, <1>6, <1>7, <2>1, TaskEndKeeps
<1>9. Chosen(r.state, r.out)
  <2>1. run.state \in [Ids -> States] /\ Chosen(run.state, run.out) /\ ChosenBy(n, run.state, run.out)
    BY <1>0, <1>1 DEF Underway, RunInv, Chosen, RunShape
  <2>2. Chosen(failed, run.out)
    BY <1>1, <2>1, ChosenStays DEF States
  <2> QED
    BY <1>5, <2>2
<1>10. ASSUME r.cause = "none" PROVE Skips(r.state, r.out)
  <2>1. run.state \in [Ids -> States] /\ Skips(run.state, run.out)
    BY <1>0, <1>6, <1>10 DEF Underway, RunInv, RunShape
  <2>2. Skips(failed, run.out)
    BY <1>1, <2>1, SkipsStay DEF States
  <2> QED
    BY <1>5, <2>2
<1>11. Flow(r)
  <2>1. /\ run.state \in [Ids -> States] /\ Flow(run)
        /\ r.due = (run.due \ {n}) \cup Released(r.state, n)
    BY <1>0, <1>1, <1>5 DEF Underway, RunInv, RunShape
  <2> QED
    BY <1>5, <1>6, <2>1, SettleKeepsFlow
<1> QED
  BY <1>3, <1>5, <1>8, <1>9, <1>10, <1>11 DEF RunInv

\* Its fallback takes the place of a node that failed (scheduler.go:422): the
\* node is dispatched again.
LEMMA SubstituteKeeps ==
  ASSUME Base, Underway, Sane, NEW n \in Ids, Substitute(n),
         NEW r, r = run', NEW log, log = files.events'
  PROVE  RunInv(r, log, files.store, history.dropped) /\ LogOK(log, history.dropped)
<1>0. RunShape(run) /\ IsFiniteSet(Ids)
  BY IdsFinite DEF Underway, RunInv, Base
<1>1. /\ run.task[n].phase # "none" /\ run.state[n] = "running" /\ Fallback(n) # {}
  BY DEF Substitute, Dies, Underway, RunInv, Tasks
<1>2. log = files.events \o <<Note("Failure", n)>>
  BY WrittenIs DEF Substitute, Dies, Obituary, Base
<1>3. LogOK(log, history.dropped) /\ Agree(run.state, run.out, log, history.dropped)
  <2>1. /\ IsLog(files.events) /\ LogOK(files.events, history.dropped)
        /\ run.state \in [Ids -> States] /\ Agree(run.state, run.out, files.events, history.dropped)
    BY <1>0 DEF Sane, Underway, RunInv, RunShape, Base, FilesShape
  <2>2. PICK e : e = Note("Failure", n)
    OBVIOUS
  <2>3. log = files.events \o <<e>> /\ e.type = "Failure" /\ e.node = n
    BY <1>2, <2>2, NoteIs
  <2>4. PICK st, out : st = run.state /\ out = run.out
    OBVIOUS
  <2>5. /\ LogOK(files.events \o <<e>>, history.dropped)
        /\ Agree(st, out, files.events \o <<e>>, history.dropped)
    BY <1>1, <2>1, <2>3, <2>4, FailureKeeps
  <2> QED
    BY <2>3, <2>4, <2>5
<1>4. \A m \in Ids : LastHash(log, m) = LastHash(files.events, m)
  BY <1>2, NoteIs, Recorded DEF Base, FilesShape
<1>5. /\ r.state = run.state /\ r.out = run.out /\ r.due = run.due
      /\ r.ready = run.ready \cup {n} /\ r.used = run.used
      /\ r.task = [run.task EXCEPT ![n] = IdleTask] /\ r.cause = run.cause
      /\ r.tried = run.tried \cup {n} /\ r.asked = run.asked
      /\ r = [state |-> r.state, out |-> r.out, due |-> r.due, ready |-> r.ready,
              used |-> r.used, task |-> r.task, tried |-> r.tried, asked |-> r.asked,
              cause |-> r.cause]
  BY <1>0 DEF RunShape, Substitute
<1>6. \A m \in Ids : r.task[m] = IF m = n THEN IdleTask ELSE run.task[m]
  BY <1>0, <1>5 DEF RunShape
<1>7. IdleTask \in [phase : Phases, doc : Out] /\ IdleTask.phase = "none"
  BY DEF IdleTask, Phases, Out
<1>8. RunShape(r)
  BY <1>0, <1>1, <1>5, <1>7 DEF RunShape
<1>9. Cardinality(Busy(r)) <= Slots
  <2>1. Cardinality(Busy(run)) <= Slots
    BY DEF Underway, RunInv
  <2>2. DOMAIN run.task = Ids /\ DOMAIN r.task = Ids
    BY <1>0, <1>8 DEF RunShape
  <2> QED
    BY <1>0, <1>1, <1>6, <2>1, <2>2, SlotsHold
<1>10. Fed(r) /\ Flow(r)
  BY <1>5 DEF Underway, RunInv, Fed, Flow, NotLost, DueOK, Unseeded
<1>11. Tasks(r, log, files.store)
  BY <1>4, <1>5, <1>6, <1>7 DEF Underway, RunInv, Tasks
<1>12. Queued(r)
  BY <1>1, <1>5, <1>6, <1>7 DEF Underway, RunInv, Queued
<1> QED
  BY <1>3, <1>5, <1>8, <1>9, <1>10, <1>11, <1>12 DEF Underway, RunInv

\* A node that must be approved first waits, and the run halts
\* (scheduler.go:393).
LEMMA ParkKeeps ==
  ASSUME Base, Underway, Sane, NEW n \in Ids, Park(n),
         NEW r, r = run', NEW log, log = files.events'
  PROVE  RunInv(r, log, files.store, history.dropped) /\ LogOK(log, history.dropped)
<1>0. RunShape(run)
  BY DEF Underway, RunInv
<1> DEFINE parked == [run.state EXCEPT ![n] = "pending"]
<1>1. run.task[n].phase # "none" /\ run.state[n] = "running" /\ run.due = {}
  BY DEF Park, Underway, RunInv, Tasks
<1>2. Alike(files.events, log)
  <2>1. CASE files' = files
    BY <2>1 DEF Alike
  <2>2. ASSUME NEW asks, files' = Written(<<Checkpoint("ApprovalRequested", n, asks)>>)
        PROVE  Alike(files.events, log)
    <3>1. log = files.events \o <<Checkpoint("ApprovalRequested", n, asks)>>
      BY <2>2, WrittenIs DEF Base
    <3> QED
      BY <3>1, CheckpointIs, OtherEvent DEF Base, FilesShape
  <2> QED
    BY <2>1, <2>2 DEF Park
<1>3. LogOK(log, history.dropped) /\ Agree(run.state, run.out, log, history.dropped)
  BY <1>2, AlikeKeeps DEF Sane, Underway, RunInv
<1>4. \A m \in Ids : LastHash(log, m) = LastHash(files.events, m)
  BY <1>2 DEF Alike
<1>5. /\ r.state = parked /\ r.out = run.out /\ r.due = run.due
      /\ TaskEnds(r, n) /\ r.cause = Halt("approval")
  BY <1>0 DEF RunShape, Park, TaskEnds
<1>6. r.cause \in Causes /\ r.cause # "none"
  BY <1>0, <1>5 DEF RunShape, Causes, Halt, Halted
<1>8. /\ RunShape(r) /\ Cardinality(Busy(r)) <= Slots
      /\ Fed(r) /\ Tasks(r, log, files.store) /\ Queued(r)
  <2>1. "pending" \in States /\ r.state = parked /\ r.out \in [Ids -> Out] /\ r.out = run.out
    BY <1>0, <1>5 DEF RunShape, States
  <2>2. r.due \in SUBSET Ids
    BY <1>0, <1>5 DEF RunShape
  <2> QED
    BY <1>1, <1>4, <1>5, <1>6, <2>1, <2>2, TaskEndKeeps
<1>9. run.state \in [Ids -> States] /\ Chosen(run.state, run.out)
  BY <1>0 DEF Underway, RunInv, RunShape
<1>10. Agree(r.state, r.out, log, history.dropped)
  <2>1. Agree(parked, run.out, log, history.dropped)
    BY <1>1, <1>3, <1>9, MoveKeeps
  <2> QED
    BY <1>5, <2>1
<1>11. Chosen(r.state, r.out)
  <2>1. Chosen(parked, run.out)
    BY <1>1, <1>9, ChosenStays DEF States
  <2> QED
    BY <1>5, <2>1
<1>12. Flow(r)
  BY <1>1, <1>5, <1>6 DEF Flow, NotLost, DueOK
<1> QED
  BY <1>3, <1>6, <1>8, <1>10, <1>11, <1>12 DEF RunInv

\* A node that finishes has recorded what it made and what it was given
\* (node.go:217, scheduler.go:437).
LEMMA CompleteKeeps ==
  ASSUME Base, Underway, Sane, NEW n \in Ids, Complete(n),
         NEW r, r = run', NEW log, log = files.events', NEW left, left = history.dropped \ {n}
  PROVE  RunInv(r, log, files.store, left) /\ LogOK(log, left)
<1>0. RunShape(run)
  BY DEF Underway, RunInv
<1> DEFINE done == [run.state EXCEPT ![n] = "succeeded"]
           d == run.task[n].doc
           out == [run.out EXCEPT ![n] = LastHash(files.events, n)]
           e == Event("WorkerFinished", n, NoDoc, HashesOf(Admitted(Doer(n), run.used[n])))
<1>1. /\ run.task[n].phase = "created" /\ run.task[n].phase # "none" /\ run.state[n] = "running"
      /\ run.due = {} /\ LastHash(files.events, n) = d /\ d \in Docs
      /\ run.used[n] = Feed(run.out, n)
  BY DEF Complete, Finish, Underway, RunInv, Tasks, Fed, Base, FilesShape
<1>2. log = files.events \o <<e>>
  BY WrittenIs DEF Complete, Finish, Base
<1>3. /\ e.type = "WorkerFinished" /\ e.node = n
      /\ e.seen = HashesOf(Admitted(Doer(n), Feed(run.out, n)))
  BY <1>1 DEF Event
<1>4. /\ IsLog(files.events) /\ LogOK(files.events, history.dropped)
      /\ run.state \in [Ids -> States] /\ run.out \in [Ids -> Out]
      /\ Agree(run.state, run.out, files.events, history.dropped)
      /\ Chosen(run.state, run.out) /\ ChosenBy(n, run.state, run.out)
  BY <1>0, <1>1 DEF Sane, Underway, RunInv, RunShape, Base, FilesShape, Chosen
<1>5. LogOK(log, left) /\ Agree(done, out, log, left)
  <2>1. LastHash(files.events, n) \in Docs
    BY <1>1
  <2>2. PICK doer \in {n} \cup Fallback(n) : doer = Doer(n)
    BY <1>0, DoerIs
  <2>3. PICK x : /\ log = files.events \o <<x>> /\ x.type = "WorkerFinished" /\ x.node = n
                 /\ x.seen = HashesOf(Admitted(doer, Feed(run.out, n)))
    BY <1>2, <1>3, <2>2
  <2>4. PICK st, old : st = run.state /\ old = run.out
    OBVIOUS
  <2> HIDE DEF e
  <2>5. /\ LogOK(files.events \o <<x>>, history.dropped \ {n})
        /\ Agree([st EXCEPT ![n] = "succeeded"], [old EXCEPT ![n] = LastHash(files.events, n)],
                 files.events \o <<x>>, history.dropped \ {n})
    BY ZenonT(30), <1>1, <1>4, <2>1, <2>2, <2>3, <2>4, FinishKeeps
  <2> QED
    BY <2>3, <2>4, <2>5
<1>6. \A m \in Ids : LastHash(log, m) = LastHash(files.events, m)
  <2> HIDE DEF e
  <2> QED
    BY <1>2, <1>3, <1>4, Recorded
<1>7. /\ r.state = done /\ r.out = [run.out EXCEPT ![n] = d] /\ r.due = Released(done, n)
      /\ TaskEnds(r, n) /\ r.cause = run.cause
  BY <1>0 DEF RunShape, Complete, Finish, TaskEnds
<1>8. r.out = out /\ r.out \in [Ids -> Out] /\ \A m \in Ids \ {n} : r.out[m] = run.out[m]
  BY <1>1, <1>4, <1>7 DEF Out
<1>9. r.due \in SUBSET Ids /\ r.cause \in Causes
  BY <1>0, <1>7 DEF Released, RunShape
<1>10. /\ RunShape(r) /\ Cardinality(Busy(r)) <= Slots
       /\ Fed(r) /\ Tasks(r, log, files.store) /\ Queued(r)
  <2>1. "succeeded" \in States /\ r.state = done
    BY <1>7 DEF States
  <2> HIDE DEF d, out, e
  <2> QED
    BY ZenonT(30), <1>1, <1>6, <1>7, <1>8, <1>9, <2>1, TaskEndKeeps
<1>11. Chosen(r.state, r.out)
  <2>0. /\ "succeeded" \in States /\ "succeeded" \notin {"running", "failed"}
        /\ run.state[n] # "succeeded"
    BY <1>1 DEF States
  <2> HIDE DEF d, out, e
  <2>1. Chosen(done, r.out)
    BY <1>4, <1>8, <2>0, ChosenStays
  <2> QED
    BY <1>7, <2>1
<1>12. ASSUME r.cause = "none" PROVE Skips(r.state, r.out)
  <2>1. Skips(run.state, run.out)
    BY <1>7, <1>12 DEF Underway, RunInv
  <2>0. /\ "succeeded" \in States /\ "succeeded" # "skipped"
        /\ run.state[n] \in {"pending", "running"}
    BY <1>1 DEF States
  <2> HIDE DEF d, out, e
  <2>2. Skips(done, r.out)
    BY <1>4, <1>8, <2>0, <2>1, SkipsStay
  <2> QED
    BY <1>7, <2>2
<1>13. Flow(r)
  <2>1. Flow(run) /\ r.due = (run.due \ {n}) \cup Released(r.state, n)
    BY <1>1, <1>7 DEF Underway, RunInv
  <2> QED
    BY ZenonT(30), <1>4, <1>7, <2>1, SettleKeepsFlow
<1> QED
  BY <1>5, <1>7, <1>8, <1>10, <1>11, <1>12, <1>13 DEF RunInv

\* A run begins with what the record says is done, whole: a node is reused
\* with its parents (resume.go:40).
LEMMA BeginsWell ==
  ASSUME NEW log, NEW store, NEW dropped, LogOK(log, dropped), NEW reused \in SUBSET Ids,
         \A n \in reused : Finished(log, n),
         \A n \in Ids \ dropped : Finished(log, n) => n \in reused /\ ParentsOf(n) \subseteq reused,
         NEW asked \in SUBSET Ids, NEW r,
         r = [state |-> [n \in Ids |-> IF n \in reused THEN "succeeded" ELSE "pending"],
              out |-> [n \in Ids |-> IF n \in reused THEN LastHash(log, n) ELSE NoDoc],
              due |-> { n \in Ids \ (reused \cup FallbackOnly) : ParentsOf(n) \subseteq reused },
              ready |-> {}, used |-> [n \in Ids |-> <<>>], task |-> [n \in Ids |-> IdleTask],
              tried |-> {}, asked |-> asked, cause |-> "none"]
  PROVE  RunInv(r, log, store, dropped)
<1>1. /\ \A n \in Ids : r.state[n] = IF n \in reused THEN "succeeded" ELSE "pending"
      /\ \A n \in Ids : r.out[n] = IF n \in reused THEN LastHash(log, n) ELSE NoDoc
      /\ \A n \in Ids : r.task[n].phase = "none"
      /\ r.due = { n \in Ids \ (reused \cup FallbackOnly) : ParentsOf(n) \subseteq reused }
      /\ r.ready = {} /\ DOMAIN r.task = Ids
  BY DEF IdleTask
<1>2. \A n : ParentsOf(n) \subseteq Ids
  BY EdgeEnds
<1>3. \A n \in reused : LastHash(log, n) \in Docs
  BY DEF LogOK
<1>4. RunShape(r)
  <2>1. IdleTask \in [phase : Phases, doc : Out]
    BY DEF IdleTask, Phases, Out
  <2>2. [n \in Ids |-> IF n \in reused THEN LastHash(log, n) ELSE NoDoc] \in [Ids -> Out]
    BY <1>3 DEF Out
  <2> QED
    BY <2>1, <2>2 DEF RunShape, States, Causes
<1> HIDE DEF Out
<1>5. Cardinality(Busy(r)) <= Slots
  <2>1. Busy(r) = {}
    BY <1>1 DEF Busy
  <2>2. Cardinality({}) <= Slots
    BY FS_EmptySet, SlotsAssumption
  <2>3. Cardinality(Busy(r)) = Cardinality({})
    BY <2>1
  <2> QED
    BY <2>2, <2>3
<1>6. Agree(r.state, r.out, log, dropped)
  <2>1. Succ(r.state, r.out, log)
    BY <1>1 DEF Succ
  <2>2. Kept(r.state, log, dropped)
    BY <1>1, <1>2 DEF Kept
  <2>3. Failures(r.state, log)
    BY <1>1 DEF Failures
  <2> QED
    BY <2>1, <2>2, <2>3 DEF Agree
<1>7. Chosen(r.state, r.out) /\ Skips(r.state, r.out)
  BY <1>1 DEF Chosen, Skips
<1>8. Fed(r) /\ Tasks(r, log, store) /\ Queued(r)
  BY <1>1 DEF Fed, Tasks, Queued
<1>9. Flow(r)
  <2>1. \A p \in Ids : Settled(r.state, p) <=> p \in reused
    BY <1>1 DEF Settled
  <2> QED
    BY <1>1, <1>2, <2>1 DEF Flow, NotLost, DueOK, Unseeded
<1> QED
  BY <1>4, <1>5, <1>6, <1>7, <1>8, <1>9 DEF RunInv

-----------------------------------------------------------------------------
(* What a run returned.                                                    *)

StateOf(res) == [n \in Ids |-> res.nodes[n].state]
OutOf(res) == [n \in Ids |-> res.nodes[n].doc]
Ended == {"succeeded", "failed", "skipped"}
ResultInv(res, log, dropped) ==
  /\ Agree(StateOf(res), OutOf(res), log, dropped)
  /\ res.cause = "none" =>
       /\ Chosen(StateOf(res), OutOf(res)) /\ Skips(StateOf(res), OutOf(res))
       /\ \A n \in Ids : StateOf(res)[n] \in Ended

\* The invariants are about the graph of the submission, which stays.
LEMMA SameSound ==
  ASSUME wf' = wf
  PROVE  \A log, dropped : LogOK(log, dropped)' <=> LogOK(log, dropped)
<1>1. \A out, n : Feed(out, n)' = Feed(out, n)
  BY SameGraph DEF Feed
<1>2. \A log : Hashes(log)' = Hashes(log)
  BY SameGraph DEF Hashes
<1>3. \A log, n : Sound(log, n)' <=> Sound(log, n)
  BY <1>1, <1>2, SameGraph, SameContext DEF Sound
<1> QED
  BY <1>3, SameGraph DEF LogOK

LEMMA SameAgree ==
  ASSUME wf' = wf
  PROVE  /\ \A st, out, log, dropped : Agree(st, out, log, dropped)' <=> Agree(st, out, log, dropped)
         /\ \A st, out : Chosen(st, out)' <=> Chosen(st, out)
         /\ \A st, out : Skips(st, out)' <=> Skips(st, out)
<1>1. \A st, out, log : Succ(st, out, log)' <=> Succ(st, out, log)
  BY SameGraph DEF Succ
<1>2. \A st, log, dropped : Kept(st, log, dropped)' <=> Kept(st, log, dropped)
  BY SameGraph DEF Kept
<1>3. \A st, log : Failures(st, log)' <=> Failures(st, log)
  BY SameGraph DEF Failures
<1>4. \A st, out : Chosen(st, out)' <=> Chosen(st, out)
  BY SameGraph DEF Chosen, ChosenBy
<1>5. \A st, out : Skips(st, out)' <=> Skips(st, out)
  BY SameGraph DEF Skips, SkippedBy
<1> QED
  BY <1>1, <1>2, <1>3, <1>4, <1>5 DEF Agree

LEMMA SameRun ==
  ASSUME wf' = wf
  PROVE  /\ \A r, log, store, dropped :
              RunInv(r, log, store, dropped)' <=> RunInv(r, log, store, dropped)
         /\ \A res, log, dropped : ResultInv(res, log, dropped)' <=> ResultInv(res, log, dropped)
<1>1. \A r : RunShape(r)' <=> RunShape(r)
  BY SameGraph DEF RunShape
<1>2. \A r : Fed(r)' <=> Fed(r)
  <2>1. \A out, n : Feed(out, n)' = Feed(out, n)
    BY SameGraph DEF Feed
  <2> QED
    BY <2>1, SameGraph DEF Fed
<1>3. \A r, log, store : Tasks(r, log, store)' <=> Tasks(r, log, store)
  BY SameGraph DEF Tasks
<1>4. \A r : Queued(r)' <=> Queued(r)
  BY SameGraph DEF Queued
<1>5. \A r : Flow(r)' <=> Flow(r)
  BY SameGraph DEF Flow, NotLost, DueOK, Unseeded
<1>6. \A res : StateOf(res)' = StateOf(res) /\ OutOf(res)' = OutOf(res)
  BY SameGraph DEF StateOf, OutOf
<1>7. \A r, log, store, dropped :
        RunInv(r, log, store, dropped)' <=> RunInv(r, log, store, dropped)
  BY <1>1, <1>2, <1>3, <1>4, <1>5, SameAgree DEF RunInv
<1>8. \A res, log, dropped : ResultInv(res, log, dropped)' <=> ResultInv(res, log, dropped)
  BY <1>6, SameAgree, SameGraph DEF ResultInv
<1> QED
  BY <1>7, <1>8

-----------------------------------------------------------------------------
(* The inductive invariant.  An archive is sound like the record it was    *)
(* taken of.                                                               *)

Statuses == {"new", "refused", "running", "returned", "down"}
ArchiveShape ==
  /\ archive = [taken |-> archive.taken, mark |-> archive.mark, store |-> archive.store,
                record |-> archive.record, dropped |-> archive.dropped, torn |-> archive.torn]
  /\ archive.store \subseteq Docs \ TooLarge
ArchiveSound ==
  archive.taken = "all" =>
    /\ IsLog(archive.record) /\ archive.dropped \subseteq Ids
    /\ LogOK(archive.record, archive.dropped)
ResultSound ==
  Returned => /\ status = "returned" /\ result.nodes = [n \in Ids |-> result.nodes[n]]
              /\ ResultInv(result, files.events, history.dropped)
Core ==
  /\ Base /\ Sane /\ status \in Statuses
  /\ status = "running" => Underway
  /\ ArchiveShape /\ ArchiveSound /\ ResultSound

\* To show Core of the next state it is enough to show it of its values.
LEMMA CoreNext ==
  ASSUME wf' = wf, wf \in Workflows, FilesShape', HistoryShape', ArchiveShape',
         status' \in Statuses,
         NEW log, log = files.events', NEW left, left = history.dropped', LogOK(log, left),
         NEW r, r = run', NEW store, store = files.store',
         status' = "running" => RunInv(r, log, store, left),
         NEW record, record = archive.record', NEW gone, gone = archive.dropped',
         archive'.taken = "all" => IsLog(record) /\ gone \subseteq Ids /\ LogOK(record, gone),
         NEW res, res = result',
         res.nodes # <<>> =>
           /\ status' = "returned" /\ res.nodes = [n \in Ids |-> res.nodes[n]]
           /\ ResultInv(res, log, left)
  PROVE  Core'
<1>1. LogOK(log, left)' /\ (status' = "running" => RunInv(r, log, store, left)')
  BY SameSound, SameRun
<1>2. Base' /\ Sane' /\ (status' = "running" => Underway')
  BY <1>1 DEF Base, Sane, Underway
<1>3. ArchiveSound'
  <2>1. Ids' = Ids
    BY SameGraph
  <2>2. LogOK(record, gone)' <=> LogOK(record, gone)
    BY SameSound
  <2>3. archive'.taken = "all" => LogOK(record, gone)'
    BY <2>2
  <2> QED
    BY <2>1, <2>3 DEF ArchiveSound
<1>4. ResultSound'
  <2>1. Ids' = Ids /\ (ResultInv(res, log, left)' <=> ResultInv(res, log, left))
    BY SameGraph, SameRun
  <2>2. Returned' <=> res.nodes # <<>>
    BY DEF Returned
  <2>3. Returned' => ResultInv(res, log, left)'
    BY <2>1, <2>2
  <2> QED
    BY <2>1, <2>2, <2>3 DEF ResultSound
<1> QED
  BY <1>2, <1>3, <1>4 DEF Core

LEMMA CoreInit == Init => Core
<1> SUFFICES ASSUME Init PROVE Core
  OBVIOUS
<1>1. \A n \in Ids : ~Finished(files.events, n)
  BY DEF Init, Finished, Has, About
<1>2. Sane
  BY <1>1 DEF Sane, LogOK
<1>3. IsLog(files.events)
  <2>1. files.events = <<>>
    BY DEF Init
  <2>2. <<>> \in Seq({})
    OBVIOUS
  <2> QED
    BY <2>1, <2>2 DEF IsLog
<1>4. Base
  BY <1>3 DEF Init, Base, FilesShape, HistoryShape
<1>5. ArchiveShape /\ ArchiveSound
  BY DEF Init, NoArchive, ArchiveShape, ArchiveSound
<1>6. ResultSound /\ status # "running" /\ status \in Statuses
  BY DEF Init, NoResult, ResultSound, Returned, Statuses
<1> QED
  BY <1>2, <1>4, <1>5, <1>6 DEF Core

\* A step of a run, or that ends one: nothing else moves.
LEMMA CoreRunning ==
  ASSUME Core, status = "running", UNCHANGED <<wf, status, result, archive>>,
         FilesShape', HistoryShape',
         NEW r, r = run', NEW log, log = files.events', NEW store, store = files.store',
         NEW left, left = history.dropped',
         RunInv(r, log, store, left), LogOK(log, left)
  PROVE  Core'
<1>1. wf' = wf /\ wf \in Workflows /\ status' \in Statuses
  BY DEF Core, Base
<1>2. ArchiveShape'
  BY DEF Core, ArchiveShape
<1>3. PICK record, gone, res : record = archive.record' /\ gone = archive.dropped' /\ res = result'
  OBVIOUS
<1>4. archive'.taken = "all" => IsLog(record) /\ gone \subseteq Ids /\ LogOK(record, gone)
  BY <1>3 DEF Core, ArchiveSound
<1>5. res.nodes = <<>>
  BY <1>3 DEF Core, ResultSound, Returned
<1> QED
  BY <1>1, <1>2, <1>3, <1>4, <1>5, CoreNext

LEMMA CoreDecide == ASSUME Core, NEW n \in Ids, Decide(n) PROVE Core'
<1>1. /\ status = "running" /\ UNCHANGED <<wf, status, files, result, archive, history>>
      /\ Base /\ Underway /\ Sane
  BY DEF Core, Decide
<1>2. FilesShape' /\ HistoryShape'
  <2>1. Ids' = Ids
    BY <1>1, SameGraph
  <2> QED
    BY <1>1, <2>1 DEF Base, FilesShape, HistoryShape
<1>3. PICK r : r = run'
  OBVIOUS
<1>4. RunInv(r, files.events, files.store, history.dropped)
  BY <1>1, <1>3, DecideKeeps
<1>5. LogOK(files.events, history.dropped)
  BY <1>1 DEF Sane
<1> QED
  BY <1>1, <1>2, <1>3, <1>4, <1>5, CoreRunning

\* The next log, after an event of a run.
LEMMA CoreWritten ==
  ASSUME Core, status = "running", UNCHANGED <<wf, status, result, archive, history>>,
         NEW e, files' = Written(<<e>>),
         NEW r, r = run', NEW log, log = files.events',
         RunInv(r, log, files.store, history.dropped), LogOK(log, history.dropped)
  PROVE  Core'
<1>1. Base /\ FilesShape
  BY DEF Core, Base
<1>2. /\ FilesShape' /\ files'.store = files.store
  BY <1>1, WrittenIs DEF FilesShape
<1>3. HistoryShape'
  BY <1>1, SameGraph DEF Base, HistoryShape
<1>4. PICK store, left : store = files.store' /\ left = history.dropped'
  OBVIOUS
<1>5. store = files.store /\ left = history.dropped
  BY <1>2, <1>4
<1>6. RunInv(r, log, store, left) /\ LogOK(log, left)
  BY <1>5
<1> QED
  BY <1>2, <1>3, <1>4, <1>6, CoreRunning

LEMMA CoreDispatch == ASSUME Core, NEW n \in Ids, Dispatch(n) PROVE Core'
<1>1. /\ status = "running" /\ UNCHANGED <<wf, status, result, archive, history>>
      /\ files' = Written(<<Note("WorkerStarted", n)>>) /\ Base /\ Underway /\ Sane
  BY DEF Core, Dispatch
<1>2. PICK r, log : r = run' /\ log = files.events'
  OBVIOUS
<1>3. RunInv(r, log, files.store, history.dropped) /\ LogOK(log, history.dropped)
  BY <1>1, <1>2, DispatchKeeps
<1> QED
  BY <1>1, <1>2, <1>3, CoreWritten

LEMMA CoreWork == ASSUME Core, NEW n \in Ids, Work(n) PROVE Core'
<1>1. /\ status = "running" /\ UNCHANGED <<wf, status, result, archive, history>>
      /\ Base /\ Underway /\ Sane
  BY DEF Core, Work
<1>2. PICK r, log : r = run' /\ log = files.events'
  OBVIOUS
<1>3. CASE \E d \in wf.docs : PutArtifact(n, d)
  <2>1. PICK d \in wf.docs : PutArtifact(n, d)
    BY <1>3
  <2>2. d \in Docs
    BY <1>1, SubmissionsAssumption DEF Base, SubmissionOK
  <2>3. PICK store : store = files.store'
    OBVIOUS
  <2>4. RunInv(r, files.events, store, history.dropped) /\ store \subseteq Docs \ TooLarge
    BY <1>1, <1>2, <2>1, <2>2, <2>3, PutKeeps
  <2>5. PICK left : left = history.dropped'
    OBVIOUS
  <2>6. left = history.dropped /\ log = files.events
    BY <1>1, <1>2, <2>1, <2>5 DEF PutArtifact, Base, FilesShape
  <2>7. RunInv(r, log, store, left) /\ LogOK(log, left)
    BY <1>1, <2>4, <2>6 DEF Sane
  <2>8. FilesShape'
    BY <1>1, <1>2, <2>1, <2>3, <2>4, <2>6 DEF PutArtifact, Base, FilesShape
  <2>9. HistoryShape'
    BY <1>1, SameGraph DEF Base, HistoryShape
  <2> QED
    BY <1>1, <1>2, <2>3, <2>5, <2>7, <2>8, <2>9, CoreRunning
<1>4. CASE CreateArtifact(n)
  <2>1. files' = Written(<<Event("ArtifactCreated", n, run.task[n].doc, <<>>)>>)
    BY <1>4 DEF CreateArtifact
  <2>2. RunInv(r, log, files.store, history.dropped) /\ LogOK(log, history.dropped)
    BY <1>1, <1>2, <1>4, CreateKeeps
  <2> QED
    BY <1>1, <1>2, <2>1, <2>2, CoreWritten
<1>5. ASSUME NEW collateral \in BOOLEAN, Fail(n, collateral) PROVE Core'
  <2>1. files' = Written(<<Note("Failure", n)>>)
    BY <1>5 DEF Fail, Dies, Obituary
  <2>2. RunInv(r, log, files.store, history.dropped) /\ LogOK(log, history.dropped)
    BY <1>1, <1>2, <1>5, FailKeeps
  <2> QED
    BY <1>1, <1>2, <2>1, <2>2, CoreWritten
<1>7. CASE Substitute(n)
  <2>1. files' = Written(<<Note("Failure", n)>>)
    BY <1>7 DEF Substitute, Dies, Obituary
  <2>2. RunInv(r, log, files.store, history.dropped) /\ LogOK(log, history.dropped)
    BY <1>1, <1>2, <1>7, SubstituteKeeps
  <2> QED
    BY <1>1, <1>2, <2>1, <2>2, CoreWritten
<1>6. CASE Park(n)
  <2>1. RunInv(r, log, files.store, history.dropped) /\ LogOK(log, history.dropped)
    BY <1>1, <1>2, <1>6, ParkKeeps
  <2>2. CASE files' = Written(<<Checkpoint("ApprovalRequested", n, Doer(n))>>)
    BY <1>1, <1>2, <2>1, <2>2, CoreWritten
  <2>3. CASE files' = files
    <3>1. FilesShape' /\ HistoryShape'
      BY <1>1, <2>3, SameGraph DEF Base, HistoryShape, FilesShape
    <3>2. PICK store, left : store = files.store' /\ left = history.dropped'
      OBVIOUS
    <3>3. store = files.store /\ left = history.dropped
      BY <1>1, <2>3, <3>2
    <3>4. RunInv(r, log, store, left) /\ LogOK(log, left)
      BY <2>1, <3>3
    <3> QED
      BY <1>1, <1>2, <3>1, <3>2, <3>4, CoreRunning
  <2> QED
    BY <1>6, <2>2, <2>3 DEF Park
<1> QED
  BY <1>3, <1>4, <1>5, <1>6, <1>7 DEF Work

LEMMA CoreComplete == ASSUME Core, NEW n \in Ids, Complete(n) PROVE Core'
<1>1. /\ status = "running" /\ UNCHANGED <<wf, status, result, archive>>
      /\ Base /\ Underway /\ Sane
      /\ history' = [history EXCEPT !.dropped = @ \ {n}]
      /\ files' = Written(<<Event("WorkerFinished", n, NoDoc, HashesOf(Admitted(Doer(n), run.used[n])))>>)
  BY DEF Core, Complete, Finish
<1>2. FilesShape' /\ files'.store = files.store
  <2>1. FilesShape
    BY <1>1 DEF Base
  <2> QED
    BY <1>1, <2>1, WrittenIs DEF FilesShape
<1>3. history.dropped' = history.dropped \ {n} /\ HistoryShape'
  <2>1. Ids' = Ids
    BY <1>1, SameGraph
  <2> QED
    BY <1>1, <2>1 DEF Base, HistoryShape
<1>4. PICK r, log, store, left : r = run' /\ log = files.events' /\ store = files.store'
                                /\ left = history.dropped'
  OBVIOUS
<1>5. left = history.dropped \ {n} /\ store = files.store
  BY <1>2, <1>3, <1>4
<1>6. RunInv(r, log, files.store, left) /\ LogOK(log, left)
  BY <1>1, <1>4, <1>5, CompleteKeeps
<1>7. RunInv(r, log, store, left)
  BY <1>5, <1>6
<1> QED
  BY <1>1, <1>2, <1>3, <1>4, <1>6, <1>7, CoreRunning

\* A new record says nothing of any node.
LEMMA NewLog ==
  ASSUME NEW e, e.type = "ExecutionStarted"
  PROVE  /\ IsLog(<<e>>) /\ \A n : ~Finished(<<e>>, n)
         /\ \A dropped : LogOK(<<e>>, dropped)
<1>1. <<e>> \in Seq({e})
  OBVIOUS
<1>2. IsLog(<<e>>)
  BY <1>1 DEF IsLog
<1>3. \A n : ~Finished(<<e>>, n)
  BY DEF Finished, Has, About
<1> QED
  BY <1>2, <1>3 DEF LogOK

\* Steps outside of a run: nothing of the coordinator's is to be shown.
LEMMA CoreAtRest ==
  ASSUME Core, UNCHANGED wf, status' \in Statuses \ {"running"},
         FilesShape', HistoryShape', ArchiveShape', ArchiveSound',
         NEW log, log = files.events', NEW left, left = history.dropped', LogOK(log, left),
         NEW res, res = result',
         res.nodes # <<>> =>
           /\ status' = "returned" /\ res.nodes = [n \in Ids |-> res.nodes[n]]
           /\ ResultInv(res, log, left)
  PROVE  Core'
<1>1. wf' = wf /\ wf \in Workflows /\ status' \in Statuses /\ status' # "running"
  BY DEF Core, Base, Statuses
<1>2. PICK record, gone, r, store : /\ record = archive.record' /\ gone = archive.dropped'
                                    /\ r = run' /\ store = files.store'
  OBVIOUS
<1>3. archive'.taken = "all" => IsLog(record) /\ gone \subseteq Ids /\ LogOK(record, gone)
  <2>1. Ids' = Ids
    BY <1>1, SameGraph
  <2>2. LogOK(record, gone)' <=> LogOK(record, gone)
    BY <1>1, SameSound
  <2>3. archive'.taken = "all" => LogOK(record, gone)'
    BY <1>2 DEF ArchiveSound
  <2> QED
    BY <1>2, <2>1, <2>2, <2>3 DEF ArchiveSound
<1> QED
  BY <1>1, <1>2, <1>3, CoreNext

LEMMA ArchiveStays ==
  ASSUME Core, UNCHANGED <<wf, archive>>
  PROVE  ArchiveShape' /\ ArchiveSound'
<1>1. PICK record, gone : record = archive.record /\ gone = archive.dropped
  OBVIOUS
<1>2. LogOK(record, gone)' <=> LogOK(record, gone)
  BY SameSound
<1>3. Ids' = Ids
  BY SameGraph
<1>4. archive.taken = "all" => LogOK(record, gone)'
  BY <1>1, <1>2 DEF Core, ArchiveSound
<1> QED
  BY <1>1, <1>3, <1>4 DEF Core, ArchiveShape, ArchiveSound

LEMMA NoArchiveSound == archive' = NoArchive => ArchiveShape' /\ ArchiveSound'
BY DEF NoArchive, ArchiveShape, ArchiveSound

LEMMA CoreRefuse == ASSUME Core, Refuse PROVE Core'
<1>1. /\ UNCHANGED <<wf, files, result, archive, history>> /\ status' = "refused" /\ status = "new"
      /\ Base /\ Sane
  BY DEF Core, Refuse
<1>2. FilesShape' /\ HistoryShape' /\ ArchiveShape' /\ ArchiveSound'
  BY <1>1, SameGraph, ArchiveStays DEF Base, FilesShape, HistoryShape
<1>3. PICK log, left, res : log = files.events' /\ left = history.dropped' /\ res = result'
  OBVIOUS
<1>4. LogOK(log, left) /\ res.nodes = <<>>
  BY <1>1, <1>3 DEF Sane, Core, ResultSound, Returned
<1> QED
  BY <1>1, <1>2, <1>3, <1>4, CoreAtRest DEF Statuses

\* A new run (a re-execution too) starts from nothing.
LEMMA CoreStart ==
  ASSUME Core, NEW supplied, Start(supplied), UNCHANGED wf, HistoryShape',
         ArchiveShape', ArchiveSound',
         status' = "refused" => history.dropped' = history.dropped
  PROVE  Core'
<1>1. Base /\ Sane /\ wf' = wf /\ wf \in Workflows
  BY DEF Core, Base
<1>2. PICK log, left, res, r, store, record, gone :
        /\ log = files.events' /\ left = history.dropped' /\ res = result' /\ r = run'
        /\ store = files.store' /\ record = archive.record' /\ gone = archive.dropped'
  OBVIOUS
<1>3. CASE Missing(supplied) # {}
  <2>1. UNCHANGED files /\ status' = "refused" /\ result' = Failed("inputs")
    BY <1>3 DEF Start
  <2>2. log = files.events /\ left = history.dropped /\ res.nodes = <<>>
    BY <1>2, <2>1 DEF Failed, NoResult
  <2>3. FilesShape' /\ LogOK(log, left)
    BY <1>1, <2>1, <2>2 DEF Base, FilesShape, Sane
  <2> QED
    BY <1>1, <1>2, <2>1, <2>2, <2>3, CoreAtRest DEF Statuses
<1>4. CASE Missing(supplied) = {}
  <2>1. PICK e : e = Note("ExecutionStarted", "")
    OBVIOUS
  <2>2. e.type = "ExecutionStarted"
    BY <2>1, NoteIs
  <2>3. files' = [files EXCEPT !.snap = TRUE, !.inputs = Bound(supplied), !.events = <<e>>]
    BY <1>4, <2>1 DEF Start
  <2>4. run' = Begun(<<>>, {}) /\ status' = "running" /\ result' = NoResult
    BY <1>4 DEF Start
  <2>5. log = <<e>> /\ IsLog(log) /\ LogOK(log, left) /\ \A n : ~Finished(log, n)
    BY <1>1, <1>2, <2>2, <2>3, NewLog DEF Base, FilesShape
  <2>6. FilesShape'
    BY <1>1, <1>2, <2>3, <2>5 DEF Base, FilesShape
  <2>7. res.nodes = <<>>
    BY <1>2, <2>4 DEF NoResult
  <2>8. RunInv(r, log, store, left)
    <3>0. PICK none, asked \in SUBSET Ids :
            none = {} /\ asked = { n \in Ids : Asked(<<>>, n) # {} }
      OBVIOUS
    <3>1. r = [state |-> [n \in Ids |-> IF n \in none THEN "succeeded" ELSE "pending"],
               out |-> [n \in Ids |-> IF n \in none THEN LastHash(log, n) ELSE NoDoc],
               due |-> { n \in Ids \ (none \cup FallbackOnly) : ParentsOf(n) \subseteq none },
               ready |-> {}, used |-> [n \in Ids |-> <<>>], task |-> [n \in Ids |-> IdleTask],
               tried |-> {}, asked |-> asked, cause |-> "none"]
      BY <1>2, <2>4, <3>0 DEF Begun
    <3>2. /\ \A n \in none : Finished(log, n)
          /\ \A n \in Ids \ left : Finished(log, n) => n \in none /\ ParentsOf(n) \subseteq none
      BY <2>5, <3>0
    <3> QED
      BY <2>5, <3>1, <3>2, BeginsWell
  <2>9. archive'.taken = "all" => IsLog(record) /\ gone \subseteq Ids /\ LogOK(record, gone)
    <3>1. Ids' = Ids
      BY <1>1, SameGraph
    <3>2. LogOK(record, gone)' <=> LogOK(record, gone)
      BY <1>1, SameSound
    <3>3. archive'.taken = "all" => LogOK(record, gone)'
      BY <1>2 DEF ArchiveSound
    <3> QED
      BY <1>2, <3>1, <3>2, <3>3 DEF ArchiveSound
  <2> QED
    BY <1>1, <1>2, <2>4, <2>5, <2>6, <2>7, <2>8, <2>9, CoreNext DEF Statuses
<1> QED
  BY <1>3, <1>4

LEMMA CoreRun == ASSUME Core, Run PROVE Core'
<1>1. Start(wf.supplied) /\ UNCHANGED <<wf, archive, history>> /\ Base
  BY DEF Core, Run
<1>2. HistoryShape' /\ ArchiveShape' /\ ArchiveSound'
  BY <1>1, SameGraph, ArchiveStays DEF Base, HistoryShape
<1> QED
  BY <1>1, <1>2, CoreStart

LEMMA CoreReexecute == ASSUME Core, Reexecute PROVE Core'
<1>1. Start({}) /\ UNCHANGED wf /\ archive' = NoArchive /\ Base
  BY DEF Core, Reexecute
<1>2. /\ HistoryShape' /\ (status' = "refused" => history.dropped' = history.dropped)
  <2>1. Ids' = Ids
    BY <1>1, SameGraph
  <2> QED
    BY <1>1, <2>1 DEF Reexecute, Base, HistoryShape
<1> QED
  BY <1>1, <1>2, NoArchiveSound, CoreStart

\* The skip of what nothing triggered (scheduler.go:479) leaves the rest of the
\* states as they are.
LEMMA FinalKeeps ==
  ASSUME RunShape(run), NEW fin, fin = [n \in Ids |-> Final(n)]
  PROVE  /\ \A log, dropped :
              Agree(run.state, run.out, log, dropped) => Agree(fin, run.out, log, dropped)
         /\ Chosen(run.state, run.out) => Chosen(fin, run.out)
         /\ Skips(run.state, run.out) => Skips(fin, run.out)
<1>1. \A n \in Ids :
        /\ fin[n] = IF n \in FallbackOnly /\ run.state[n] = "pending" THEN "skipped" ELSE run.state[n]
        /\ \A x \in {"running", "succeeded", "failed"} : fin[n] = x <=> run.state[n] = x
        /\ run.state[n] = "skipped" => fin[n] = "skipped"
  BY DEF Final
<1>2. \A n \in Ids : fin[n] = "succeeded" <=> run.state[n] = "succeeded"
  BY <1>1
<1>3. \A n \in Ids : fin[n] = "failed" <=> run.state[n] = "failed"
  BY <1>1
<1>4. \A n \in Ids : fin[n] = "running" <=> run.state[n] = "running"
  BY <1>1
<1>5. \A n : ParentsOf(n) \subseteq Ids
  BY EdgeEnds
<1>6. ASSUME NEW log, NEW dropped, Agree(run.state, run.out, log, dropped)
      PROVE  Agree(fin, run.out, log, dropped)
  <2>1. Succ(fin, run.out, log)
    BY <1>2, <1>6 DEF Agree, Succ
  <2>2. Kept(fin, log, dropped)
    BY <1>2, <1>5, <1>6 DEF Agree, Kept
  <2>3. Failures(fin, log)
    BY <1>3, <1>6 DEF Agree, Failures
  <2> QED
    BY <2>1, <2>2, <2>3 DEF Agree
<1>7. ASSUME Chosen(run.state, run.out) PROVE Chosen(fin, run.out)
  <2>1. \A n \in Ids : ChosenBy(n, run.state, run.out) => ChosenBy(n, fin, run.out)
    BY <1>2, EdgeEnds DEF ChosenBy
  <2> QED
    BY <1>3, <1>4, <1>7, <2>1 DEF Chosen
<1>8. ASSUME Skips(run.state, run.out) PROVE Skips(fin, run.out)
  <2>1. ASSUME NEW n \in Ids, SkippedBy(n, run.state, run.out) PROVE SkippedBy(n, fin, run.out)
    <3>1. PICK e \in ToSet(EdgesInto(n)) :
            \/ run.state[e.from] \in {"failed", "skipped"}
            \/ /\ run.state[e.from] = "succeeded"
               /\ EvalCondition(e.cond, run.out[e.from]) \notin {"yes", "error"}
      BY <2>1 DEF SkippedBy
    <3>2. e.from \in Ids
      BY EdgeEnds
    <3> QED
      BY <1>1, <1>2, <1>3, <3>1, <3>2 DEF SkippedBy
  <2>2. \A n \in Ids \ FallbackOnly : fin[n] = run.state[n]
    BY <1>1
  <2> QED
    BY <1>8, <2>1, <2>2 DEF Skips
<1> QED
  BY <1>6, <1>7, <1>8

\* A result of a run (scheduler.go:473) says what the coordinator's maps say.
LEMMA CoreReturn == ASSUME Core, Return PROVE Core'
<1>1. /\ UNCHANGED <<wf, archive, history>> /\ status = "running" /\ status' = "returned"
      /\ Base /\ Sane /\ Underway /\ wf' = wf /\ Returns
  BY DEF Core, Return
<1>2. RunShape(run)
  BY <1>1 DEF Underway, RunInv
<1>3. PICK e : e = Note("ExecutionFinished", "")
  OBVIOUS
<1>4. e.type = "ExecutionFinished" /\ files' = Written(<<e>>)
  BY <1>3, NoteIs DEF Return
<1>5. FilesShape' /\ HistoryShape' /\ ArchiveShape' /\ ArchiveSound'
  <2>1. FilesShape
    BY <1>1 DEF Base
  <2> QED
    BY <1>1, <1>4, <2>1, WrittenIs, SameGraph, ArchiveStays DEF Base, HistoryShape, FilesShape
<1>6. PICK log, left, res : log = files.events' /\ left = history.dropped' /\ res = result'
  OBVIOUS
<1>7. /\ Alike(files.events, log) /\ left = history.dropped
      /\ LogOK(log, left) /\ Agree(run.state, run.out, log, left)
  <2>1. log = files.events \o <<e>> /\ IsLog(files.events) /\ left = history.dropped
    BY <1>1, <1>4, <1>6, WrittenIs DEF Base, FilesShape
  <2>2. Alike(files.events, log)
    BY <1>4, <2>1, OtherEvent
  <2> QED
    BY <1>1, <2>1, <2>2, AlikeKeeps DEF Sane, Underway, RunInv
<1>8. /\ res.nodes = [n \in Ids |-> [state |-> Final(n), doc |-> run.out[n]]]
      /\ res.cause = IF ~Halted /\ Unresolved THEN "incomplete" ELSE run.cause
  BY <1>6 DEF Return
<1>13. PICK fin : fin = [n \in Ids |-> Final(n)]
  OBVIOUS
<1>9. StateOf(res) = fin /\ OutOf(res) = run.out
  <2>1. \A n \in Ids : res.nodes[n].state = Final(n) /\ res.nodes[n].doc = run.out[n]
    BY <1>8
  <2>2. StateOf(res) = [n \in Ids |-> Final(n)] /\ OutOf(res) = [n \in Ids |-> run.out[n]]
    BY <2>1 DEF StateOf, OutOf
  <2> QED
    BY <1>2, <1>13, <2>2 DEF RunShape
<1>14. Agree(fin, run.out, log, left)
  BY <1>2, <1>7, <1>13, FinalKeeps
<1>10. ASSUME res.cause = "none"
       PROVE  /\ Chosen(fin, run.out) /\ Skips(fin, run.out)
              /\ \A n \in Ids : fin[n] \in Ended
  <2>1. run.cause = "none" /\ ~Unresolved
    BY <1>8, <1>10 DEF Halted
  <2>2. \A n \in Ids : run.state[n] # "running"
    <3>1. run.ready = {} /\ \A n \in Ids : run.task[n].phase = "none"
      BY <1>1, <1>2, <2>1 DEF Returns, InFlight, Halted, RunShape
    <3> QED
      BY <1>1, <3>1 DEF Underway, RunInv, Queued
  <2>3. \A n \in Ids : run.state[n] \in States /\ fin[n] # "pending" /\ fin[n] = Final(n)
    BY <1>2, <1>13, <2>1 DEF RunShape, Unresolved
  <2>4. Chosen(fin, run.out) /\ Skips(fin, run.out)
    BY <1>1, <1>2, <1>13, <2>1, FinalKeeps DEF Underway, RunInv
  <2> QED
    BY <2>2, <2>3, <2>4 DEF States, Ended, Final
<1>11. ResultInv(res, log, left)
  BY <1>9, <1>10, <1>14 DEF ResultInv
<1>12. res.nodes = [n \in Ids |-> res.nodes[n]]
  BY <1>8
<1> QED
  BY <1>1, <1>5, <1>6, <1>7, <1>11, <1>12, CoreAtRest DEF Statuses

LEMMA CoreCrash == ASSUME Core, Crash PROVE Core'
<1>1. /\ UNCHANGED <<wf, files, result, archive>> /\ status = "running" /\ status' = "down"
      /\ history' = [history EXCEPT !.crashed = TRUE] /\ Base /\ Sane
  BY DEF Core, Crash
<1>2. /\ FilesShape' /\ HistoryShape' /\ ArchiveShape' /\ ArchiveSound'
      /\ history'.dropped = history.dropped
  BY <1>1, SameGraph, ArchiveStays DEF Base, FilesShape, HistoryShape
<1>3. PICK log, left, res : log = files.events' /\ left = history.dropped' /\ res = result'
  OBVIOUS
<1>4. LogOK(log, left) /\ res.nodes = <<>>
  BY <1>1, <1>2, <1>3 DEF Sane, Core, ResultSound, Returned
<1> QED
  BY <1>1, <1>2, <1>3, <1>4, CoreAtRest DEF Statuses

\* A grant of an approval is no end of anything (controls.go:214).
LEMMA CoreApprove == ASSUME Core, NEW n \in Ids, Approve(n) PROVE Core'
<1>0. PICK asks : files' = Written(<<Checkpoint("ApprovalGranted", asks, n)>>)
  BY DEF Approve
<1>1. /\ UNCHANGED <<wf, status, run, result, archive, history>> /\ AtRest
      /\ files' = Written(<<Checkpoint("ApprovalGranted", asks, n)>>) /\ Base /\ Sane
  BY <1>0 DEF Core, Approve
<1>2. FilesShape' /\ HistoryShape' /\ ArchiveShape' /\ ArchiveSound'
  <2>1. FilesShape
    BY <1>1 DEF Base
  <2> QED
    BY <1>1, <2>1, WrittenIs, SameGraph, ArchiveStays DEF Base, HistoryShape, FilesShape
<1>3. PICK log, left, res : log = files.events' /\ left = history.dropped' /\ res = result'
  OBVIOUS
<1>4. Alike(files.events, log) /\ left = history.dropped /\ res = result
  <2>1. log = files.events \o <<Checkpoint("ApprovalGranted", asks, n)>> /\ IsLog(files.events)
    BY <1>1, <1>3, WrittenIs DEF Base, FilesShape
  <2>2. Alike(files.events, log)
    BY <2>1, CheckpointIs, OtherEvent
  <2> QED
    BY <1>1, <1>3, <2>2
<1>5. LogOK(log, left)
  BY <1>1, <1>4, AlikeKeeps DEF Sane
<1>6. ASSUME res.nodes # <<>>
      PROVE  /\ status' = "returned" /\ res.nodes = [m \in Ids |-> res.nodes[m]]
             /\ ResultInv(res, log, left)
  <2>1. /\ status = "returned" /\ res.nodes = [m \in Ids |-> res.nodes[m]]
        /\ ResultInv(res, files.events, left)
    BY <1>4, <1>6 DEF Core, ResultSound, Returned
  <2>2. Agree(StateOf(res), OutOf(res), log, left)
    BY <1>1, <1>4, <2>1, AlikeKeeps DEF Sane, ResultInv
  <2> QED
    BY <1>1, <2>1, <2>2 DEF ResultInv
<1>7. status' \in Statuses \ {"running"}
  BY <1>1 DEF AtRest, Statuses
<1> QED
  BY <1>1, <1>2, <1>3, <1>5, <1>6, <1>7, CoreAtRest

\* A resume reuses what the record says is done, and a retry what is neither
\* the node nor after it (resume.go:40, 58).
LEMMA CoreRerun ==
  ASSUME Core, NEW again \in SUBSET Ids,
         \A m \in Ids : \A p \in ParentsOf(m) : p \in again => m \in again, Rerun(again)
  PROVE  Core'
<1>1. /\ UNCHANGED <<wf, files, archive>> /\ Base /\ Sane /\ AtRest /\ wf' = wf
      /\ wf \in Workflows /\ status \in Statuses
      /\ history' = [history EXCEPT !.lives = @ - 1, !.dropped = @ \cup again]
  BY DEF Core, Rerun, Base
<1>2. /\ FilesShape' /\ HistoryShape' /\ ArchiveShape' /\ ArchiveSound'
      /\ history'.dropped = history.dropped \cup again
  <2>1. Ids' = Ids
    BY <1>1, SameGraph
  <2>2. FilesShape' /\ ArchiveShape' /\ ArchiveSound'
    BY <1>1, ArchiveStays DEF Base, FilesShape
  <2> QED
    BY <1>1, <2>1, <2>2 DEF Base, HistoryShape
<1>3. PICK log, left, res, r, store, record, gone :
        /\ log = files.events' /\ left = history.dropped' /\ res = result' /\ r = run'
        /\ store = files.store' /\ record = archive.record' /\ gone = archive.dropped'
  OBVIOUS
<1>4. log = files.events /\ left = history.dropped \cup again
  BY <1>1, <1>2, <1>3
<1>5. LogOK(log, left)
  BY <1>1, <1>4 DEF Sane, LogOK
<1>6. CASE Loadable(files.events, files.store) /\ Missing(files.inputs) = {}
  <2>1. run' = Begun(log, Reconstruct(files.events) \ again) /\ status' = "running" /\ result' = NoResult
    BY <1>4, <1>6 DEF Rerun
  <2>2. PICK reused : reused = Reconstruct(files.events) \ again
    OBVIOUS
  <2>0. PICK asked \in SUBSET Ids : asked = { n \in Ids : Asked(log, n) # {} }
    OBVIOUS
  <2>3. reused \in SUBSET Ids /\ \A n \in reused : Finished(log, n)
    BY <1>4, <2>2 DEF Reconstruct, Reusable
  <2>4. \A n \in Ids : Finished(log, n) => n \in Reconstruct(files.events)
    BY <1>1, <1>4, SubmissionsAssumption DEF Reconstruct, Reusable, Sane, LogOK
  <2>5. ASSUME NEW n \in Ids \ left, Finished(log, n)
        PROVE  n \in reused /\ ParentsOf(n) \subseteq reused
    <3>1. n \in reused
      BY <1>4, <2>2, <2>4, <2>5
    <3>2. ASSUME NEW p \in ParentsOf(n) PROVE p \in reused
      <4>1. PICK e \in ToSet(EdgesInto(n)) : e.from = p
        BY EdgeEnds
      <4>2. Finished(log, p) /\ p \in Ids
        BY <1>5, <2>5, <4>1, EdgeEnds DEF LogOK, Sound
      <4>3. p \notin again
        BY <1>4, <2>5, <3>2
      <4> QED
        BY <2>2, <2>4, <4>2, <4>3
    <3> QED
      BY <3>1, <3>2
  <2>6. r = [state |-> [n \in Ids |-> IF n \in reused THEN "succeeded" ELSE "pending"],
             out |-> [n \in Ids |-> IF n \in reused THEN LastHash(log, n) ELSE NoDoc],
             due |-> { n \in Ids \ (reused \cup FallbackOnly) : ParentsOf(n) \subseteq reused },
             ready |-> {}, used |-> [n \in Ids |-> <<>>], task |-> [n \in Ids |-> IdleTask],
             tried |-> {}, asked |-> asked, cause |-> "none"]
    BY <1>3, <2>0, <2>1, <2>2 DEF Begun
  <2>7. RunInv(r, log, store, left)
    BY <1>5, <2>3, <2>5, <2>6, BeginsWell
  <2>8. res.nodes = <<>>
    BY <1>3, <2>1 DEF NoResult
  <2>9. archive'.taken = "all" => IsLog(record) /\ gone \subseteq Ids /\ LogOK(record, gone)
    BY <1>1, <1>3 DEF Core, ArchiveSound
  <2> QED
    BY <1>1, <1>2, <1>3, <1>5, <2>1, <2>7, <2>8, <2>9, CoreNext DEF Statuses
<1>7. CASE ~(Loadable(files.events, files.store) /\ Missing(files.inputs) = {})
  <2>1. result' = Failed("reload") /\ UNCHANGED <<run, status>>
    BY <1>7 DEF Rerun
  <2>2. res.nodes = <<>> /\ status' \in Statuses \ {"running"}
    BY <1>1, <1>3, <2>1 DEF Failed, NoResult, AtRest
  <2> QED
    BY <1>1, <1>2, <1>3, <1>5, <2>2, CoreAtRest
<1> QED
  BY <1>6, <1>7

LEMMA CoreResume ==
  ASSUME Core, Resume \/ \E n \in Ids : ResumeFrom(n)
  PROVE  Core'
<1>1. CASE Resume
  <2>1. PICK none \in SUBSET Ids : none = {}
    OBVIOUS
  <2>2. Rerun(none)
    BY <1>1, <2>1 DEF Resume
  <2> QED
    BY <2>1, <2>2, CoreRerun
<1>2. ASSUME NEW n \in Ids, ResumeFrom(n) PROVE Core'
  <2>1. PICK again \in SUBSET Ids : again = DownstreamOf(n)
    BY DEF DownstreamOf
  <2>2. Rerun(again)
    BY <1>2, <2>1 DEF ResumeFrom
  <2>3. \A m \in Ids : \A p \in ParentsOf(m) : p \in again => m \in again
    BY <2>1, DownstreamClosed
  <2> QED
    BY <2>2, <2>3, CoreRerun
<1> QED
  BY <1>1, <1>2

\* Nothing of the execution moves.
LEMMA CoreSame ==
  ASSUME Core, UNCHANGED <<wf, status, files, run, result>>,
         HistoryShape', history'.dropped = history.dropped, ArchiveShape', ArchiveSound'
  PROVE  Core'
<1>1. Base /\ Sane /\ wf' = wf /\ wf \in Workflows /\ status' \in Statuses /\ FilesShape'
  BY DEF Core, Base, FilesShape
<1>2. PICK log, left, res, r, store, record, gone :
        /\ log = files.events' /\ left = history.dropped' /\ res = result' /\ r = run'
        /\ store = files.store' /\ record = archive.record' /\ gone = archive.dropped'
  OBVIOUS
<1>3. /\ log = files.events /\ left = history.dropped /\ res = result /\ r = run
      /\ store = files.store
  BY <1>2
<1>4. LogOK(log, left) /\ (status' = "running" => RunInv(r, log, store, left))
  BY <1>1, <1>3 DEF Core, Sane, Underway
<1>5. res.nodes # <<>> =>
           /\ status' = "returned" /\ res.nodes = [n \in Ids |-> res.nodes[n]]
           /\ ResultInv(res, log, left)
  BY <1>3 DEF Core, ResultSound, Returned
<1>6. archive'.taken = "all" => IsLog(record) /\ gone \subseteq Ids /\ LogOK(record, gone)
  <2>1. Ids' = Ids
    BY <1>1, SameGraph
  <2>2. LogOK(record, gone)' <=> LogOK(record, gone)
    BY <1>1, SameSound
  <2>3. archive'.taken = "all" => LogOK(record, gone)'
    BY <1>2 DEF ArchiveSound
  <2> QED
    BY <1>2, <2>1, <2>2, <2>3 DEF ArchiveSound
<1> QED
  BY <1>1, <1>2, <1>4, <1>5, <1>6, CoreNext

LEMMA CoreBackUp == ASSUME Core, BackUpArtifacts \/ BackUpExecution PROVE Core'
<1>0. Base /\ Sane
  BY DEF Core
<1>1. CASE BackUpArtifacts
  <2>1. /\ UNCHANGED <<wf, status, files, run, result>>
        /\ archive' = [NoArchive EXCEPT !.taken = "artifacts", !.store = files.store,
                                        !.mark = Len(files.events), !.torn = history.torn]
        /\ history' = [history EXCEPT !.backups = @ - 1]
    BY <1>1 DEF BackUpArtifacts
  <2>2. HistoryShape' /\ history'.dropped = history.dropped
    BY <1>0, <2>1, SameGraph DEF Base, HistoryShape
  <2>3. ArchiveShape' /\ ArchiveSound'
    BY <1>0, <2>1 DEF NoArchive, ArchiveShape, ArchiveSound, Base, FilesShape
  <2> QED
    BY <2>1, <2>2, <2>3, CoreSame
<1>2. CASE BackUpExecution
  <2>1. /\ UNCHANGED <<wf, status, files, run, result, history>> /\ wf' = wf
        /\ archive' = [archive EXCEPT !.taken = "all", !.record = files.events,
                                      !.dropped = history.dropped]
    BY <1>2 DEF BackUpExecution
  <2>2. HistoryShape' /\ history'.dropped = history.dropped
    BY <1>0, <2>1, SameGraph DEF Base, HistoryShape
  <2>3. ArchiveShape' /\ archive'.record = files.events /\ archive'.dropped = history.dropped
    BY <2>1 DEF Core, ArchiveShape
  <2>4. ArchiveSound'
    <3>1. PICK log, left : log = files.events /\ left = history.dropped
      OBVIOUS
    <3>2. LogOK(log, left)' <=> LogOK(log, left)
      BY <2>1, SameSound
    <3>3. LogOK(log, left)' /\ IsLog(log) /\ left \subseteq Ids' /\ archive.record' = log
          /\ archive.dropped' = left
      BY <1>0, <2>1, <2>3, <3>1, <3>2, SameGraph DEF Sane, Base, FilesShape, HistoryShape
    <3> QED
      BY <3>3 DEF ArchiveSound
  <2> QED
    BY <2>1, <2>2, <2>3, <2>4, CoreSame
<1> QED
  BY <1>1, <1>2

LEMMA CoreRestore ==
  ASSUME Core, NEW over \in {{}, files.store}, Restore(over)
  PROVE  Core'
<1>1. /\ AtRest /\ archive.taken = "all" /\ wf' = wf /\ UNCHANGED wf
      /\ files' = [files EXCEPT !.events = archive.record, !.store = over \cup archive.store]
      /\ status' = "down" /\ result' = NoResult /\ archive' = NoArchive
      /\ history' = [history EXCEPT !.dropped = archive.dropped, !.crashed = TRUE,
                       !.torn = archive.torn \/ Len(archive.record) # archive.mark]
  BY DEF Restore
<1>2. /\ IsLog(archive.record) /\ archive.dropped \subseteq Ids
      /\ LogOK(archive.record, archive.dropped) /\ Base /\ ArchiveShape
  BY <1>1 DEF Core, ArchiveSound
<1>3. FilesShape' /\ files'.events = archive.record
  BY <1>1, <1>2 DEF Base, FilesShape, ArchiveShape
<1>4. HistoryShape' /\ history'.dropped = archive.dropped
  <2>1. Ids' = Ids
    BY <1>1, SameGraph
  <2> QED
    BY <1>1, <1>2, <2>1 DEF Base, HistoryShape
<1>5. PICK log, left, res : log = files.events' /\ left = history.dropped' /\ res = result'
  OBVIOUS
<1>6. LogOK(log, left) /\ res.nodes = <<>>
  BY <1>1, <1>2, <1>3, <1>4, <1>5 DEF NoResult
<1> QED
  BY <1>1, <1>3, <1>4, <1>5, <1>6, NoArchiveSound, CoreAtRest DEF Statuses

LEMMA CoreStill == ASSUME Core, UNCHANGED vars PROVE Core'
<1>1. UNCHANGED <<wf, status, files, run, result>> /\ UNCHANGED <<archive, history>>
  BY DEF vars
<1>2. HistoryShape' /\ history'.dropped = history.dropped
  BY <1>1, SameGraph DEF Core, Base, HistoryShape
<1>3. ArchiveShape' /\ ArchiveSound'
  BY <1>1, ArchiveStays
<1> QED
  BY <1>1, <1>2, <1>3, CoreSame

\* Every step keeps the record sound, and what was rebuilt from it.
LEMMA CoreStep == Core /\ [Next \/ Quiet]_vars => Core'
<1> SUFFICES ASSUME Core, [Next \/ Quiet]_vars PROVE Core'
  OBVIOUS
<1>1. CASE Next
  BY <1>1, CoreRefuse, CoreRun, CoreReexecute, CoreReturn, CoreCrash, CoreResume, CoreDecide,
     CoreDispatch, CoreWork, CoreComplete, CoreApprove, CoreBackUp, CoreRestore DEF Next
<1> QED
  BY <1>1, CoreStill DEF Quiet

\* What the record says of a node no retry threw away is what it last did, on
\* what its parents last made, and what every run and result says
\* (resume.go:87), over any number of crashes, resumes, retries and restores.
THEOREM CoreInvariant == Spec => []Core
<1> QED
  BY CoreInit, CoreStep, PTL DEF Spec

-----------------------------------------------------------------------------
(* What it makes true of every result.                                     *)

LEMMA ResultFields ==
  ASSUME NEW n \in Ids
  PROVE  StateOf(result)[n] = result.nodes[n].state /\ OutOf(result)[n] = result.nodes[n].doc
BY DEF StateOf, OutOf

\* A result is of one piece (resume.go:87, node.go:217) over any number of
\* crashes, resumes and retries: what a succeeded node was given is what its
\* parents put out in the same result, over edges that hold.
THEOREM ResultsOfOnePiece == Spec => []OfOnePiece
<1>1. Core => OfOnePiece
  <2> SUFFICES ASSUME Core, Returned, NEW n \in Ids \ history.dropped,
                      result.nodes[n].state = "succeeded"
               PROVE  /\ \A e \in ToSet(EdgesInto(n)) :
                           /\ result.nodes[e.from].state = "succeeded"
                           /\ EvalCondition(e.cond, result.nodes[e.from].doc) = "yes"
                      /\ \E d \in {n} \cup Fallback(n) :
                           LastOf(files.events, {"WorkerFinished"}, n).seen
                             = HashesOf(Admitted(d, Outputs(EdgesInto(n))))
    BY DEF OfOnePiece
  <2>1. /\ Agree(StateOf(result), OutOf(result), files.events, history.dropped)
        /\ LogOK(files.events, history.dropped)
    BY DEF Core, Sane, ResultSound, ResultInv
  <2>2. StateOf(result)[n] = "succeeded"
    BY ResultFields
  <2>3. Finished(files.events, n) /\ Sound(files.events, n)
    BY <2>1, <2>2 DEF Agree, Succ, LogOK
  <2>4. ASSUME NEW e \in ToSet(EdgesInto(n))
        PROVE  /\ e.from \in Ids /\ StateOf(result)[e.from] = "succeeded"
               /\ OutOf(result)[e.from] = LastHash(files.events, e.from)
    <3>1. e.from \in ParentsOf(n) /\ e.from \in Ids
      BY EdgeEnds
    <3> QED
      BY <2>1, <2>3, <3>1 DEF Agree, Succ, Kept
  <2>5. \A e \in ToSet(EdgesInto(n)) :
          /\ result.nodes[e.from].state = "succeeded"
          /\ EvalCondition(e.cond, result.nodes[e.from].doc) = "yes"
    BY <2>3, <2>4, ResultFields DEF Sound
  <2>6. Outputs(EdgesInto(n)) = Feed(OutOf(result), n)
    BY EdgeEnds, ResultFields DEF Outputs, Feed
  <2>7. \A e \in ToSet(EdgesInto(n)) : OutOf(result)[e.from] = Hashes(files.events)[e.from]
    BY <2>4 DEF Hashes
  <2>8. Feed(OutOf(result), n) = Feed(Hashes(files.events), n)
    BY <2>7, FeedOf
  <2>9. \E d \in {n} \cup Fallback(n) :
          LastOf(files.events, {"WorkerFinished"}, n).seen = HashesOf(Admitted(d, Outputs(EdgesInto(n))))
    BY <2>3, <2>6, <2>8 DEF Sound, SeenBy
  <2> QED
    BY <2>5, <2>9
<1> QED
  BY <1>1, CoreInvariant, PTL

\* Audit, which reads only the record, and the run's result agree
\* (replay/audit.go:87), for every workflow and history.
THEOREM AuditsAgree == Spec => []AuditAgrees
<1>1. Core => AuditAgrees
  <2> SUFFICES ASSUME Core, Returned, NEW n \in Ids \ history.dropped
               PROVE  LET r == result.nodes[n]
                      IN  /\ (r.state = "succeeded") = (AuditState(files.events, n) = "succeeded")
                          /\ r.state = "succeeded" => LastHash(files.events, n) = r.doc
                          /\ r.state = "failed" => AuditState(files.events, n) = "failed"
    BY DEF AuditAgrees
  <2> DEFINE log == files.events
             st == result.nodes[n].state
  <2>1. /\ Agree(StateOf(result), OutOf(result), log, history.dropped)
        /\ LogOK(log, history.dropped) /\ IsLog(log)
    BY DEF Core, Sane, ResultSound, ResultInv, Base, FilesShape
  <2>2. StateOf(result)[n] = st /\ OutOf(result)[n] = result.nodes[n].doc
    BY ResultFields
  <2>3. /\ AuditState(log, n) = "succeeded" <=> EndOf(log, n) = "WorkerFinished"
        /\ EndOf(log, n) = "Failure" => AuditState(log, n) = "failed"
        /\ EndOf(log, n) = "WorkerFinished" => Finished(log, n)
    <3>1. About(log, Ends, n) \subseteq About(log, Types, n)
      BY DEF About, Ends, Types
    <3>2. ASSUME About(log, Ends, n) # {}
          PROVE  /\ LastOf(log, Ends, n).type \in Ends
                 /\ LastOf(log, Ends, n).type = "WorkerFinished" => Finished(log, n)
      <4>1. PICK i \in About(log, Ends, n) : LastOf(log, Ends, n) = log[i]
        BY <2>1, <3>2, LastIsOne
      <4> QED
        BY <4>1 DEF About, Finished, Has
    <3>3. CASE About(log, Ends, n) = {}
      BY <3>3 DEF EndOf, AuditState
    <3>4. CASE About(log, Ends, n) # {}
      BY <3>1, <3>2, <3>4 DEF EndOf, AuditState, Ends
    <3> QED
      BY <3>3, <3>4
  <2>4. st = "succeeded" => /\ EndOf(log, n) = "WorkerFinished"
                            /\ LastHash(log, n) = result.nodes[n].doc
    BY <2>1, <2>2 DEF Agree, Succ, LogOK, Sound
  <2>5. EndOf(log, n) = "WorkerFinished" => st = "succeeded"
    BY <2>1, <2>2, <2>3 DEF Agree, Kept
  <2>6. st = "failed" => EndOf(log, n) = "Failure"
    BY <2>1, <2>2 DEF Agree, Failures
  <2> QED
    BY <2>3, <2>4, <2>5, <2>6
<1> QED
  BY <1>1, CoreInvariant, PTL

-----------------------------------------------------------------------------
(* What the record names is there: an artifact is stored before it is      *)
(* named, and a backup takes the artifacts first.                          *)

EventOK(e) ==
  /\ e.type \in Types /\ e.hash \in Docs \cup {NoDoc}
EventsOK(log) == \A e \in ToSet(log) : EventOK(e)
\* What the first k events name.
Named(log, k) ==
  { log[i].hash : i \in { j \in DOMAIN log : j <= k /\ log[j].type = "ArtifactCreated" } }

LEMMA NamedNow ==
  ASSUME NEW log, IsLog(log), NEW e
  PROVE  /\ Bundled(log \o <<e>>) \subseteq
              Bundled(log) \cup (IF e.type = "ArtifactCreated" THEN {e.hash} ELSE {})
         /\ \A k \in Nat : k <= Len(log) => Named(log \o <<e>>, k) \subseteq Named(log, k)
         /\ EventsOK(log) /\ EventOK(e) => EventsOK(log \o <<e>>)
<1> DEFINE new == log \o <<e>>
<1>1. /\ Len(log) \in Nat
      /\ DOMAIN new = DOMAIN log \cup {Len(log) + 1}
      /\ \A i \in DOMAIN log : new[i] = log[i]
      /\ new[Len(log) + 1] = e
  BY Appended
<1> HIDE DEF new
<1>2. ToSet(new) = ToSet(log) \cup {e}
  BY <1>1 DEF ToSet
<1>3. Bundled(new) \subseteq Bundled(log) \cup (IF e.type = "ArtifactCreated" THEN {e.hash} ELSE {})
  BY <1>2 DEF Bundled
<1>4. ASSUME NEW k \in Nat, k <= Len(log) PROVE Named(new, k) \subseteq Named(log, k)
  BY <1>1, <1>4 DEF Named
<1>5. EventsOK(log) /\ EventOK(e) => EventsOK(new)
  BY <1>2 DEF EventsOK
<1> QED
  BY <1>3, <1>4, <1>5 DEF new

LEMMA NamedAll ==
  ASSUME NEW log, IsLog(log)
  PROVE  Named(log, Len(log)) = Bundled(log) /\ Len(log) \in Nat
<1>1. DOMAIN log = 1..Len(log) /\ Len(log) \in Nat
  BY DEF IsLog
<1>2. Named(log, Len(log)) \subseteq Bundled(log)
  BY DEF Named, Bundled, ToSet
<1>3. ASSUME NEW h \in Bundled(log) PROVE h \in Named(log, Len(log))
  <2>1. PICK i \in DOMAIN log : h = log[i].hash /\ log[i].type = "ArtifactCreated"
    BY DEF Bundled, ToSet
  <2>2. i <= Len(log)
    BY <1>1
  <2> QED
    BY <2>1, <2>2 DEF Named
<1> QED
  BY <1>1, <1>2, <1>3

StoreOK == ~history.torn => Bundled(files.events) \subseteq files.store
InputsOK == files.snap => Missing(files.inputs) = {}
ArchiveOK ==
  /\ archive.taken \in {"no", "artifacts", "all"}
  /\ archive.taken = "artifacts" =>
       /\ archive.mark \in Nat /\ archive.mark <= Len(files.events)
       /\ ~archive.torn => Named(files.events, archive.mark) \subseteq archive.store
  /\ archive.taken = "all" =>
       /\ EventsOK(archive.record) /\ Len(archive.record) <= Len(files.events)
       /\ ~archive.torn /\ Len(archive.record) = archive.mark =>
            Bundled(archive.record) \subseteq archive.store
  /\ status = "new" => archive.taken = "no"
Recoverable == EventsOK(files.events) /\ StoreOK /\ InputsOK /\ ArchiveOK

\* The log grows by an event, of an artifact only if that is stored, or stays;
\* nothing is taken from the store.
Grows(e) ==
  /\ files'.events = files.events \o <<e>> /\ EventOK(e)
  /\ e.type = "ArtifactCreated" => e.hash \in files.store
  /\ e.type = "WorkerStarted" => Dispatch(e.node)
Stays == files'.events = files.events
OnlyGrows ==
  /\ UNCHANGED <<wf, archive>> /\ history'.torn = history.torn
  /\ status' = "new" => status = "new"
  /\ files'.snap = files.snap /\ files'.inputs = files.inputs /\ files.store \subseteq files'.store
  /\ Stays \/ \E e : Grows(e)

LEMMA NoteOK ==
  ASSUME NEW t \in Types, NEW n, NEW asks
  PROVE  EventOK(Note(t, n)) /\ EventOK(Checkpoint(t, n, asks))
BY NoteIs, CheckpointIs DEF EventOK

LEMMA RunOnlyGrows ==
  ASSUME Core, \/ \E n \in Ids : Decide(n) \/ Dispatch(n) \/ Work(n) \/ Complete(n) \/ Approve(n)
               \/ Return
  PROVE  OnlyGrows
<1>0. /\ Base /\ FilesShape /\ HistoryShape
      /\ \A n \in Ids : run.task[n].phase = "stored" /\ status = "running" =>
                          run.task[n].doc \in files.store /\ run.task[n].doc \in Docs
  BY DEF Core, Base, Underway, RunInv, Tasks, FilesShape
<1>1. ASSUME NEW n \in Ids, Decide(n) PROVE OnlyGrows
  BY <1>1 DEF Decide, OnlyGrows, Stays
<1>2. ASSUME NEW n \in Ids, Dispatch(n) PROVE OnlyGrows
  <2>1. PICK e : e = Note("WorkerStarted", n)
    OBVIOUS
  <2>2. e.node = n /\ e.type = "WorkerStarted" /\ EventOK(e)
    BY <2>1, NoteIs, NoteOK DEF Types
  <2>3. /\ files' = Written(<<e>>) /\ UNCHANGED <<wf, status, archive, history>>
    BY <1>2, <2>1 DEF Dispatch
  <2>4. Grows(e)
    BY <1>0, <1>2, <2>2, <2>3, WrittenIs DEF Grows
  <2> QED
    BY <1>0, <2>3, <2>4, WrittenIs DEF OnlyGrows
<1>3. ASSUME NEW n \in Ids, Work(n) PROVE OnlyGrows
  <2>1. UNCHANGED <<wf, status, archive, history>> /\ status = "running"
    BY <1>3 DEF Work
  <2>2. ASSUME NEW d, PutArtifact(n, d) PROVE OnlyGrows
    BY <1>0, <2>1, <2>2 DEF PutArtifact, OnlyGrows, Stays, FilesShape
  <2>3. ASSUME NEW e, files' = Written(<<e>>), EventOK(e),
               e.type = "ArtifactCreated" => e.hash \in files.store, e.type # "WorkerStarted"
        PROVE  OnlyGrows
    <3>1. Grows(e)
      BY <1>0, <2>3, WrittenIs DEF Grows
    <3> QED
      BY <1>0, <2>1, <2>3, <3>1, WrittenIs DEF OnlyGrows
  <2>4. CASE CreateArtifact(n)
    <3>1. PICK e : e = Event("ArtifactCreated", n, run.task[n].doc, <<>>)
      OBVIOUS
    <3>2. files' = Written(<<e>>) /\ run.task[n].phase = "stored"
      BY <2>4, <3>1 DEF CreateArtifact
    <3>3. e.type = "ArtifactCreated" /\ e.hash = run.task[n].doc
      BY <3>1 DEF Event
    <3> QED
      BY <1>0, <2>1, <2>3, <3>2, <3>3 DEF EventOK, Types
  <2>5. CASE Dies(n)
    <3>1. PICK e : e = Note("Failure", n)
      OBVIOUS
    <3>2. files' = Written(<<e>>) /\ e.type = "Failure" /\ EventOK(e)
      BY <2>5, <3>1, NoteIs, NoteOK DEF Dies, Obituary, Types
    <3> QED
      BY <2>3, <3>2
  <2>6. CASE Park(n)
    <3>1. PICK e : e = Checkpoint("ApprovalRequested", n, Doer(n))
      OBVIOUS
    <3>2. e.type = "ApprovalRequested" /\ EventOK(e)
      BY <3>1, CheckpointIs, NoteOK DEF Types
    <3>3. files' = Written(<<e>>) \/ files' = files
      BY <2>6, <3>1 DEF Park
    <3>4. CASE files' = files
      BY <2>1, <3>4 DEF OnlyGrows, Stays
    <3> QED
      BY <2>3, <3>2, <3>3, <3>4
  <2> QED
    BY <1>3, <2>2, <2>4, <2>5, <2>6 DEF Work, Substitute, Fail
<1>4. ASSUME NEW n \in Ids, Complete(n) PROVE OnlyGrows
  <2>1. PICK e : e = Event("WorkerFinished", n, NoDoc, HashesOf(Admitted(Doer(n), run.used[n])))
    OBVIOUS
  <2>2. e.type = "WorkerFinished" /\ e.hash = NoDoc
    BY <2>1 DEF Event
  <2>3. /\ files' = Written(<<e>>) /\ UNCHANGED <<wf, status, archive>>
        /\ history' = [history EXCEPT !.dropped = @ \ {n}]
    BY <1>4, <2>1 DEF Complete, Finish
  <2>4. Grows(e)
    BY <1>0, <2>2, <2>3, WrittenIs DEF Grows, EventOK, Types
  <2>5. history'.torn = history.torn
    BY <1>0, <2>3 DEF HistoryShape
  <2> QED
    BY <1>0, <2>3, <2>4, <2>5, WrittenIs DEF OnlyGrows
<1>5. ASSUME NEW n \in Ids, Approve(n) PROVE OnlyGrows
  <2>0. PICK asks : files' = Written(<<Checkpoint("ApprovalGranted", asks, n)>>)
    BY <1>5 DEF Approve
  <2>1. PICK e : e = Checkpoint("ApprovalGranted", asks, n)
    OBVIOUS
  <2>2. e.type = "ApprovalGranted" /\ EventOK(e)
    BY <2>1, CheckpointIs, NoteOK DEF Types
  <2>3. files' = Written(<<e>>) /\ UNCHANGED <<wf, status, archive, history>>
    BY <1>5, <2>0, <2>1 DEF Approve
  <2>4. Grows(e)
    BY <1>0, <2>2, <2>3, WrittenIs DEF Grows
  <2> QED
    BY <1>0, <2>3, <2>4, WrittenIs DEF OnlyGrows
<1>6. CASE Return
  <2>1. PICK e : e = Note("ExecutionFinished", "")
    OBVIOUS
  <2>2. e.type = "ExecutionFinished" /\ EventOK(e)
    BY <2>1, NoteIs, NoteOK DEF Types
  <2>3. files' = Written(<<e>>) /\ UNCHANGED <<wf, archive, history>> /\ status' = "returned"
    BY <1>6, <2>1 DEF Return
  <2>4. Grows(e)
    BY <1>0, <2>2, <2>3, WrittenIs DEF Grows
  <2> QED
    BY <1>0, <2>3, <2>4, WrittenIs DEF OnlyGrows
<1> QED
  BY <1>1, <1>2, <1>3, <1>4, <1>5, <1>6

LEMMA RestOnlyGrows ==
  ASSUME Core, \/ Refuse \/ Crash \/ Resume \/ (\E n \in Ids : ResumeFrom(n)) \/ UNCHANGED vars
  PROVE  OnlyGrows
<1>0. HistoryShape
  BY DEF Core, Base
<1>1. CASE Refuse
  BY <1>1 DEF Refuse, OnlyGrows, Stays
<1>2. CASE Crash
  BY <1>0, <1>2 DEF Crash, OnlyGrows, Stays, HistoryShape
<1>3. ASSUME NEW again, Rerun(again) PROVE OnlyGrows
  <2>1. UNCHANGED <<wf, files, archive>> /\ history'.torn = history.torn /\ AtRest
    BY <1>0, <1>3 DEF Rerun, HistoryShape
  <2>2. status' # "new"
    BY <1>3, <2>1 DEF Rerun, AtRest
  <2> QED
    BY <2>1, <2>2 DEF OnlyGrows, Stays
<1>4. CASE UNCHANGED vars
  BY <1>4 DEF vars, OnlyGrows, Stays
<1> QED
  BY <1>1, <1>2, <1>3, <1>4 DEF Resume, ResumeFrom

LEMMA GrowthKeeps == ASSUME Core, Recoverable, OnlyGrows PROVE Recoverable'
<1>1. IsLog(files.events) /\ wf' = wf /\ Len(files.events) \in Nat
  BY NamedAll DEF Core, Base, FilesShape, OnlyGrows
<1>2. InputsOK'
  <2>1. PICK ins : ins = files.inputs
    OBVIOUS
  <2>2. Missing(ins)' = Missing(ins) /\ files.inputs' = ins
    BY <1>1, <2>1, SameGraph DEF OnlyGrows
  <2> QED
    BY <2>1, <2>2 DEF Recoverable, InputsOK, OnlyGrows
<1>3. CASE Stays
  <2>1. files.events' = files.events /\ files.store \subseteq files.store'
        /\ history.torn' = history.torn /\ archive' = archive
    BY <1>3 DEF Stays, OnlyGrows
  <2>2. EventsOK(files.events)' /\ StoreOK'
    BY <2>1 DEF Recoverable, StoreOK, EventsOK
  <2>3. ArchiveOK'
    BY <2>1 DEF Recoverable, ArchiveOK, OnlyGrows, EventsOK
  <2> QED
    BY <1>2, <2>2, <2>3 DEF Recoverable
<1>4. ASSUME NEW e, Grows(e) PROVE Recoverable'
  <2>1. PICK new : new = files.events \o <<e>>
    OBVIOUS
  <2>2. /\ files.events' = new /\ files.store \subseteq files.store'
        /\ history.torn' = history.torn /\ archive' = archive
    BY <1>4, <2>1 DEF Grows, OnlyGrows
  <2>3. /\ Bundled(new) \subseteq
              Bundled(files.events) \cup (IF e.type = "ArtifactCreated" THEN {e.hash} ELSE {})
        /\ \A k \in Nat : k <= Len(files.events) => Named(new, k) \subseteq Named(files.events, k)
        /\ EventsOK(files.events) /\ EventOK(e) => EventsOK(new)
        /\ Len(new) = Len(files.events) + 1
    BY <1>1, <2>1, NamedNow, Appended
  <2>4. EventsOK(files.events)'
    BY <1>4, <2>2, <2>3 DEF Recoverable, Grows, EventsOK
  <2>5. StoreOK'
    <3>1. ASSUME ~history.torn' PROVE Bundled(new) \subseteq files.store'
      BY <1>4, <2>2, <2>3, <3>1 DEF Recoverable, StoreOK, Grows
    <3> QED
      BY <2>2, <3>1 DEF StoreOK
  <2>6. ArchiveOK'
    <3>1. archive.taken = "artifacts" =>
            /\ archive.mark \in Nat /\ archive.mark <= Len(new)
            /\ ~archive.torn => Named(new, archive.mark) \subseteq archive.store
      BY <1>1, <2>3 DEF Recoverable, ArchiveOK
    <3>2. archive.taken = "all" => Len(archive.record) <= Len(new)
      <4>1. ASSUME archive.taken = "all" PROVE Len(archive.record) \in Nat
        BY <4>1, NamedAll DEF Core, ArchiveSound
      <4> QED
        BY <1>1, <2>3, <4>1 DEF Recoverable, ArchiveOK
    <3> QED
      BY <2>2, <3>1, <3>2 DEF Recoverable, ArchiveOK, OnlyGrows, EventsOK
  <2> QED
    BY <1>2, <2>4, <2>5, <2>6 DEF Recoverable
<1> QED
  BY <1>3, <1>4 DEF OnlyGrows

\* What a value that was supplied or has a default satisfies (inputs.go).
LEMMA BoundOnce == ASSUME NEW supplied PROVE Missing(Bound(supplied)) = Missing(supplied)
BY DEF Missing, Bound

LEMMA StartKeeps ==
  ASSUME Core, Recoverable, NEW supplied, Start(supplied), UNCHANGED wf,
         archive'.taken = "no", archive' = archive \/ archive' = NoArchive,
         status' = "refused" => history'.torn = history.torn
  PROVE  Recoverable'
<1>0. wf' = wf /\ FilesShape
  BY DEF Core, Base
<1>1. ArchiveOK'
  BY DEF ArchiveOK
<1>2. CASE Missing(supplied) # {}
  <2>1. UNCHANGED files /\ history'.torn = history.torn
    BY <1>2 DEF Start
  <2>2. PICK ins : ins = files.inputs
    OBVIOUS
  <2>3. Missing(ins)' = Missing(ins)
    BY <1>0, SameGraph
  <2>4. InputsOK'
    BY <2>1, <2>2, <2>3 DEF Recoverable, InputsOK
  <2> QED
    BY <1>1, <2>1, <2>4 DEF Recoverable, StoreOK, EventsOK
<1>3. CASE Missing(supplied) = {}
  <2>1. PICK e : e = Note("ExecutionStarted", "")
    OBVIOUS
  <2>2. e.type = "ExecutionStarted" /\ EventOK(e)
    BY <2>1, NoteIs, NoteOK DEF Types
  <2>3. files' = [files EXCEPT !.snap = TRUE, !.inputs = Bound(supplied), !.events = <<e>>]
    BY <1>3, <2>1 DEF Start
  <2>4. PICK new, ins : new = <<e>> /\ ins = Bound(supplied)
    OBVIOUS
  <2>5. files.events' = new /\ files.inputs' = ins
    BY <1>0, <2>3, <2>4 DEF FilesShape
  <2>6. ToSet(new) = {e}
    BY <2>4 DEF ToSet
  <2>7. EventsOK(new) /\ Bundled(new) = {}
    BY <2>2, <2>6 DEF EventsOK, Bundled
  <2>8. EventsOK(files.events)' /\ StoreOK'
    BY <2>5, <2>7 DEF EventsOK, StoreOK
  <2>9. Missing(ins) = {} /\ Missing(ins)' = Missing(ins)
    BY <1>0, <1>3, <2>4, BoundOnce, SameGraph
  <2>10. InputsOK'
    BY <2>5, <2>9 DEF InputsOK
  <2> QED
    BY <1>1, <2>8, <2>10 DEF Recoverable
<1> QED
  BY <1>2, <1>3

LEMMA ArchivingKeeps ==
  ASSUME Core, Recoverable, BackUpArtifacts \/ BackUpExecution
  PROVE  Recoverable'
<1>1. /\ UNCHANGED <<wf, status, files>> /\ history'.torn = history.torn /\ wf' = wf
      /\ status # "new" \/ archive.taken = "no"
      /\ IsLog(files.events) /\ Core
  BY DEF Core, Base, BackUpArtifacts, BackUpExecution, HistoryShape, FilesShape, Recoverable, ArchiveOK
<1>2. InputsOK'
  <2>1. PICK ins : ins = files.inputs
    OBVIOUS
  <2>2. Missing(ins)' = Missing(ins)
    BY <1>1, SameGraph
  <2> QED
    BY <1>1, <2>1, <2>2 DEF Recoverable, InputsOK
<1>3. EventsOK(files.events)' /\ StoreOK'
  BY <1>1 DEF Recoverable, StoreOK, EventsOK
<1>4. Named(files.events, Len(files.events)) = Bundled(files.events) /\ Len(files.events) \in Nat
  BY <1>1, NamedAll
<1>5. CASE BackUpArtifacts
  <2>1. /\ archive'.taken = "artifacts" /\ archive'.store = files.store
        /\ archive'.mark = Len(files.events) /\ archive'.torn = history.torn
        /\ status # "new"
    BY <1>5 DEF BackUpArtifacts, NoArchive
  <2>2. ~archive'.torn => Named(files.events, archive'.mark) \subseteq archive'.store
    BY <1>4, <2>1 DEF Recoverable, StoreOK
  <2>3. ArchiveOK'
    BY <1>1, <1>4, <2>1, <2>2 DEF ArchiveOK
  <2> QED
    BY <1>2, <1>3, <2>3 DEF Recoverable
<1>6. CASE BackUpExecution
  <2>1. /\ archive'.taken = "all" /\ archive'.record = files.events
        /\ archive'.store = archive.store /\ archive'.mark = archive.mark
        /\ archive'.torn = archive.torn /\ archive.taken = "artifacts"
    BY <1>6 DEF BackUpExecution, Core, ArchiveShape
  <2>2. ~archive'.torn /\ Len(archive'.record) = archive'.mark =>
          Bundled(files.events) \subseteq archive'.store
    BY <1>4, <2>1 DEF Recoverable, ArchiveOK
  <2>3. status # "new"
    BY <2>1 DEF Recoverable, ArchiveOK
  <2>4. EventsOK(archive.record)'
    BY <2>1 DEF Recoverable, EventsOK
  <2>5. ArchiveOK'
    BY <1>1, <1>4, <2>1, <2>2, <2>3, <2>4 DEF ArchiveOK
  <2> QED
    BY <1>2, <1>3, <2>5 DEF Recoverable
<1> QED
  BY <1>5, <1>6

LEMMA RestoreKeeps ==
  ASSUME Core, Recoverable, NEW over \in {{}, files.store}, Restore(over)
  PROVE  Recoverable'
<1>1. /\ archive.taken = "all" /\ wf' = wf
      /\ files' = [files EXCEPT !.events = archive.record, !.store = over \cup archive.store]
      /\ status' = "down" /\ archive' = NoArchive /\ FilesShape /\ HistoryShape
      /\ history' = [history EXCEPT !.dropped = archive.dropped, !.crashed = TRUE,
                       !.torn = archive.torn \/ Len(archive.record) # archive.mark]
  BY DEF Restore, Core, Base
<1>2. /\ files.events' = archive.record /\ archive.store \subseteq files.store'
      /\ files'.snap = files.snap /\ files'.inputs = files.inputs
      /\ history'.torn <=> archive.torn \/ Len(archive.record) # archive.mark
  BY <1>1 DEF FilesShape, HistoryShape
<1>3. EventsOK(files.events)'
  BY <1>1, <1>2 DEF Recoverable, ArchiveOK, EventsOK
<1>4. StoreOK'
  BY <1>1, <1>2 DEF Recoverable, ArchiveOK, StoreOK
<1>5. InputsOK'
  <2>1. PICK ins : ins = files.inputs
    OBVIOUS
  <2>2. Missing(ins)' = Missing(ins)
    BY <1>1, SameGraph
  <2> QED
    BY <1>2, <2>1, <2>2 DEF Recoverable, InputsOK
<1>6. ArchiveOK'
  BY <1>1 DEF ArchiveOK, NoArchive
<1> QED
  BY <1>3, <1>4, <1>5, <1>6 DEF Recoverable

LEMMA RecoverableInit == Init => Recoverable
<1> SUFFICES ASSUME Init PROVE Recoverable
  OBVIOUS
<1>1. files.events = <<>> /\ ToSet(files.events) = {}
  BY DEF Init, ToSet
<1>2. EventsOK(files.events) /\ StoreOK
  BY <1>1 DEF EventsOK, StoreOK, Bundled
<1>3. InputsOK /\ ArchiveOK
  BY DEF Init, InputsOK, ArchiveOK, NoArchive
<1> QED
  BY <1>2, <1>3 DEF Recoverable

LEMMA RecoverableStep == Core /\ Recoverable /\ [Next \/ Quiet]_vars => Recoverable'
<1> SUFFICES ASSUME Core, Recoverable, [Next \/ Quiet]_vars PROVE Recoverable'
  OBVIOUS
<1>1. CASE Run
  <2>1. /\ Start(wf.supplied) /\ UNCHANGED <<wf, archive, history>> /\ archive.taken = "no"
    BY <1>1 DEF Run, Recoverable, ArchiveOK
  <2> QED
    BY <2>1, StartKeeps
<1>2. CASE Reexecute
  <2>1. /\ Start({}) /\ UNCHANGED wf /\ archive' = NoArchive /\ archive'.taken = "no"
        /\ status' = "refused" => history'.torn = history.torn
    BY <1>2 DEF Reexecute, NoArchive, Core, Base, HistoryShape
  <2> QED
    BY <2>1, StartKeeps
<1>3. CASE \/ \E n \in Ids : Decide(n) \/ Dispatch(n) \/ Work(n) \/ Complete(n) \/ Approve(n)
           \/ Return
  BY <1>3, RunOnlyGrows, GrowthKeeps
<1>4. CASE Refuse \/ Crash \/ Resume \/ (\E n \in Ids : ResumeFrom(n)) \/ UNCHANGED vars
  BY <1>4, RestOnlyGrows, GrowthKeeps
<1>5. CASE BackUpArtifacts \/ BackUpExecution
  BY <1>5, ArchivingKeeps
<1>6. CASE \E over \in {{}, files.store} : Restore(over)
  BY <1>6, RestoreKeeps
<1> QED
  BY <1>1, <1>2, <1>3, <1>4, <1>5, <1>6 DEF Next, Quiet

LEMMA RecoverableAlways == Spec => [](Core /\ Recoverable)
<1>1. Init => Core /\ Recoverable
  BY CoreInit, RecoverableInit
<1>2. Core /\ Recoverable /\ [Next \/ Quiet]_vars => (Core /\ Recoverable)'
  BY CoreStep, RecoverableStep
<1> QED
  BY <1>1, <1>2, PTL DEF Spec

\* Whatever was cut short, what a resume, an audit and a bundle read is there
\* (resume.go:87, audit.go:87, backup.go:86): the artifacts the events name and
\* the inputs the workflow requires, unless a restored backup was made while
\* events were written.
THEOREM RecordsSuffice == Spec => []RecordSuffices
<1>1. Core /\ Recoverable => RecordSuffices
  <2> SUFFICES ASSUME Core, Recoverable PROVE RecordSuffices
    OBVIOUS
  <2> QED
    BY DEF Recoverable, StoreOK, InputsOK, RecordSuffices
<1> QED
  BY <1>1, RecoverableAlways, PTL

\* A new start in a log that only grows is a dispatch.
LEMMA StartIsDispatch ==
  ASSUME Core, OnlyGrows, NEW n \in Ids,
         NEW i \in About(files.events', {"WorkerStarted"}, n), i > Len(files.events)
  PROVE  n \in run.ready /\ status = "running"
<1>1. PICK log : log = files.events /\ IsLog(log)
  BY DEF Core, Base, FilesShape
<1>2. DOMAIN log = 1..Len(log) /\ Len(log) \in Nat
  BY <1>1, Appended
<1>3. i \in DOMAIN (files.events') /\ (files.events')[i].type = "WorkerStarted"
      /\ (files.events')[i].node = n
  BY DEF About
<1>4. CASE Stays
  BY <1>1, <1>2, <1>3, <1>4 DEF Stays
<1>5. ASSUME NEW e, Grows(e) PROVE n \in run.ready /\ status = "running"
  <2>1. files.events' = log \o <<e>>
    BY <1>1, <1>5 DEF Grows
  <2>2. /\ DOMAIN (log \o <<e>>) = DOMAIN log \cup {Len(log) + 1}
        /\ (log \o <<e>>)[Len(log) + 1] = e
    BY <1>1, Appended
  <2>3. i = Len(log) + 1
    BY <1>1, <1>2, <1>3, <2>1, <2>2
  <2>4. e.type = "WorkerStarted" /\ e.node = n
    BY <1>3, <2>1, <2>2, <2>3
  <2>5. Dispatch(e.node)
    BY <1>5, <2>4 DEF Grows
  <2> QED
    BY <2>4, <2>5 DEF Dispatch
<1> QED
  BY <1>4, <1>5 DEF OnlyGrows

\* A node that finished is not in the queue, unless it was retried.
LEMMA ReadyIsNew ==
  ASSUME Core, NEW n \in Ids, n \in run.ready, status = "running", Reusable(files.events, n)
  PROVE  n \in history.dropped
<1>1. Kept(run.state, files.events, history.dropped) /\ Queued(run)
  BY DEF Core, Underway, RunInv, Agree
<1>2. run.state[n] = "running"
  BY <1>1 DEF Queued
<1> QED
  BY <1>1, <1>2 DEF Kept, Reusable

LEMMA RepeatStep ==
  ASSUME Core, Recoverable, [Next \/ Quiet]_vars, NEW n \in Ids,
         NEW i \in About(files.events', {"WorkerStarted"}, n), i > Len(files.events),
         Reusable(files.events, n)
  PROVE  n \in history.dropped
<1>0. FilesShape /\ i \in DOMAIN (files.events') /\ (files.events')[i].type = "WorkerStarted"
  BY DEF Core, Base, About
<1>1. CASE OnlyGrows
  BY <1>1, StartIsDispatch, ReadyIsNew
<1>2. ASSUME NEW supplied, Start(supplied) PROVE FALSE
  <2>1. CASE UNCHANGED files
    <3>1. DOMAIN files.events = 1..Len(files.events) /\ Len(files.events) \in Nat
      BY <1>0, Appended DEF FilesShape
    <3> QED
      BY <1>0, <2>1, <3>1
  <2>2. CASE files' = [files EXCEPT !.snap = TRUE, !.inputs = Bound(supplied),
                                   !.events = <<Note("ExecutionStarted", "")>>]
    <3>1. PICK e : e = Note("ExecutionStarted", "")
      OBVIOUS
    <3>2. e.type = "ExecutionStarted" /\ files.events' = <<e>>
      BY <1>0, <2>2, <3>1, NoteIs DEF FilesShape
    <3> QED
      BY <1>0, <3>2
  <2> QED
    BY <1>2, <2>1, <2>2 DEF Start
<1>3. CASE BackUpArtifacts \/ BackUpExecution
  <2>1. files' = files
    BY <1>3 DEF BackUpArtifacts, BackUpExecution
  <2>2. DOMAIN files.events = 1..Len(files.events) /\ Len(files.events) \in Nat
    BY <1>0, Appended DEF FilesShape
  <2> QED
    BY <1>0, <2>1, <2>2
<1>4. ASSUME NEW over, Restore(over) PROVE FALSE
  <2>1. files.events' = archive.record /\ archive.taken = "all"
    BY <1>0, <1>4 DEF Restore, FilesShape
  <2>2. Len(archive.record) <= Len(files.events) /\ IsLog(archive.record)
    BY <2>1 DEF Recoverable, ArchiveOK, Core, ArchiveSound
  <2>3. /\ DOMAIN archive.record = 1..Len(archive.record) /\ Len(archive.record) \in Nat
        /\ Len(files.events) \in Nat
    BY <1>0, <2>2, Appended DEF FilesShape
  <2> QED
    BY <1>0, <2>1, <2>2, <2>3
<1> QED
  BY <1>1, <1>2, <1>3, <1>4, RunOnlyGrows, RestOnlyGrows DEF Next, Quiet, Run, Reexecute

\* A node with a recorded WorkerFinished and an artifact is not started again
\* (REQ-RUNTIME-06, resume.go:40), unless it was retried.
THEOREM NotRepeated == Spec => FinishedNotRepeated
<1>1. Core /\ Recoverable /\ [Next \/ Quiet]_vars =>
        [\A n \in Ids : /\ \E i \in About(files.events', {"WorkerStarted"}, n) :
                             i > Len(files.events)
                        /\ Reusable(files.events, n)
           => n \in history.dropped]_vars
  BY RepeatStep
<1> QED
  BY <1>1, RecoverableAlways, PTL DEF Spec, FinishedNotRepeated

-----------------------------------------------------------------------------
(* Of a valid graph only what is behind a fallback node is not decided.    *)

\* Of some nodes of a graph without a cycle one has no parent among them
\* (findCycle, graph.go:111).
LEMMA SomeFirst ==
  ASSUME wf \in Workflows, NoCycle, NEW U \in SUBSET Ids, U # {}
  PROVE  \E n \in U : ParentsOf(n) \cap U = {}
<1> DEFINE size(n) == Cardinality(AncestorsOf(n))
           D == { size(n) : n \in U }
<1>1. \A n : IsFiniteSet(AncestorsOf(n)) /\ size(n) \in Nat
  <2>1. \A n : AncestorsOf(n) \in SUBSET Ids
    BY DEF AncestorsOf
  <2>2. \A n : IsFiniteSet(AncestorsOf(n))
    BY <2>1, IdsFinite, FS_Subset
  <2> QED
    BY <2>2, FS_CardinalityType
<1> HIDE DEF size
<1>2. D \in SUBSET Nat /\ D # {}
  BY <1>1
<1>3. IsWellFoundedOn(Later, Nat)
  BY NatLessThanWellFounded DEF OpToRel, Later
<1>4. PICK d \in D : \A c \in D : <<c, d>> \notin Later
  <2> HIDE DEF D
  <2> QED
    BY <1>2, <1>3, WFMin
<1>5. PICK n \in U : d = size(n)
  BY <1>4
<1>6. ASSUME NEW p \in ParentsOf(n), p \in U PROVE FALSE
  <2>1. p \in AncestorsOf(n) /\ AncestorsOf(p) \in SUBSET AncestorsOf(n) /\ p \notin AncestorsOf(p)
    BY <1>6, Upstream DEF NoCycle
  <2>2. size(p) <= size(n) /\ size(p) # size(n)
    BY <1>1, <2>1, FS_Subset DEF size
  <2>3. size(p) \in Nat /\ size(n) \in Nat /\ size(p) < size(n)
    BY <1>1, <2>2
  <2>4. <<size(p), size(n)>> \in Nat \X Nat /\ <<size(p), size(n)>>[1] = size(p)
        /\ <<size(p), size(n)>>[2] = size(n)
    BY <2>3
  <2>5. <<size(p), size(n)>> \in Later
    BY <2>3, <2>4 DEF Later
  <2>6. size(p) \in D
    BY <1>6
  <2> QED
    BY <1>4, <1>5, <2>5, <2>6
<1> QED
  BY <1>6

\* When a run that nothing halted has nothing left to do, a node of a graph
\* without a cycle that is not decided (ErrIncompleteGraph, scheduler.go:511) is
\* behind a fallback node that was not seeded (scheduler.go:373).
LEMMA Stranded ==
  ASSUME Core, status = "running", Returns, ~Halted, NoCycle,
         NEW n \in Ids, Final(n) = "pending"
  PROVE  \E f \in AncestorsOf(n) \cap FallbackOnly :
           Final(f) = "skipped" /\ \A p \in ParentsOf(f) : Final(p) = "succeeded"
<1>1. RunShape(run) /\ Queued(run) /\ NotLost(run) /\ wf \in Workflows
  BY DEF Core, Base, Underway, RunInv, Flow
<1>2. run.ready = {} /\ run.due = {} /\ \A m \in Ids : run.task[m].phase = "none"
  BY <1>1 DEF Returns, InFlight, RunShape
<1>3. \A m \in Ids : run.state[m] \in States /\ run.state[m] # "running"
  BY <1>1, <1>2 DEF Queued, RunShape
<1> DEFINE U == { m \in Ids : run.state[m] = "pending" /\ m \in {n} \cup AncestorsOf(n) }
<1>4. n \in U /\ U \in SUBSET Ids /\ n \notin FallbackOnly
  BY DEF Final
<1>5. PICK f \in U : ParentsOf(f) \cap U = {}
  <2> HIDE DEF U
  <2> QED
    BY <1>1, <1>4, SomeFirst
<1>6. \A p \in ParentsOf(f) : Settled(run.state, p)
  <2> SUFFICES ASSUME NEW p \in ParentsOf(f) PROVE Settled(run.state, p)
    OBVIOUS
  <2>1. p \in Ids
    BY EdgeEnds
  <2>2. p \in AncestorsOf(n)
    BY <1>5, <2>1 DEF AncestorsOf, Closed
  <2>3. run.state[p] # "pending"
    BY <1>5, <2>1, <2>2
  <2> QED
    BY <1>3, <2>1, <2>3 DEF Settled, States
<1>7. f \in Ids /\ run.state[f] = "pending" /\ f \in {n} \cup AncestorsOf(n)
  BY <1>5
<1>8. f \in FallbackOnly /\ \A p \in ParentsOf(f) : run.state[p] = "succeeded"
  BY <1>1, <1>2, <1>6, <1>7 DEF NotLost, Halted, Unseeded
<1>9. f \in AncestorsOf(n)
  BY <1>4, <1>7, <1>8
<1> QED
  BY <1>7, <1>8, <1>9 DEF Final

\* Who changes the workflow, the result and the status.
LEMMA Moves ==
  ASSUME [Next \/ Quiet]_vars
  PROVE  /\ wf' = wf
         /\ \/ result' \in {result, NoResult, Failed("inputs"), Failed("reload")} \/ Return
         /\ status \in {"new", "refused"} /\ status' \notin {"new", "refused"} => Accepted
<1> DEFINE goal == /\ wf' = wf
                   /\ \/ result' \in {result, NoResult, Failed("inputs"), Failed("reload")}
                      \/ Return
                   /\ status \in {"new", "refused"} /\ status' \notin {"new", "refused"} => Accepted
<1>1. ASSUME Refuse \/ Return \/ Crash PROVE goal
  BY <1>1 DEF Refuse, Return, Crash
<1>2. ASSUME Run \/ Reexecute PROVE goal
  BY <1>2 DEF Run, Reexecute, Start
<1>3. ASSUME NEW again, Rerun(again) PROVE goal
  BY <1>3 DEF Rerun, AtRest
<1>4. ASSUME NEW n \in Ids, Decide(n) \/ Dispatch(n) \/ Work(n) \/ Complete(n) \/ Approve(n)
      PROVE  goal
  BY <1>4 DEF Decide, Dispatch, Work, Complete, Approve
<1>5. ASSUME BackUpArtifacts \/ BackUpExecution \/ UNCHANGED vars PROVE goal
  BY <1>5 DEF BackUpArtifacts, BackUpExecution, vars
<1>6. ASSUME NEW over, Restore(over) PROVE goal
  BY <1>6 DEF Restore, AtRest
<1> HIDE DEF goal
<1>7. goal
  BY <1>1, <1>2, <1>3, <1>4, <1>5, <1>6 DEF Next, Quiet, Resume, ResumeFrom
<1> QED
  BY <1>7 DEF goal

\* A graph the command line let pass has no cycle, now as when it looked.  Of a
\* result that says the scheduler could not decide it, what it says.
Checked == wf.entry = "cli" /\ status \notin {"new", "refused"} => NoCycle
Strands(nodes) ==
  \A n \in Ids : nodes[n].state = "pending" =>
    \E f \in AncestorsOf(n) \cap FallbackOnly :
      /\ nodes[f].state = "skipped"
      /\ \A p \in ParentsOf(f) : nodes[p].state = "succeeded"
Told ==
  /\ result.cause \in {"none", "approval", "node", "edge", "incomplete", "inputs", "reload"}
  /\ wf.entry = "cli" /\ result.cause = "incomplete" => Strands(result.nodes)

LEMMA SameStrands == ASSUME wf' = wf PROVE \A nodes : Strands(nodes)' <=> Strands(nodes)
BY SameGraph DEF Strands

LEMMA ToldNow ==
  ASSUME wf' = wf, NEW cause, NEW nodes, cause = result'.cause, nodes = result'.nodes,
         cause \in {"none", "approval", "node", "edge", "incomplete", "inputs", "reload"},
         wf.entry = "cli" /\ cause = "incomplete" => Strands(nodes)
  PROVE  Told'
<1>1. Strands(nodes)' <=> Strands(nodes)
  BY SameStrands
<1>2. wf'.entry = "cli" /\ cause = "incomplete" => Strands(nodes)'
  BY <1>1
<1> QED
  BY <1>2 DEF Told

LEMMA ToldAlways == Spec => [](Core /\ Recoverable /\ Checked /\ Told)
<1>1. Init => Checked /\ Told
  BY DEF Init, Checked, Told, NoResult
<1>2. ASSUME Core, Checked, Told, [Next \/ Quiet]_vars PROVE Checked' /\ Told'
  <2>0. wf' = wf /\ wf.entry' = wf.entry
    BY <1>2, Moves
  <2>1. NoCycle' <=> NoCycle
    BY <2>0, SameGraph DEF NoCycle
  <2>2. Checked'
    <3>1. wf.entry = "cli" /\ status' \notin {"new", "refused"} => NoCycle
      BY <1>2, Moves DEF Checked, Accepted, Graph
    <3> QED
      BY <2>0, <2>1, <3>1 DEF Checked
  <2>3. PICK cause, nodes : cause = result'.cause /\ nodes = result'.nodes
    OBVIOUS
  <2>4. CASE result' = result
    <3>1. cause = result.cause /\ nodes = result.nodes
      BY <2>3, <2>4
    <3> QED
      BY <1>2, <2>0, <2>2, <2>3, <3>1, ToldNow DEF Told
  <2>5. CASE result' \in {NoResult, Failed("inputs"), Failed("reload")}
    <3>0. Failed("inputs").cause = "inputs" /\ Failed("reload").cause = "reload"
          /\ NoResult.cause = "none"
      BY DEF Failed, NoResult
    <3>1. cause \in {"none", "inputs", "reload"}
      BY <2>3, <2>5, <3>0
    <3> QED
      BY <2>0, <2>2, <2>3, <3>1, ToldNow
  <2>6. CASE Return
    <3>1. /\ status = "running" /\ Returns
          /\ cause = (IF ~Halted /\ Unresolved THEN "incomplete" ELSE run.cause)
          /\ nodes = [n \in Ids |-> [state |-> Final(n), doc |-> run.out[n]]]
      BY <2>3, <2>6 DEF Return
    <3>2. run.cause \in Causes
      BY <1>2, <3>1 DEF Core, Underway, RunInv, RunShape
    <3>3. cause \in {"none", "approval", "node", "edge", "incomplete", "inputs", "reload"}
      BY <3>1, <3>2 DEF Causes
    <3>4. ASSUME wf.entry = "cli", cause = "incomplete" PROVE Strands(nodes)
      <4>1. NoCycle /\ ~Halted
        BY <1>2, <3>1, <3>2, <3>4 DEF Checked, Causes
      <4>2. \A n \in Ids : nodes[n].state = Final(n)
        BY <3>1
      <4> SUFFICES ASSUME NEW n \in Ids, nodes[n].state = "pending"
                   PROVE  \E f \in AncestorsOf(n) \cap FallbackOnly :
                            /\ nodes[f].state = "skipped"
                            /\ \A p \in ParentsOf(f) : nodes[p].state = "succeeded"
        BY DEF Strands
      <4>3. PICK f \in AncestorsOf(n) \cap FallbackOnly :
              Final(f) = "skipped" /\ \A p \in ParentsOf(f) : Final(p) = "succeeded"
        BY <1>2, <3>1, <4>1, <4>2, Stranded
      <4>4. f \in Ids /\ ParentsOf(f) \subseteq Ids
        BY <4>3, EdgeEnds DEF AncestorsOf
      <4> QED
        BY <4>2, <4>3, <4>4
    <3> QED
      BY <2>0, <2>2, <2>3, <3>3, <3>4, ToldNow
  <2> QED
    BY <1>2, <2>4, <2>5, <2>6, Moves
<1> QED
  BY <1>1, <1>2, RecoverableAlways, PTL DEF Spec

\* Of a workflow the command line accepted (cmd/validate.go:61) a run leaves a
\* node undecided (scheduler.go:511) only behind a fallback node that was not
\* seeded and was skipped at the end (scheduler.go:373, 479).
THEOREM FallbacksStrand == Spec => []OnlyFallbacksStrand
<1>1. Told => OnlyFallbacksStrand
  BY DEF Told, Strands, OnlyFallbacksStrand
<1> QED
  BY <1>1, ToldAlways, PTL

\* The type of every variable; a node reused or finished has its document
\* (resume.go:87, scheduler.go:437), and a task a node that runs.
THEOREM TypeCorrect == Spec => []TypeOK
<1>1. Core /\ Recoverable /\ Told => TypeOK
  <2> SUFFICES ASSUME Core, Recoverable, Told PROVE TypeOK
    OBVIOUS
  <2>1. /\ status \in {"new", "refused", "running", "returned", "down"}
        /\ files.store \subseteq Docs \ TooLarge /\ history.dropped \subseteq Ids
    BY DEF Core, Base, FilesShape, HistoryShape, Statuses
  <2>2. \A e \in ToSet(files.events) : e.type \in Types /\ e.hash \in Docs \cup {NoDoc}
    BY DEF Recoverable, EventsOK, EventOK
  <2>3. ASSUME status = "running"
        PROVE  /\ run.due \cup run.ready \subseteq Ids
               /\ run.cause \in {"none", "approval", "node", "edge"}
               /\ Cardinality(InFlight) <= Slots
               /\ \A n \in Ids :
                    /\ run.state[n] \in {"pending", "running", "succeeded", "failed", "skipped"}
                    /\ (run.state[n] = "succeeded") = (run.out[n] # NoDoc)
                    /\ run.task[n].phase # "none" => run.state[n] = "running"
    <3>1. RunInv(run, files.events, files.store, history.dropped) /\ Sane
      BY <2>3 DEF Core, Underway
    <3>2. /\ run.due \cup run.ready \subseteq Ids
          /\ run.cause \in {"none", "approval", "node", "edge"}
          /\ \A n \in Ids : run.state[n] \in {"pending", "running", "succeeded", "failed", "skipped"}
      BY <3>1 DEF RunInv, RunShape, Causes, States
    <3>3. Cardinality(InFlight) <= Slots
      BY <3>1 DEF RunInv, InFlight, Busy
    <3>4. ASSUME NEW n \in Ids PROVE (run.state[n] = "succeeded") = (run.out[n] # NoDoc)
      <4>1. IF run.state[n] = "succeeded"
              THEN Finished(files.events, n) /\ run.out[n] = LastHash(files.events, n)
              ELSE run.out[n] = NoDoc
        BY <3>1 DEF RunInv, Agree, Succ
      <4>2. Finished(files.events, n) => LastHash(files.events, n) # NoDoc
        BY <3>1, SubmissionsAssumption DEF Sane, LogOK
      <4> QED
        BY <4>1, <4>2
    <3>5. \A n \in Ids : run.task[n].phase # "none" => run.state[n] = "running"
      BY <3>1 DEF RunInv, Tasks
    <3> QED
      BY <3>2, <3>3, <3>4, <3>5
  <2> QED
    BY <2>1, <2>2, <2>3 DEF TypeOK, Told
<1> QED
  BY <1>1, ToldAlways, PTL

-----------------------------------------------------------------------------
(* Every way out of a node's run leaves an end in the record, or a request *)
(* for an approval.                                                        *)

\* What the record shows as running waits for an approval, or is busy.
Accounted(log, n) == n \in RunningNodes(log) => Asked(log, n) # {}
Open(log, busy) == \A n \in Ids \ busy : Accounted(log, n)
AtWork(st, r) == IF st = "running" THEN Busy(r) ELSE {}
\* What a run knows of its requests, and of the nodes that failed once, is in
\* the record.
Remembered(r, log) ==
  /\ \A n \in r.asked : Asked(log, n) # {}
  /\ \A n \in r.tried : Has(log, "Failure", n)
Quitted ==
  /\ ~history.crashed => Open(files.events, AtWork(status, run))
  /\ status = "down" => history.crashed
  /\ status = "running" => Remembered(run, files.events)

LEMMA AskedNow ==
  ASSUME NEW log, IsLog(log), NEW e, NEW n,
         Asked(log, n) # {} \/ (e.type = "ApprovalRequested" /\ e.seen = <<n>>)
  PROVE  Asked(log \o <<e>>, n) # {}
<1>1. /\ DOMAIN (log \o <<e>>) = DOMAIN log \cup {Len(log) + 1}
      /\ \A i \in DOMAIN log : (log \o <<e>>)[i] = log[i]
      /\ (log \o <<e>>)[Len(log) + 1] = e
  BY Appended
<1> QED
  BY <1>1 DEF Asked

LEMMA RememberedNow ==
  ASSUME NEW log, IsLog(log), NEW e, NEW r, NEW new, Remembered(r, log), new.asked = r.asked,
         \A n \in new.tried : n \in r.tried \/ (e.type = "Failure" /\ e.node = n)
  PROVE  Remembered(new, log \o <<e>>)
<1>1. \A n \in new.asked : Asked(log \o <<e>>, n) # {}
  BY AskedNow DEF Remembered
<1>2. \A n \in new.tried : Has(log \o <<e>>, "Failure", n)
  BY Recorded DEF Remembered
<1> QED
  BY <1>1, <1>2 DEF Remembered

\* An end accounts for a node.
LEMMA EndAccounts ==
  ASSUME NEW log, IsLog(log), NEW e, NEW n,
         \/ e.type \in {"WorkerFinished", "Failure"} /\ e.node = n
         \/ Has(log, "Failure", n)
         \/ e.type = "ApprovalRequested" /\ e.seen = <<n>>
  PROVE  Accounted(log \o <<e>>, n)
<1>1. \A t : Has(log \o <<e>>, t, n) <=> Has(log, t, n) \/ (e.type = t /\ e.node = n)
  BY Recorded
<1>2. e.type = "ApprovalRequested" /\ e.seen = <<n>> => Asked(log \o <<e>>, n) # {}
  BY AskedNow
<1> QED
  BY <1>1, <1>2 DEF Accounted, RunningNodes

\* One event: a start of what is busy from now on, or another; what is no
\* longer busy is accounted for.
LEMMA OpenStays ==
  ASSUME NEW log, IsLog(log), NEW e, NEW busy, NEW new, Open(log, busy),
         \A n \in busy \ new : Accounted(log \o <<e>>, n),
         e.type = "WorkerStarted" => e.node \in new
  PROVE  Open(log \o <<e>>, new)
<1> DEFINE next == log \o <<e>>
<1>1. \A n, t : Has(next, t, n) <=> Has(log, t, n) \/ (e.type = t /\ e.node = n)
  BY Recorded
<1>2. \A n : Asked(log, n) # {} => Asked(next, n) # {}
  BY AskedNow
<1>3. \A n \in busy \ new : Accounted(next, n)
  OBVIOUS
<1> HIDE DEF next
<1> SUFFICES ASSUME NEW n \in Ids \ new PROVE Accounted(next, n)
  BY DEF Open, next
<1>4. CASE n \in busy
  BY <1>3, <1>4
<1>5. CASE n \notin busy
  <2>1. Accounted(log, n)
    BY <1>5 DEF Open
  <2>2. n \in RunningNodes(next) => n \in RunningNodes(log)
    BY <1>1 DEF RunningNodes
  <2> QED
    BY <1>2, <2>1, <2>2 DEF Accounted
<1> QED
  BY <1>4, <1>5

LEMMA QuittedNext ==
  ASSUME wf' = wf, NEW log, log = files.events', NEW busy, busy = AtWork(status', run'),
         ~history'.crashed => Open(log, busy), status' = "down" => history'.crashed,
         NEW r, r = run', status' = "running" => Remembered(r, log)
  PROVE  Quitted'
<1>1. Open(log, busy)' <=> Open(log, busy)
  BY SameGraph DEF Open, Accounted, RunningNodes
<1>2. ~history'.crashed => Open(log, busy)'
  BY <1>1
<1>3. AtWork(status, run)' = busy
  BY DEF AtWork, Busy
<1>4. status' = "running" => Remembered(run, log)'
  BY DEF Remembered
<1> QED
  BY <1>2, <1>3, <1>4 DEF Quitted

\* Which tasks are busy after a step of a run.
LEMMA BusyNow ==
  ASSUME RunShape(run), NEW n \in Ids, NEW r, r = run'
  PROVE  /\ Decide(n) => Busy(r) = Busy(run)
         /\ Dispatch(n) => Busy(r) = Busy(run) \cup {n}
         /\ CreateArtifact(n) \/ (\E d : PutArtifact(n, d)) => Busy(r) = Busy(run)
         /\ \/ (\E collateral : Fail(n, collateral)) \/ Substitute(n) \/ Park(n) \/ Finish(n)
            => Busy(r) = Busy(run) \ {n}
<1>0. run.task \in [Ids -> [phase : Phases, doc : Out]]
      /\ run = [state |-> run.state, out |-> run.out, due |-> run.due, ready |-> run.ready,
                used |-> run.used, task |-> run.task,
                tried |-> run.tried, asked |-> run.asked, cause |-> run.cause]
  BY DEF RunShape
<1>1. ASSUME Decide(n) PROVE Busy(r) = Busy(run)
  <2>1. r.task = run.task
    BY <1>0, <1>1 DEF Decide
  <2> QED
    BY <2>1 DEF Busy
<1>2. ASSUME Dispatch(n) PROVE Busy(r) = Busy(run) \cup {n}
  <2>1. r.task = [run.task EXCEPT ![n] = [phase |-> "called", doc |-> NoDoc]]
    BY <1>0, <1>2 DEF Dispatch
  <2>2. DOMAIN r.task = Ids /\ \A m \in Ids : r.task[m].phase = IF m = n THEN "called"
                                                              ELSE run.task[m].phase
    BY <1>0, <2>1
  <2> QED
    BY <1>0, <2>2 DEF Busy
<1>3. ASSUME CreateArtifact(n) PROVE Busy(r) = Busy(run)
  <2>1. r.task = [run.task EXCEPT ![n].phase = "created"] /\ run.task[n].phase = "stored"
    BY <1>0, <1>3 DEF CreateArtifact
  <2>2. DOMAIN r.task = Ids /\ \A m \in Ids : r.task[m].phase = IF m = n THEN "created"
                                                              ELSE run.task[m].phase
    BY <1>0, <2>1
  <2> QED
    BY <1>0, <2>1, <2>2 DEF Busy
<1>4. ASSUME NEW d, PutArtifact(n, d) PROVE Busy(r) = Busy(run)
  <2>1. r.task = [run.task EXCEPT ![n] = [phase |-> "stored", doc |-> d]]
        /\ run.task[n].phase = "called"
    BY <1>0, <1>4 DEF PutArtifact
  <2>2. DOMAIN r.task = Ids /\ \A m \in Ids : r.task[m].phase = IF m = n THEN "stored"
                                                              ELSE run.task[m].phase
    BY <1>0, <2>1
  <2> QED
    BY <1>0, <2>1, <2>2 DEF Busy
<1>5. ASSUME (\E collateral : Fail(n, collateral)) \/ Substitute(n) \/ Park(n) \/ Finish(n)
      PROVE  Busy(r) = Busy(run) \ {n}
  <2>1. r.task = [run.task EXCEPT ![n] = IdleTask]
    BY <1>0, <1>5 DEF Fail, Substitute, Park, Finish
  <2>2. DOMAIN r.task = Ids /\ \A m \in Ids : r.task[m].phase = IF m = n THEN "none"
                                                              ELSE run.task[m].phase
    BY <1>0, <2>1 DEF IdleTask
  <2> QED
    BY <1>0, <2>2 DEF Busy
<1> QED
  BY <1>1, <1>2, <1>3, <1>4, <1>5

\* What a run remembers of its nodes after a step.
LEMMA TriedNow ==
  ASSUME RunShape(run), NEW n \in Ids, NEW r, r = run',
         Decide(n) \/ Dispatch(n) \/ Work(n) \/ Finish(n)
  PROVE  /\ r.asked = run.asked
         /\ r.tried = run.tried \/ (Substitute(n) /\ r.tried = run.tried \cup {n})
<1>0. run = [state |-> run.state, out |-> run.out, due |-> run.due, ready |-> run.ready,
             used |-> run.used, task |-> run.task, tried |-> run.tried, asked |-> run.asked,
             cause |-> run.cause]
  BY DEF RunShape
<1>1. ASSUME Decide(n) PROVE r.asked = run.asked /\ r.tried = run.tried
  BY <1>0, <1>1 DEF Decide
<1>2. ASSUME Dispatch(n) \/ Finish(n) PROVE r.asked = run.asked /\ r.tried = run.tried
  BY <1>0, <1>2 DEF Dispatch, Finish
<1>3. ASSUME \/ CreateArtifact(n) \/ Park(n) \/ (\E d : PutArtifact(n, d))
             \/ \E collateral : Fail(n, collateral)
      PROVE  r.asked = run.asked /\ r.tried = run.tried
  BY <1>0, <1>3 DEF CreateArtifact, Park, PutArtifact, Fail
<1>4. ASSUME Substitute(n) PROVE r.asked = run.asked /\ r.tried = run.tried \cup {n}
  BY <1>0, <1>4 DEF Substitute
<1> QED
  BY <1>1, <1>2, <1>3, <1>4 DEF Work

\* A step of a run that appends an event, or none.
LEMMA QuittedWritten ==
  ASSUME Core, Quitted, status = "running", UNCHANGED <<wf, status>>,
         history'.crashed = history.crashed,
         NEW r, r = run', NEW e, files' = Written(<<e>>),
         \A n \in Busy(run) \ Busy(r) : Accounted(files.events \o <<e>>, n),
         e.type = "WorkerStarted" => e.node \in Busy(r), r.asked = run.asked,
         \A n \in r.tried : n \in run.tried \/ (e.type = "Failure" /\ e.node = n)
  PROVE  Quitted'
<1>1. FilesShape
  BY DEF Core, Base
<1>2. PICK log, busy : log = files.events' /\ busy = AtWork(status', run')
  OBVIOUS
<1>3. busy = Busy(r) /\ AtWork(status, run) = Busy(run)
  BY <1>2 DEF AtWork
<1>4. log = files.events \o <<e>> /\ IsLog(files.events)
  BY <1>1, <1>2, WrittenIs DEF FilesShape
<1>5. ~history'.crashed => Open(log, busy)
  <2> SUFFICES ASSUME ~history'.crashed PROVE Open(log, busy)
    OBVIOUS
  <2>1. Open(files.events, Busy(run))
    BY <1>3 DEF Quitted
  <2> QED
    BY <1>3, <1>4, <2>1, OpenStays
<1>6. Remembered(r, log)
  <2>1. Remembered(run, files.events)
    BY DEF Quitted
  <2> QED
    BY <1>4, <2>1, RememberedNow
<1> QED
  BY <1>2, <1>5, <1>6, QuittedNext

LEMMA QuittedRunning ==
  ASSUME Core, Quitted, NEW n \in Ids, Decide(n) \/ Dispatch(n) \/ Work(n) \/ Complete(n)
  PROVE  Quitted'
<1>0. /\ status = "running" /\ UNCHANGED <<wf, status>> /\ history'.crashed = history.crashed
      /\ RunShape(run) /\ FilesShape /\ IsLog(files.events) /\ Remembered(run, files.events)
  <2>1. status = "running" /\ UNCHANGED <<wf, status>> /\ HistoryShape /\ FilesShape
    BY DEF Core, Base, Decide, Dispatch, Work, Complete
  <2>2. RunShape(run)
    BY <2>1 DEF Core, Underway, RunInv
  <2>3. history'.crashed = history.crashed
    BY <2>1 DEF Decide, Dispatch, Work, Complete, HistoryShape
  <2>4. IsLog(files.events) /\ Remembered(run, files.events)
    BY <2>1 DEF FilesShape, Quitted
  <2> QED
    BY <2>1, <2>2, <2>3, <2>4
<1>1. PICK r : r = run'
  OBVIOUS
<1>2. /\ r.asked = run.asked
      /\ r.tried = run.tried \/ (Substitute(n) /\ r.tried = run.tried \cup {n})
  BY <1>0, <1>1, TriedNow DEF Complete
<1>3. ASSUME files.events' = files.events, r.tried = run.tried,
             \A m \in Busy(run) \ Busy(r) : Accounted(files.events, m)
      PROVE  Quitted'
  <2>1. PICK log, busy : log = files.events' /\ busy = AtWork(status', run')
    OBVIOUS
  <2>2. log = files.events /\ busy = Busy(r) /\ AtWork(status, run) = Busy(run)
    BY <1>0, <1>1, <1>3, <2>1 DEF AtWork
  <2>3. ~history'.crashed => Open(log, busy)
    BY <1>0, <1>3, <2>2 DEF Quitted, Open
  <2>4. Remembered(r, log)
    BY <1>0, <1>2, <1>3, <2>2 DEF Remembered
  <2> QED
    BY <1>0, <1>1, <2>1, <2>3, <2>4, QuittedNext
\* An event that ends no task.
<1>4. ASSUME NEW e, files' = Written(<<e>>), Busy(run) \subseteq Busy(r), r.tried = run.tried,
             e.type = "WorkerStarted" => e.node \in Busy(r)
      PROVE  Quitted'
  BY <1>0, <1>1, <1>2, <1>4, QuittedWritten
\* One that ends the node's own.
<1>5. ASSUME NEW e, files' = Written(<<e>>), Busy(r) = Busy(run) \ {n}, e.type # "WorkerStarted",
             r.tried = run.tried \/ (e.type = "Failure" /\ e.node = n),
             \/ e.type \in {"WorkerFinished", "Failure"} /\ e.node = n
             \/ Has(files.events, "Failure", n)
             \/ e.type = "ApprovalRequested" /\ e.seen = <<n>>
      PROVE  Quitted'
  <2>1. Accounted(files.events \o <<e>>, n)
    BY <1>0, <1>5, EndAccounts
  <2>2. \A m \in Busy(run) \ Busy(r) : Accounted(files.events \o <<e>>, m)
    BY <1>5, <2>1
  <2>3. \A m \in r.tried : m \in run.tried \/ (e.type = "Failure" /\ e.node = m)
    BY <1>2, <1>5
  <2> QED
    BY <1>0, <1>1, <1>2, <1>5, <2>2, <2>3, QuittedWritten
<1>6. CASE Decide(n)
  <2>1. r.tried = run.tried /\ files.events' = files.events
    BY <1>0, <1>1, <1>6 DEF Decide, RunShape
  <2> QED
    BY <1>0, <1>1, <1>3, <1>6, <2>1, BusyNow
<1>7. CASE Dispatch(n)
  <2>1. PICK e : e = Note("WorkerStarted", n)
    OBVIOUS
  <2>2. files' = Written(<<e>>) /\ e.node = n /\ e.type = "WorkerStarted"
    BY <1>7, <2>1, NoteIs DEF Dispatch
  <2>3. r.tried = run.tried
    BY <1>0, <1>1, <1>7 DEF Dispatch, RunShape
  <2>4. Busy(r) = Busy(run) \cup {n}
    BY <1>0, <1>1, <1>7, BusyNow
  <2> QED
    BY <1>4, <2>2, <2>3, <2>4
<1>8. CASE \E d : PutArtifact(n, d)
  <2>1. files.events' = files.events /\ r.tried = run.tried
    BY <1>0, <1>1, <1>8 DEF PutArtifact, FilesShape, RunShape
  <2> QED
    BY <1>0, <1>1, <1>3, <1>8, <2>1, BusyNow
<1>9. CASE CreateArtifact(n)
  <2>1. PICK e : e = Event("ArtifactCreated", n, run.task[n].doc, <<>>)
    OBVIOUS
  <2>2. files' = Written(<<e>>) /\ e.type = "ArtifactCreated"
    BY <1>9, <2>1 DEF CreateArtifact, Event
  <2>3. r.tried = run.tried
    BY <1>0, <1>1, <1>9 DEF CreateArtifact, RunShape
  <2>4. Busy(r) = Busy(run)
    BY <1>0, <1>1, <1>9, BusyNow
  <2> QED
    BY <1>4, <2>2, <2>3, <2>4
<1>10. CASE (\E collateral : Fail(n, collateral)) \/ Substitute(n)
  <2>1. PICK e : e = Note("Failure", n)
    OBVIOUS
  <2>0. Dies(n)
    BY <1>10 DEF Fail, Substitute
  <2>2. files' = Written(<<e>>) /\ e.node = n /\ e.type = "Failure"
    BY <2>0, <2>1, NoteIs DEF Dies, Obituary
  <2>3. Busy(r) = Busy(run) \ {n}
    BY <1>0, <1>1, <1>10, BusyNow
  <2> QED
    BY <1>5, <2>2, <2>3
<1>11. CASE Park(n)
  <2>1. /\ Has(files.events, "Failure", n) \/ Doer(n) = n
        /\ Doer(n) \in run.asked => Asked(files.events, Doer(n)) # {}
    BY <1>0 DEF Doer, Remembered
  <2>2. r.tried = run.tried /\ Busy(r) = Busy(run) \ {n}
    BY <1>0, <1>1, <1>11, BusyNow DEF Park, RunShape
  <2>3. CASE files' = files /\ Doer(n) \in run.asked
    <3>1. Accounted(files.events, n)
      BY <2>1, <2>3 DEF Accounted, RunningNodes
    <3> QED
      BY <1>3, <2>2, <2>3, <3>1
  <2>4. CASE files' = Written(<<Checkpoint("ApprovalRequested", n, Doer(n))>>)
    <3>1. PICK e : e = Checkpoint("ApprovalRequested", n, Doer(n))
      OBVIOUS
    <3>2. files' = Written(<<e>>) /\ e.type = "ApprovalRequested" /\ e.seen = <<Doer(n)>>
      BY <2>4, <3>1, CheckpointIs
    <3> QED
      BY <1>5, <2>1, <2>2, <3>2
  <2> QED
    BY <1>11, <2>3, <2>4 DEF Park
<1>12. CASE Finish(n)
  <2>1. PICK e : e = Event("WorkerFinished", n, NoDoc, HashesOf(Admitted(Doer(n), run.used[n])))
    OBVIOUS
  <2>2. files' = Written(<<e>>) /\ e.node = n /\ e.type = "WorkerFinished"
    BY <1>12, <2>1 DEF Finish, Event
  <2>3. r.tried = run.tried /\ Busy(r) = Busy(run) \ {n}
    BY <1>0, <1>1, <1>12, BusyNow DEF Finish, RunShape
  <2> QED
    BY <1>5, <2>2, <2>3
<1> QED
  BY <1>6, <1>7, <1>8, <1>9, <1>10, <1>11, <1>12 DEF Work, Complete

\* A step that leaves the record alone and starts or ends no task but by
\* starting a run.
LEMMA QuittedStill ==
  ASSUME Quitted, wf' = wf, files.events' = files.events, history'.crashed = history.crashed,
         AtWork(status, run) \subseteq AtWork(status', run'), status' = "down" => status = "down",
         NEW r, r = run',
         status' = "running" => (r = run /\ status = "running") \/ Remembered(r, files.events)
  PROVE  Quitted'
<1>1. PICK log, busy : log = files.events' /\ busy = AtWork(status', run')
  OBVIOUS
<1>2. ~history'.crashed => Open(log, busy)
  BY <1>1 DEF Quitted, Open
<1>3. status' = "running" => Remembered(r, log)
  BY <1>1 DEF Quitted
<1> QED
  BY <1>1, <1>2, <1>3, QuittedNext DEF Quitted

\* A step from rest, or the last of a run, that appends an event.
LEMMA QuittedIdle ==
  ASSUME Core, Quitted, wf' = wf, NEW e, files' = Written(<<e>>), e.type # "WorkerStarted",
         history'.crashed = history.crashed, AtWork(status, run) = {},
         status' = "down" => status = "down", status' # "running"
  PROVE  Quitted'
<1>1. PICK log, busy : log = files.events' /\ busy = AtWork(status', run')
  OBVIOUS
<1>2. log = files.events \o <<e>> /\ IsLog(files.events)
  BY <1>1, WrittenIs DEF Core, Base, FilesShape
<1>3. ASSUME ~history'.crashed PROVE Open(log, busy)
  <2>1. PICK none : none = AtWork(status, run)
    OBVIOUS
  <2>2. Open(files.events, none) /\ \A n \in none \ busy : Accounted(log, n)
    BY <1>3, <2>1 DEF Quitted
  <2> QED
    BY <1>2, <2>2, OpenStays
<1> QED
  BY <1>1, <1>3, QuittedNext DEF Quitted

LEMMA QuittedStart ==
  ASSUME Core, Quitted, NEW supplied, Start(supplied), wf' = wf, status \in {"new", "returned"},
         status' = "refused" => history'.crashed = history.crashed
  PROVE  Quitted'
<1>1. CASE Missing(supplied) # {}
  <2>1. status' = "refused" /\ files' = files
    BY <1>1 DEF Start
  <2>2. AtWork(status, run) = {}
    BY DEF AtWork
  <2> QED
    BY <2>1, <2>2, QuittedStill
<1>2. CASE Missing(supplied) = {}
  <2>1. PICK e : e = Note("ExecutionStarted", "")
    OBVIOUS
  <2>2. files' = [files EXCEPT !.snap = TRUE, !.inputs = Bound(supplied), !.events = <<e>>]
        /\ status' = "running" /\ e.type = "ExecutionStarted"
    BY <1>2, <2>1, NoteIs DEF Start
  <2>3. PICK log, busy : log = files.events' /\ busy = AtWork(status', run')
    OBVIOUS
  <2>4. log = <<e>>
    BY <2>2, <2>3 DEF Core, Base, FilesShape
  <2>5. RunningNodes(log) = {}
    BY <2>2, <2>4 DEF RunningNodes, Has, About
  <2>6. Open(log, busy)
    BY <2>5 DEF Open, Accounted
  <2>7. PICK r : r = run'
    OBVIOUS
  <2>8. Remembered(r, log)
    <3>1. r.asked = {} /\ r.tried = {}
      BY <1>2, <2>7 DEF Start, Begun, Asked
    <3> QED
      BY <3>1 DEF Remembered
  <2> QED
    BY <2>2, <2>3, <2>6, <2>7, <2>8, QuittedNext
<1> QED
  BY <1>1, <1>2

LEMMA QuittedStep == Core /\ Quitted /\ [Next \/ Quiet]_vars => Quitted'
<1> SUFFICES ASSUME Core, Quitted, [Next \/ Quiet]_vars PROVE Quitted'
  OBVIOUS
<1>0. wf' = wf /\ HistoryShape /\ FilesShape
  BY Moves DEF Core, Base
<1>1. CASE Refuse
  BY <1>0, <1>1, QuittedStill DEF Refuse, AtWork
<1>2. CASE Run
  BY <1>0, <1>2, QuittedStart DEF Run
<1>3. CASE Reexecute
  <2>1. /\ Start({}) /\ status \in {"new", "returned"}
        /\ status' = "refused" => history'.crashed = history.crashed
    BY <1>0, <1>3 DEF Reexecute, HistoryShape
  <2> QED
    BY <1>0, <2>1, QuittedStart
<1>4. CASE Return
  <2>1. PICK e : e = Note("ExecutionFinished", "")
    OBVIOUS
  <2>2. /\ files' = Written(<<e>>) /\ e.type = "ExecutionFinished" /\ history' = history
        /\ status' = "returned"
    BY <1>4, <2>1, NoteIs DEF Return
  <2>3. AtWork(status, run) = {}
    BY <1>4 DEF Return, Returns, InFlight, AtWork, Busy
  <2> QED
    BY <1>0, <2>2, <2>3, QuittedIdle
<1>5. CASE Crash
  <2>1. history'.crashed /\ status' # "running"
    BY <1>0, <1>5 DEF Crash, HistoryShape
  <2> QED
    BY <2>1 DEF Quitted
<1>6. ASSUME NEW again, Rerun(again) PROVE Quitted'
  <2>1. /\ files' = files /\ history'.crashed = history.crashed /\ AtRest
        /\ status' \in {"running", status}
    BY <1>0, <1>6 DEF Rerun, HistoryShape
  <2>2. AtWork(status, run) = {}
    BY <2>1 DEF AtRest, AtWork
  <2>3. PICK r : r = run'
    OBVIOUS
  <2>4. ASSUME status' = "running" PROVE Remembered(r, files.events)
    <3>1. r = Begun(files.events, Reconstruct(files.events) \ again)
      BY <1>6, <2>1, <2>3, <2>4 DEF Rerun, AtRest
    <3>2. r.asked = { n \in Ids : Asked(files.events, n) # {} } /\ r.tried = {}
      BY <3>1 DEF Begun
    <3> QED
      BY <3>2 DEF Remembered
  <2> QED
    BY <1>0, <2>1, <2>2, <2>3, <2>4, QuittedStill
<1>7. ASSUME NEW n \in Ids, Approve(n) PROVE Quitted'
  <2>0. PICK asks : files' = Written(<<Checkpoint("ApprovalGranted", asks, n)>>)
    BY <1>7 DEF Approve
  <2>1. PICK e : e = Checkpoint("ApprovalGranted", asks, n)
    OBVIOUS
  <2>2. /\ files' = Written(<<e>>) /\ e.type = "ApprovalGranted" /\ history' = history
        /\ status' = status /\ AtRest
    BY <1>7, <2>0, <2>1, CheckpointIs DEF Approve
  <2>3. AtWork(status, run) = {}
    BY <2>2 DEF AtRest, AtWork
  <2>4. status' # "running"
    BY <2>2 DEF AtRest
  <2> QED
    BY <1>0, <2>2, <2>3, <2>4, QuittedIdle
<1>8. CASE BackUpArtifacts \/ BackUpExecution
  <2>1. /\ UNCHANGED <<status, files, run>> /\ history'.crashed = history.crashed
    BY <1>0, <1>8 DEF BackUpArtifacts, BackUpExecution, HistoryShape
  <2> QED
    BY <1>0, <2>1, QuittedStill
<1>9. ASSUME NEW over, Restore(over) PROVE Quitted'
  <2>1. history'.crashed /\ status' # "running"
    BY <1>0, <1>9 DEF Restore, HistoryShape
  <2> QED
    BY <2>1 DEF Quitted
<1>10. CASE UNCHANGED vars
  BY <1>0, <1>10, QuittedStill DEF vars
<1> QED
  BY <1>1, <1>2, <1>3, <1>4, <1>5, <1>6, <1>7, <1>8, <1>9, <1>10, QuittedRunning
  DEF Next, Quiet, Resume, ResumeFrom

\* After a run that nothing interrupted progress shows no node as running but
\* one that waits for an approval (extras.go:81): every way out of executeNode
\* records an end.
THEOREM NoneRuns == Spec => []NoneLeftRunning
<1>1. Init => Quitted
  <2> SUFFICES ASSUME Init PROVE Quitted
    OBVIOUS
  <2>1. RunningNodes(files.events) = {}
    BY DEF Init, RunningNodes, Has, About
  <2> QED
    BY <2>1 DEF Init, Quitted, Open, Accounted
<1>2. Quitted => NoneLeftRunning
  BY DEF Quitted, Open, Accounted, RunningNodes, AtWork, NoneLeftRunning
<1> QED
  BY <1>1, <1>2, QuittedStep, CoreInvariant, PTL DEF Spec

-----------------------------------------------------------------------------
(* Opposite conditions on one output.                                      *)

Comparisons == {"eq", "ne", "gt", "gte", "lt", "lte"}

\* What a comparison says of a document (evalCondition, conditional.go:38).
LEMMA Compared ==
  ASSUME NEW cond, NEW doc, cond.op \in Comparisons, EvalCondition(cond, doc) # "error"
  PROVE  LET got == LookupPath(doc, cond.path)
         IN  EvalCondition(cond, doc) =
               IF got = Absent THEN AbsentHolds(cond.op) ELSE Compare(got, cond.op, cond.value)
<1>1. doc[1] # "text" /\ cond.op \notin {"always", "exists", "truthy"}
      /\ cond.op \in Orders \cup {"eq", "ne"}
  BY DEF EvalCondition, Comparisons, Orders
<1>2. EvalCondition(cond, doc) =
        LET got == LookupPath(doc, cond.path)
        IN  IF got = Absent THEN AbsentHolds(cond.op) ELSE Compare(got, cond.op, cond.value)
  BY <1>1 DEF EvalCondition
<1> QED
  BY <1>2

LEMMA Pair ==
  ASSUME NEW a, NEW b, NEW x, NEW y, {a, b} = {x, y}
  PROVE  (a = x /\ b = y) \/ (a = y /\ b = x)
<1>1. (a = x \/ a = y) /\ (b = x \/ b = y)
  OBVIOUS
<1>2. (x = a \/ x = b) /\ (y = a \/ y = b)
  <2>1. x \in {a, b} /\ y \in {a, b}
    OBVIOUS
  <2> QED
    BY <2>1
<1> QED
  BY <1>1, <1>2

\* Of two opposite conditions one holds, unless an order is asked of nothing.
LEMMA Opposed ==
  ASSUME NEW c, NEW d, {c.op, d.op} \in Opposite, c.path = d.path, c.value = d.value,
         NEW doc, EvalCondition(c, doc) # "error", EvalCondition(d, doc) # "error",
         NumbersWhole(c.value), NumbersWhole(LookupPath(doc, c.path))
  PROVE  IF c.op \in Orders /\ LookupPath(doc, c.path) = Absent
           THEN EvalCondition(c, doc) # "yes" /\ EvalCondition(d, doc) # "yes"
           ELSE (EvalCondition(c, doc) # "yes") # (EvalCondition(d, doc) # "yes")
<1>1. \/ {c.op, d.op} = {"eq", "ne"} \/ {c.op, d.op} = {"gt", "lte"} \/ {c.op, d.op} = {"gte", "lt"}
  BY DEF Opposite
<1>2. \/ (c.op = "eq" /\ d.op = "ne") \/ (c.op = "ne" /\ d.op = "eq")
      \/ (c.op = "gt" /\ d.op = "lte") \/ (c.op = "lte" /\ d.op = "gt")
      \/ (c.op = "gte" /\ d.op = "lt") \/ (c.op = "lt" /\ d.op = "gte")
  BY <1>1, Pair
<1>3. PICK got : got = LookupPath(doc, c.path)
  OBVIOUS
<1>4. c.op \in Comparisons /\ d.op \in Comparisons
  BY <1>2 DEF Comparisons
<1>5. /\ EvalCondition(c, doc) =
           IF got = Absent THEN AbsentHolds(c.op) ELSE Compare(got, c.op, c.value)
      /\ EvalCondition(d, doc) =
           IF got = Absent THEN AbsentHolds(d.op) ELSE Compare(got, d.op, c.value)
  BY <1>3, <1>4, Compared
<1>6. CASE got = Absent
  BY <1>2, <1>3, <1>5, <1>6 DEF AbsentHolds, Said, Orders
<1>7. CASE got # Absent /\ {c.op, d.op} = {"eq", "ne"}
  <2>1. c.op \notin Orders
    BY <1>2, <1>7 DEF Orders
  <2>2. /\ EvalCondition(c, doc) = Compare(got, c.op, c.value)
        /\ EvalCondition(d, doc) = Compare(got, d.op, c.value)
    BY <1>5, <1>7
  <2> QED
    BY <1>2, <1>7, <2>1, <2>2 DEF Compare, Said
<1>8. CASE got # Absent /\ {c.op, d.op} # {"eq", "ne"}
  <2>1. /\ EvalCondition(c, doc) = Compare(got, c.op, c.value)
        /\ EvalCondition(d, doc) = Compare(got, d.op, c.value)
        /\ c.op \notin {"eq", "ne"} /\ d.op \notin {"eq", "ne"}
    BY <1>2, <1>5, <1>8
  <2>2. IsNumber(got) /\ IsNumber(c.value)
    BY <2>1 DEF Compare
  <2>3. got[2] \in Int /\ c.value[2] \in Int
    BY <1>3, <2>2 DEF NumbersWhole
  <2>4. /\ EvalCondition(c, doc) = Said(Ordered(got[2], c.op, c.value[2]))
        /\ EvalCondition(d, doc) = Said(Ordered(got[2], d.op, c.value[2]))
    BY <2>1, <2>2 DEF Compare
  <2>5. PICK a, b \in Int : a = got[2] /\ b = c.value[2]
    BY <2>3
  <2>6. Ordered(a, c.op, b) <=> ~Ordered(a, d.op, b)
    BY <1>2, <2>1, <2>5 DEF Ordered
  <2>7. (EvalCondition(c, doc) # "yes") # (EvalCondition(d, doc) # "yes")
    BY <2>4, <2>5, <2>6 DEF Said
  <2> QED
    BY <1>3, <1>8, <2>7
<1> QED
  BY <1>6, <1>7, <1>8

\* In a result that nothing halted a node behind one edge is skipped just when
\* the edge does not hold.
LEMMA BehindOne ==
  ASSUME Core, Returned, result.cause = "none", NEW e, ToSet(EdgesInto(e.to)) = {e},
         e.to \in Ids \ (history.dropped \cup FallbackOnly), result.nodes[e.from].state = "succeeded"
  PROVE  LET said == EvalCondition(e.cond, result.nodes[e.from].doc)
         IN  /\ said # "error"
             /\ (result.nodes[e.to].state = "skipped") = (said # "yes")
             /\ result.nodes[e.from].doc \in Docs /\ e \in ToSet(wf.edges)
<1> DEFINE st == StateOf(result)
           out == OutOf(result)
           log == files.events
           said == EvalCondition(e.cond, out[e.from])
<1>1. /\ Agree(st, out, log, history.dropped) /\ LogOK(log, history.dropped)
      /\ Chosen(st, out) /\ Skips(st, out) /\ \A n \in Ids : st[n] \in Ended
  BY DEF Core, Sane, ResultSound, ResultInv
<1>2. e \in ToSet(EdgesInto(e.to)) /\ e.from \in Ids /\ e \in ToSet(wf.edges) /\ e.to \in Ids
  BY EdgeEnds
<1>3. /\ st[e.from] = "succeeded" /\ st[e.to] = result.nodes[e.to].state
      /\ out[e.from] = result.nodes[e.from].doc
  BY <1>2, ResultFields
<1> HIDE DEF st, out
<1>4. out[e.from] = LastHash(log, e.from) /\ out[e.from] \in Docs
  BY <1>1, <1>2, <1>3 DEF Agree, Succ, LogOK
<1>5. ASSUME st[e.to] = "skipped" PROVE said \notin {"yes", "error"}
  <2>1. PICK x \in ToSet(EdgesInto(e.to)) :
          \/ st[x.from] \in {"failed", "skipped"}
          \/ /\ st[x.from] = "succeeded"
             /\ EvalCondition(x.cond, out[x.from]) \notin {"yes", "error"}
    BY <1>1, <1>2, <1>5 DEF Skips, SkippedBy
  <2>2. x = e
    BY <2>1
  <2> QED
    BY <1>3, <2>1, <2>2
<1>6. ASSUME st[e.to] = "failed" PROVE said = "yes"
  BY <1>1, <1>2, <1>6 DEF Chosen, ChosenBy, Holds
<1>7. ASSUME st[e.to] = "succeeded" PROVE said = "yes"
  <2>1. Sound(log, e.to)
    BY <1>1, <1>2, <1>7 DEF Agree, Succ, LogOK
  <2> QED
    BY <1>2, <1>4, <2>1 DEF Sound
<1>8. st[e.to] \in {"succeeded", "failed", "skipped"}
  BY <1>1, <1>2 DEF Ended
<1> QED
  BY <1>2, <1>3, <1>4, <1>5, <1>6, <1>7, <1>8

\* Of two nodes behind opposite conditions on one output exactly one is run
\* (conditional.go:38), for eq and ne also when the output has no such field;
\* then no order holds, and neither is.
THEOREM BranchesExclude == Spec => []OneBranch
<1>1. Core => OneBranch
  <2> SUFFICES ASSUME Core, Returned, result.cause = "none",
                      NEW e \in ToSet(Edges), NEW f \in ToSet(Edges),
                      e.from = f.from, {e.cond.op, f.cond.op} \in Opposite,
                      e.cond.path = f.cond.path, e.cond.value = f.cond.value,
                      ToSet(EdgesInto(e.to)) = {e}, ToSet(EdgesInto(f.to)) = {f},
                      {e.to, f.to} \cap (history.dropped \cup FallbackOnly) = {},
                      result.nodes[e.from].state = "succeeded"
               PROVE  IF e.cond.op \in Orders /\ LookupPath(result.nodes[e.from].doc, e.cond.path) = Absent
                        THEN \A x \in {e.to, f.to} : result.nodes[x].state = "skipped"
                        ELSE (result.nodes[e.to].state = "skipped") # (result.nodes[f.to].state = "skipped")
    BY DEF OneBranch
  <2>1. PICK doc : doc = result.nodes[e.from].doc
    OBVIOUS
  <2>2. e \in ToSet(EdgesInto(e.to)) /\ f \in ToSet(EdgesInto(f.to))
    OBVIOUS
  <2>3. /\ e.to \in Ids \ (history.dropped \cup FallbackOnly)
        /\ f.to \in Ids \ (history.dropped \cup FallbackOnly)
    BY <2>2, EdgeEnds
  <2>4. /\ EvalCondition(e.cond, doc) # "error" /\ doc \in Docs /\ e \in ToSet(wf.edges)
        /\ (result.nodes[e.to].state = "skipped") = (EvalCondition(e.cond, doc) # "yes")
    BY <2>1, <2>3, BehindOne
  <2>5. /\ EvalCondition(f.cond, doc) # "error"
        /\ (result.nodes[f.to].state = "skipped") = (EvalCondition(f.cond, doc) # "yes")
    BY <2>1, <2>3, BehindOne
  <2>6. NumbersWhole(e.cond.value) /\ NumbersWhole(LookupPath(doc, e.cond.path))
    BY <2>4, SubmissionsAssumption DEF SubmissionOK, Core, Base
  <2>7. IF e.cond.op \in Orders /\ LookupPath(doc, e.cond.path) = Absent
          THEN EvalCondition(e.cond, doc) # "yes" /\ EvalCondition(f.cond, doc) # "yes"
          ELSE (EvalCondition(e.cond, doc) # "yes") # (EvalCondition(f.cond, doc) # "yes")
    BY <2>4, <2>5, <2>6, Opposed
  <2> QED
    BY <2>1, <2>4, <2>5, <2>7
<1> QED
  BY <1>1, CoreInvariant, PTL

=============================================================================
