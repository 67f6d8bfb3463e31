--------------------------- MODULE DataPathProofs ---------------------------
(***************************************************************************)
(* Proofs about PartitionStore and DataPath, for all executions, workers,  *)
(* hosts, outputs and thresholds: what is served is complete, provided     *)
(* that no two executions spill on the same host, and that the workers     *)
(* agree where a key belongs; and what is reduced counts every key once.   *)
(***************************************************************************)
EXTENDS DataPath, FiniteSetTheorems, TLAPS

\* Where the lines of a store are that it has taken so far.
Kept(e, p) ==
  IF spilled[e] \/ (stage[e] = "spilling" /\ p < onDisk[e])
    THEN files[Host(e)][p] ELSE buffers[e][p]

\* A text that has the first n lines of partition p, each once.  The lines in u
\* are those that lack a newline; another follows only one of these, and only a
\* line in o is open.
Sound(text, n, p, u, o) ==
  /\ text \in Text
  /\ text.lines = Upto(n, p)
  /\ \A pair \in text.joined : pair[1] \in u /\ text.lines[pair[2]] > 0
  /\ text.open # None => text.open \in o /\ text.lines[text.open] > 0

MayBeOpen(e) == unended \cup (IF stage[e] = "ending" THEN {taken[e]} ELSE {})

\* A store that is in use has every line it took exactly once; one that was
\* published took them all; one that was cleaned up has nothing.
StoreInv(e) ==
  /\ spilled[e] \/ stage[e] = "spilling" => Spills(e)
  /\ stage[e] = "waiting" => taken[e] = 0
  /\ stage[e] \in {"waiting", "spilling"} => ~spilled[e]
  /\ stage[e] = "spilling" => onDisk[e] < NumPartitions
  /\ stage[e] = "reading" /\ ~spilled[e] => onDisk[e] = 0
  /\ stage[e] = "waiting" => onDisk[e] = 0
  /\ stage[e] = "ending" =>
       /\ spilled[e] /\ taken[e] \in Lines
       /\ PartitionOf(WorkerOf[e], Keys[taken[e]]) \in Partitions
  /\ stage[e] \in {"reading", "ending", "spilling", "published", "retiring"} =>
       \A p \in Partitions :
         Sound(Kept(e, p), taken[e], p, unended, MayBeOpen(e))
  /\ stage[e] \in {"published", "retiring"} => taken[e] = Len(Output)
  /\ stage[e] = "over" =>
       \A p \in Partitions : Served(e, p) = None

IInv == /\ TypeOK
        /\ \A e \in Executions : StoreInv(e)
        /\ \A w \in Workers : published[w] # None =>
             WorkerOf[published[w]] = w /\ stage[published[w]] = "published"
        /\ \A r \in requests :
             stage[r.store] \in {"published", "retiring", "over"}
        /\ NoPartialReads
        /\ \A r \in responses : \A pair \in r.content.joined :
             r.content.lines[pair[2]] > 0

\* The partition of a line is one of the partitions, and the one that a worker
\* writes it to.
LEMMA OutputLemma ==
  /\ Output \in Seq(Partitions)
  /\ Len(Output) = Len(Keys) /\ Len(Output) \in Nat
  /\ \A i \in Lines : Keys[i] \in DOMAIN Hash
                      /\ Output[i] = Hash[Keys[i]] % NumPartitions
<1>1. Keys \in Seq(DOMAIN Hash) /\ Len(Keys) \in Nat
  BY KeysAssumption
<1>2. \A i \in 1 .. Len(Keys) : Keys[i] \in DOMAIN Hash
  BY <1>1
<1>3. \A i \in 1 .. Len(Keys) : Hash[Keys[i]] % NumPartitions \in Partitions
  <2> SUFFICES ASSUME NEW i \in 1 .. Len(Keys)
               PROVE  Hash[Keys[i]] % NumPartitions \in Partitions
    OBVIOUS
  <2>1. Hash[Keys[i]] \in Nat
    BY <1>2, HashAssumption
  <2> QED BY <2>1, NumPartitionsAssumption DEF Partitions
<1>4. Output \in Seq(Partitions) /\ Len(Output) = Len(Keys)
  BY <1>1, <1>3 DEF Output
<1>5. Lines = 1 .. Len(Keys)
  BY <1>4 DEF Lines
<1> QED BY <1>1, <1>2, <1>4, <1>5 DEF Output

LEMMA PlacementLemma ==
  ASSUME BuildsAgree, NEW e \in Executions, NEW i \in Lines,
         PartitionOf(WorkerOf[e], Keys[i]) \in Partitions
  PROVE  PartitionOf(WorkerOf[e], Keys[i]) = Output[i]
BY OutputLemma, WorkerOfAssumption DEF BuildsAgree

LEMMA UptoLemma ==
  ASSUME NEW p \in Partitions
  PROVE  /\ \A n : Upto(n, p) \in Content
         /\ Upto(0, p) = Empty
         /\ \A n \in Nat : n + 1 \in Lines =>
              Upto(n + 1, p) = IF Output[n + 1] = p
                                 THEN [Upto(n, p) EXCEPT ![n + 1] = @ + 1]
                                 ELSE Upto(n, p)
<1>1. \A n : Upto(n, p) \in Content
  BY DEF Upto, Content
<1>2. Upto(0, p) = Empty
  BY DEF Upto, Empty, Lines
<1>3. ASSUME NEW n \in Nat, n + 1 \in Lines
      PROVE  Upto(n + 1, p) = IF Output[n + 1] = p
                                THEN [Upto(n, p) EXCEPT ![n + 1] = @ + 1]
                                ELSE Upto(n, p)
  <2>1. Len(Output) \in Nat
    BY OutputLemma
  <2>2. \A i \in Lines : i \in Int /\ (i <= n + 1 <=> i <= n \/ i = n + 1)
    BY <2>1 DEF Lines
  <2>3. ~(n + 1 <= n)
    OBVIOUS
  <2>4. CASE Output[n + 1] = p
    <3> DEFINE g == Upto(n, p)
    <3>1. g = [i \in Lines |-> g[i]]
      BY DEF Upto
    <3>2. \A i \in Lines : Upto(n + 1, p)[i] = IF i = n + 1 THEN 1 ELSE g[i]
      BY <1>3, <2>2, <2>4 DEF Upto
    <3>3. g[n + 1] = 0
      BY <1>3, <2>3 DEF Upto
    <3>4. Upto(n + 1, p) = [i \in Lines |-> Upto(n + 1, p)[i]]
      BY DEF Upto
    <3> HIDE DEF g
    <3>5. [g EXCEPT ![n + 1] = @ + 1] =
            [i \in Lines |-> IF i = n + 1 THEN 1 ELSE g[i]]
      BY <1>3, <3>1, <3>3
    <3>6. Upto(n + 1, p) = [g EXCEPT ![n + 1] = @ + 1]
      BY <3>2, <3>4, <3>5
    <3> QED BY <2>4, <3>6 DEF g
  <2>5. CASE Output[n + 1] # p
    BY <1>3, <2>2, <2>5 DEF Upto
  <2> QED BY <2>4, <2>5
<1> QED BY <1>1, <1>2, <1>3

\* A text that line n + 1 is appended to, or its newline; one of another
\* partition.
LEMMA SoundMono ==
  ASSUME NEW text, NEW n, NEW p, NEW u, NEW o, NEW u2, NEW o2,
         u \subseteq u2, o \subseteq o2, Sound(text, n, p, u, o)
  PROVE  Sound(text, n, p, u2, o2)
BY DEF Sound

LEMMA WithLineLemma ==
  ASSUME NEW text, NEW n \in Nat, NEW p \in Partitions, NEW u,
         n + 1 \in Lines, Sound(text, n, p, u, u)
  PROVE  IF Output[n + 1] = p
           THEN Sound(WithLine(text, n + 1), n + 1, p, u, u \cup {n + 1})
           ELSE Sound(text, n + 1, p, u, u)
<1>1. CASE Output[n + 1] = p
  <2> DEFINE lines == [text.lines EXCEPT ![n + 1] = @ + 1]
             joined == text.joined \cup (IF text.open = None THEN {}
                                         ELSE {<<text.open, n + 1>>})
  <2>1. Upto(n + 1, p) = lines /\ Upto(n + 1, p) \in Content
    BY <1>1, UptoLemma DEF Sound
  <2>2. /\ text.lines \in Content /\ text.joined \subseteq Lines \X Lines
        /\ text.open \in Lines \cup {None}
    BY DEF Sound, Text
  <2>3. lines[n + 1] > 0 /\ \A i \in Lines : text.lines[i] > 0 => lines[i] > 0
    BY <2>2 DEF Content
  <2>4. joined \subseteq Lines \X Lines
    BY <2>2
  <2>5. \A pair \in joined : pair[1] \in u /\ lines[pair[2]] > 0
    <3>1. \A pair \in text.joined :
            pair[1] \in u /\ pair[2] \in Lines /\ text.lines[pair[2]] > 0
      BY <2>2 DEF Sound
    <3>2. text.open # None => text.open \in u
      BY DEF Sound
    <3> HIDE DEF lines
    <3> QED BY <2>3, <3>1, <3>2
  <2>6. WithLine(text, n + 1) =
          [lines |-> lines, joined |-> joined, open |-> n + 1]
    BY DEF WithLine
  <2> HIDE DEF lines, joined
  <2>7. WithLine(text, n + 1) \in Text
    BY <2>1, <2>4, <2>6 DEF Text
  <2> QED BY <1>1, <2>1, <2>3, <2>5, <2>6, <2>7 DEF Sound
<1>2. CASE Output[n + 1] # p
  <2>1. Upto(n + 1, p) = Upto(n, p)
    BY <1>2, UptoLemma
  <2> QED BY <1>2, <2>1 DEF Sound
<1> QED BY <1>1, <1>2

LEMMA WithNewlineLemma ==
  ASSUME NEW text, NEW n, NEW p, NEW u, NEW o, Sound(text, n, p, u, o)
  PROVE  Sound(WithNewline(text), n, p, u, {})
<1>1. WithNewline(text) =
        [lines |-> text.lines, joined |-> text.joined, open |-> None]
  BY DEF WithNewline, Sound, Text
<1>2. WithNewline(text) \in Text
  BY <1>1 DEF Sound, Text
<1> QED BY <1>1, <1>2 DEF Sound

\* A store that a step does not touch.  The files of its host count only if it
\* spills.
LEMMA FrameLemma ==
  ASSUME NEW f \in Executions, StoreInv(f),
         stage'[f] = stage[f], taken'[f] = taken[f], onDisk'[f] = onDisk[f],
         buffers'[f] = buffers[f], spilled'[f] = spilled[f],
         unended \subseteq unended',
         Spills(f) => files'[Host(f)] = files[Host(f)]
  PROVE  StoreInv(f)'
<1>1. \A p : Kept(f, p)' = Kept(f, p)
  BY DEF StoreInv, Kept
<1>2. \A p : Served(f, p)' = Served(f, p)
  BY DEF StoreInv, Served
<1>3. MayBeOpen(f) \subseteq MayBeOpen(f)'
  BY DEF MayBeOpen
<1>4. stage[f] \in {"reading", "ending", "spilling", "published", "retiring"} =>
        \A p \in Partitions :
          Sound(Kept(f, p)', taken'[f], p, unended', MayBeOpen(f)')
  <2>1. \A p \in Partitions :
          Sound(Kept(f, p), taken[f], p, unended, MayBeOpen(f)) =>
            Sound(Kept(f, p), taken[f], p, unended', MayBeOpen(f)')
    BY <1>3, SoundMono
  <2> QED BY <1>1, <2>1 DEF StoreInv
<1> QED BY <1>2, <1>4 DEF StoreInv

\* What is served of a store that was published.
LEMMA ServedLemma ==
  ASSUME IInv, NEW e \in Executions, NEW p \in Partitions
  PROVE  /\ stage[e] \in {"published", "retiring"} =>
              /\ Served(e, p) \in Text /\ Complete(Served(e, p), p)
              /\ \A pair \in Served(e, p).joined :
                   Served(e, p).lines[pair[2]] > 0
         /\ stage[e] = "over" => Served(e, p) = None
<1>1. StoreInv(e)
  BY DEF IInv
<1>2. CASE stage[e] \in {"published", "retiring"}
  <2>1. Kept(e, p) = Served(e, p)
    BY <1>2 DEF Kept, Served
  <2>2. Sound(Kept(e, p), Len(Output), p, unended, MayBeOpen(e))
    BY <1>1, <1>2 DEF StoreInv
  <2> QED BY <1>2, <2>1, <2>2 DEF Sound, Complete, Whole
<1> QED BY <1>1, <1>2 DEF StoreInv

\* A store that is published, or goes out of use, stays as it is.
LEMMA MovedLemma ==
  ASSUME NEW f \in Executions, StoreInv(f),
         stage[f] \in {"reading", "published"}, taken[f] = Len(Output),
         stage'[f] \in {"published", "retiring"},
         UNCHANGED <<taken, onDisk, buffers, spilled, files, unended>>
  PROVE  StoreInv(f)'
<1>1. MayBeOpen(f) = unended /\ MayBeOpen(f)' = unended
  BY DEF MayBeOpen
<1>2. \A p : Kept(f, p)' = Kept(f, p)
  BY DEF Kept
<1>3. \A p \in Partitions : Sound(Kept(f, p), taken[f], p, unended, unended)
  BY <1>1 DEF StoreInv
<1>4. spilled'[f] \/ stage'[f] = "spilling" => Spills(f)
  BY DEF StoreInv
<1> QED BY <1>1, <1>2, <1>3, <1>4 DEF StoreInv, Spills

LEMMA InitInv == Init => IInv
<1> SUFFICES ASSUME Init PROVE IInv
  OBVIOUS
<1>1. TypeOK
  <2>1. Len(Output) \in Nat /\ 0 \in 0 .. Len(Output)
    BY OutputLemma
  <2>2. 0 \in 0 .. NumPartitions
    BY NumPartitionsAssumption
  <2> QED BY <2>1, <2>2 DEF Init, TypeOK, Stages, NoFiles
<1>2. \A e \in Executions : StoreInv(e)
  BY DEF Init, StoreInv
<1>3. NoPartialReads /\ responses = {}
  BY DEF Init, NoPartialReads
<1> QED BY <1>1, <1>2, <1>3 DEF Init, IInv

-----------------------------------------------------------------------------
(* Steps                                                                   *)

\* Where an execution runs.
LEMMA PlaceLemma ==
  ASSUME NEW e \in Executions
  PROVE  WorkerOf[e] \in Workers /\ Host(e) \in Hosts /\ Threshold(e) \in Nat
BY WorkerOfAssumption, HostOfAssumption, SpillAtAssumption DEF Host, Threshold

\* A step of one execution whose store is not published: it leaves the other
\* stores alone, for it touches files only if it spills.
LEMMA StoreStep ==
  ASSUME NoSharing, IInv, NEW e \in Executions,
         stage[e] \in {"waiting", "reading", "ending", "spilling"},
         \A f \in Executions \ {e} :
           /\ stage'[f] = stage[f] /\ taken'[f] = taken[f]
           /\ onDisk'[f] = onDisk[f] /\ buffers'[f] = buffers[f]
           /\ spilled'[f] = spilled[f],
         Spills(e) \/ files' = files,
         \A h \in Hosts \ {Host(e)} : files'[h] = files[h],
         UNCHANGED <<published, requests, responses>>,
         unended \subseteq unended',
         TypeOK', StoreInv(e)'
  PROVE  IInv'
<1>1. ASSUME NEW f \in Executions \ {e}
      PROVE  StoreInv(f)'
  <2>1. Spills(f) => files'[Host(f)] = files[Host(f)]
    BY PlaceLemma DEF NoSharing
  <2>2. StoreInv(f)
    BY DEF IInv
  <2> QED BY <2>1, <2>2, FrameLemma
<1>2. \A w \in Workers : published[w] # None =>
        WorkerOf[published[w]] = w /\ stage'[published[w]] = "published"
  BY DEF IInv, TypeOK
<1>3. \A r \in requests : stage'[r.store] \in {"published", "retiring", "over"}
  BY DEF IInv, TypeOK, Requests
<1>4. NoPartialReads'
  BY DEF IInv, NoPartialReads, Complete
<1> QED BY <1>1, <1>2, <1>3, <1>4 DEF IInv

LEMMA NewPartitionStoreStep ==
  ASSUME NoSharing, IInv, NEW e \in Executions, NewPartitionStore(e)
  PROVE  IInv'
<1>1. /\ stage[e] = "waiting"
      /\ stage' = [stage EXCEPT ![e] = "reading"]
      /\ buffers' = [buffers EXCEPT ![e] = [p \in Partitions |-> EmptyText]]
      /\ UNCHANGED <<taken, onDisk, spilled, files, dirs, diskErrors, unended,
                     published, up, requests, responses>>
  BY DEF NewPartitionStore, Running, diskVars, httpVars
<1>2. TypeOK /\ StoreInv(e)
  BY DEF IInv
<1>3. EmptyText \in Text
  BY DEF Empty, Content, EmptyText, Text
<1>4. TypeOK'
  BY <1>1, <1>2, <1>3 DEF TypeOK, Stages
<1>5. /\ stage'[e] = "reading"
      /\ buffers'[e] = [p \in Partitions |-> EmptyText]
      /\ ~spilled'[e] /\ onDisk'[e] = 0 /\ taken'[e] = 0
  BY <1>1, <1>2 DEF TypeOK, StoreInv
<1>6. StoreInv(e)'
  <2>1. \A p \in Partitions : Kept(e, p)' = EmptyText
    BY <1>5 DEF Kept
  <2>2. \A p \in Partitions :
          Sound(EmptyText, 0, p, unended', MayBeOpen(e)')
    BY <1>3, UptoLemma DEF Sound, EmptyText
  <2> QED BY <1>5, <2>1, <2>2 DEF StoreInv
<1>7. \A f \in Executions \ {e} :
        stage'[f] = stage[f] /\ buffers'[f] = buffers[f]
  BY <1>1, <1>2 DEF TypeOK
<1> QED BY <1>1, <1>4, <1>6, <1>7, StoreStep

LEMMA WriteToMemoryStep ==
  ASSUME NoSharing, BuildsAgree, IInv, NEW e \in Executions, WriteToMemory(e)
  PROVE  IInv'
<1> DEFINE n == taken[e]
           q == Output[n + 1]
<1>1. /\ stage[e] = "reading" /\ ~spilled[e] /\ n + 1 \in Lines
      /\ taken' = [taken EXCEPT ![e] = n + 1]
      /\ buffers' = [buffers EXCEPT ![e][q] = WithNewline(WithLine(@, n + 1))]
      /\ \/ /\ Threshold(e) > 0 /\ n + 1 >= Threshold(e)
            /\ stage' = [stage EXCEPT ![e] = "spilling"]
            /\ dirs' = dirs \cup {Host(e)}
         \/ UNCHANGED <<stage, dirs>>
      /\ UNCHANGED <<onDisk, spilled, files, diskErrors, unended, published, up,
                     requests, responses>>
  BY PlacementLemma DEF WriteToMemory, Running, httpVars
<1>2. TypeOK /\ StoreInv(e)
  BY DEF IInv
<1>3. /\ n \in Nat /\ n + 1 \in 0 .. Len(Output) /\ q \in Partitions
      /\ Len(Output) \in Nat
  BY <1>1, <1>2, OutputLemma DEF TypeOK, Lines
<1>4. /\ \A p \in Partitions :
           Sound(buffers[e][p], n, p, unended, unended)
      /\ onDisk[e] = 0
  BY <1>1, <1>2 DEF StoreInv, Kept, MayBeOpen
<1>5. buffers[e] \in [Partitions -> Text \cup {None}]
        /\ buffers \in [Executions -> [Partitions -> Text \cup {None}]]
  BY <1>2 DEF TypeOK
<1>6. /\ \A f \in Executions \ {e} : buffers'[f] = buffers[f]
      /\ buffers'[e] = [buffers[e] EXCEPT ![q] =
                          WithNewline(WithLine(buffers[e][q], n + 1))]
  BY <1>1, <1>5
<1>7. \A p \in Partitions : Sound(buffers'[e][p], n + 1, p, unended, unended)
  <2> SUFFICES ASSUME NEW p \in Partitions
               PROVE  Sound(buffers'[e][p], n + 1, p, unended, unended)
    OBVIOUS
  <2>1. buffers'[e][p] = IF q = p
                           THEN WithNewline(WithLine(buffers[e][p], n + 1))
                           ELSE buffers[e][p]
    BY <1>3, <1>5, <1>6
  <2>2. IF q = p
          THEN Sound(WithLine(buffers[e][p], n + 1), n + 1, p, unended,
                     unended \cup {n + 1})
          ELSE Sound(buffers[e][p], n + 1, p, unended, unended)
    BY <1>1, <1>3, <1>4, WithLineLemma
  <2>3. CASE q = p
    <3>1. Sound(buffers'[e][p], n + 1, p, unended, {})
      BY <2>1, <2>2, <2>3, WithNewlineLemma
    <3> QED BY <3>1, SoundMono
  <2> QED BY <2>1, <2>2, <2>3
<1>8. buffers' \in [Executions -> [Partitions -> Text \cup {None}]]
  <2>1. buffers'[e] \in [Partitions -> Text \cup {None}]
    <3>1. buffers'[e] = [p \in Partitions |-> buffers'[e][p]]
      BY <1>5, <1>6
    <3>2. \A p \in Partitions : buffers'[e][p] \in Text
      BY <1>7 DEF Sound
    <3> QED BY <3>1, <3>2
  <2>2. buffers' = [f \in Executions |-> buffers'[f]]
    BY <1>1, <1>5
  <2> QED BY <1>5, <1>6, <2>1, <2>2
<1>9. TypeOK'
  BY <1>1, <1>2, <1>3, <1>8, PlaceLemma DEF TypeOK, Stages
<1>10. stage'[e] = "spilling" => Spills(e)
  BY <1>1, <1>3, PlaceLemma DEF Spills, Lines
<1>11. /\ taken'[e] = n + 1 /\ ~spilled'[e] /\ onDisk'[e] = 0
       /\ stage'[e] \in {"reading", "spilling"}
       /\ \A f \in Executions \ {e} :
            stage'[f] = stage[f] /\ taken'[f] = taken[f]
  BY <1>1, <1>2, <1>4 DEF TypeOK
<1>12. StoreInv(e)'
  <2>1. 0 < NumPartitions /\ \A p \in Partitions : ~(p < 0)
    BY NumPartitionsAssumption DEF Partitions
  <2>2. \A p \in Partitions : Kept(e, p)' = buffers'[e][p]
    BY <1>11, <2>1 DEF Kept
  <2>3. MayBeOpen(e)' = unended /\ unended' = unended
    BY <1>1, <1>11 DEF MayBeOpen
  <2> QED BY <1>7, <1>10, <1>11, <2>1, <2>2, <2>3 DEF StoreInv
<1> QED BY <1>1, <1>6, <1>9, <1>11, <1>12, StoreStep

LEMMA SpillPartitionStep ==
  ASSUME NoSharing, IInv, NEW e \in Executions, SpillPartition(e)
  PROVE  IInv'
<1> DEFINE p == onDisk[e]
           h == Host(e)
<1>1. /\ stage[e] = "spilling"
      /\ files' = [files EXCEPT ![h][p] = buffers[e][p]]
      /\ buffers' = [buffers EXCEPT ![e][p] = None]
      /\ onDisk' = [onDisk EXCEPT ![e] = p + 1]
      /\ UNCHANGED <<taken, dirs, diskErrors, unended, published, up,
                     requests, responses>>
      /\ \/ /\ p + 1 = NumPartitions
            /\ spilled' = [spilled EXCEPT ![e] = TRUE]
            /\ stage' = [stage EXCEPT ![e] = "reading"]
         \/ p + 1 # NumPartitions /\ UNCHANGED <<spilled, stage>>
  BY DEF SpillPartition, Running, httpVars
<1>2. TypeOK /\ StoreInv(e)
  BY DEF IInv
<1>3. /\ p \in Partitions /\ p + 1 \in 0 .. NumPartitions
      /\ Spills(e) /\ ~spilled[e] /\ h \in Hosts
  BY <1>1, <1>2, NumPartitionsAssumption, PlaceLemma
     DEF StoreInv, TypeOK, Partitions
<1>4. \A k \in Partitions :
        Sound(IF k < p THEN files[h][k] ELSE buffers[e][k],
              taken[e], k, unended, unended)
  BY <1>1, <1>2, <1>3 DEF StoreInv, Kept, MayBeOpen
<1>5. /\ files \in [Hosts -> [Partitions -> Text \cup {None}]]
      /\ buffers \in [Executions -> [Partitions -> Text \cup {None}]]
      /\ onDisk \in [Executions -> 0 .. NumPartitions]
  BY <1>2 DEF TypeOK
<1> HIDE DEF p, h
<1>6. /\ files'[h] = [files[h] EXCEPT ![p] = buffers[e][p]]
      /\ \A k \in Hosts \ {h} : files'[k] = files[k]
      /\ files' \in [Hosts -> [Partitions -> Text \cup {None}]]
  BY <1>1, <1>3, <1>5
<1>7. /\ buffers'[e] = [buffers[e] EXCEPT ![p] = None]
      /\ \A f \in Executions \ {e} : buffers'[f] = buffers[f]
      /\ buffers' \in [Executions -> [Partitions -> Text \cup {None}]]
  BY <1>1, <1>3, <1>5
<1>8. /\ onDisk'[e] = p + 1 /\ taken'[e] = taken[e]
      /\ \A f \in Executions \ {e} :
           /\ onDisk'[f] = onDisk[f] /\ taken'[f] = taken[f]
           /\ stage'[f] = stage[f] /\ spilled'[f] = spilled[f]
  BY <1>1, <1>2, <1>5 DEF TypeOK
<1>9. \/ /\ p + 1 = NumPartitions /\ spilled'[e] = TRUE /\ stage'[e] = "reading"
      \/ p + 1 < NumPartitions /\ spilled'[e] = FALSE /\ stage'[e] = "spilling"
  BY <1>1, <1>2, <1>3, NumPartitionsAssumption DEF TypeOK
<1>10. TypeOK'
  BY <1>1, <1>2, <1>3, <1>6, <1>7 DEF TypeOK, Stages
<1>11. \A k \in Partitions :
         Kept(e, k)' = IF k < p THEN files[h][k] ELSE buffers[e][k]
  <2> SUFFICES ASSUME NEW k \in Partitions
               PROVE  Kept(e, k)' = IF k < p THEN files[h][k] ELSE buffers[e][k]
    OBVIOUS
  <2>1. k \in 0 .. NumPartitions - 1 /\ p \in 0 .. NumPartitions - 1
          /\ NumPartitions \in Nat
    BY <1>3, NumPartitionsAssumption DEF Partitions
  <2>2. Kept(e, k)' = IF k < p + 1 THEN files'[h][k] ELSE buffers'[e][k]
    BY <1>8, <1>9, <2>1 DEF Kept, h
  <2>3. files'[h][k] = (IF k = p THEN buffers[e][k] ELSE files[h][k])
    BY <1>3, <1>5, <1>6
  <2>4. k # p => buffers'[e][k] = buffers[e][k]
    BY <1>3, <1>5, <1>7
  <2> QED BY <2>1, <2>2, <2>3, <2>4
<1>12. StoreInv(e)'
  <2>1. MayBeOpen(e)' = unended /\ unended' = unended
    BY <1>1, <1>9 DEF MayBeOpen
  <2>2. \A k \in Partitions :
          Sound(Kept(e, k)', taken'[e], k, unended', MayBeOpen(e)')
    BY <1>4, <1>8, <1>11, <2>1
  <2> QED BY <1>3, <1>8, <1>9, <2>2 DEF StoreInv
<1>13. \A k \in Hosts \ {Host(e)} : files'[k] = files[k]
  BY <1>6 DEF h
<1> QED BY <1>1, <1>3, <1>7, <1>8, <1>10, <1>12, <1>13, StoreStep

\* A step of an execution on one file of its host.
LEMMA FileLemma ==
  ASSUME TypeOK, NEW h \in Hosts, NEW q \in Partitions, NEW text \in Text,
         files' = [files EXCEPT ![h][q] = text]
  PROVE  /\ files' \in [Hosts -> [Partitions -> Text \cup {None}]]
         /\ files'[h][q] = text
         /\ \A p \in Partitions \ {q} : files'[h][p] = files[h][p]
         /\ \A k \in Hosts \ {h} : files'[k] = files[k]
<1>1. files \in [Hosts -> [Partitions -> Text \cup {None}]]
  BY DEF TypeOK
<1>2. /\ files'[h] = [files[h] EXCEPT ![q] = text]
      /\ \A k \in Hosts \ {h} : files'[k] = files[k]
  BY <1>1
<1>3. files[h] \in [Partitions -> Text \cup {None}]
  BY <1>1
<1> QED BY <1>1, <1>2, <1>3

LEMMA WriteToDiskStep ==
  ASSUME NoSharing, BuildsAgree, IInv, NEW e \in Executions, WriteToDisk(e)
  PROVE  IInv'
<1> DEFINE n == taken[e]
           q == Output[n + 1]
           h == Host(e)
           text == WithLine(files[h][q], n + 1)
<1>1. /\ stage[e] = "reading" /\ spilled[e] /\ n + 1 \in Lines
      /\ PartitionOf(WorkerOf[e], Keys[n + 1]) = q
      /\ UNCHANGED <<buffers, onDisk, spilled, dirs, unended, published, up,
                     requests, responses>>
      /\ diskErrors' = diskErrors \/ diskErrors' = diskErrors + 1
      /\ \/ /\ files' = [files EXCEPT ![h][q] = WithLine(@, n + 1)]
            /\ taken' = [taken EXCEPT ![e] = n + 1]
            /\ stage' = [stage EXCEPT ![e] = "ending"]
         \/ /\ stage' = [stage EXCEPT ![e] = "failing"]
            /\ UNCHANGED <<files, taken>>
  BY PlacementLemma DEF WriteToDisk, DiskError, Running, httpVars
<1>2. TypeOK /\ StoreInv(e)
  BY DEF IInv
<1>3. /\ n \in Nat /\ n + 1 \in 0 .. Len(Output) /\ q \in Partitions
      /\ Len(Output) \in Nat /\ Spills(e) /\ h \in Hosts
  BY <1>1, <1>2, OutputLemma, PlaceLemma DEF TypeOK, Lines, StoreInv
<1>4. \A p \in Partitions : Sound(files[h][p], n, p, unended, unended)
  BY <1>1, <1>2 DEF StoreInv, Kept, MayBeOpen
<1>5. files \in [Hosts -> [Partitions -> Text \cup {None}]]
  BY <1>2 DEF TypeOK
<1>6. CASE stage' = [stage EXCEPT ![e] = "failing"] /\ UNCHANGED <<files, taken>>
  <2>1. TypeOK'
    BY <1>1, <1>2, <1>6 DEF TypeOK, Stages
  <2>2. /\ stage'[e] = "failing"
        /\ \A f \in Executions \ {e} : stage'[f] = stage[f]
    BY <1>2, <1>6 DEF TypeOK
  <2>3. StoreInv(e)'
    BY <1>1, <1>3, <2>2 DEF StoreInv
  <2> QED BY <1>1, <1>6, <2>1, <2>2, <2>3, StoreStep
<1>7. CASE /\ files' = [files EXCEPT ![h][q] = WithLine(@, n + 1)]
           /\ taken' = [taken EXCEPT ![e] = n + 1]
           /\ stage' = [stage EXCEPT ![e] = "ending"]
  <2>1. files' = [files EXCEPT ![h][q] = text]
    BY <1>3, <1>5, <1>7
  <2>2. Sound(text, n + 1, q, unended, unended \cup {n + 1})
    BY <1>1, <1>3, <1>4, WithLineLemma
  <2>3. \A p \in Partitions \ {q} :
          Sound(files[h][p], n + 1, p, unended, unended)
    BY <1>1, <1>3, <1>4, WithLineLemma
  <2>4. text \in Text
    BY <2>2 DEF Sound
  <2> HIDE DEF text, h
  <2>5. /\ files' \in [Hosts -> [Partitions -> Text \cup {None}]]
        /\ files'[h][q] = text
        /\ \A p \in Partitions \ {q} : files'[h][p] = files[h][p]
        /\ \A k \in Hosts \ {h} : files'[k] = files[k]
    BY <1>2, <1>3, <2>1, <2>4, FileLemma
  <2>6. TypeOK'
    BY <1>1, <1>2, <1>3, <1>7, <2>5 DEF TypeOK, Stages
  <2>7. /\ taken'[e] = n + 1 /\ stage'[e] = "ending"
        /\ \A f \in Executions \ {e} :
             taken'[f] = taken[f] /\ stage'[f] = stage[f]
    BY <1>2, <1>7 DEF TypeOK
  <2>8. MayBeOpen(e)' = unended \cup {n + 1}
    BY <1>1, <2>7 DEF MayBeOpen
  <2>9. \A p \in Partitions :
          Sound(files'[h][p], n + 1, p, unended, unended \cup {n + 1})
    BY <2>2, <2>3, <2>5, SoundMono
  <2>10. \A p \in Partitions : Kept(e, p)' = files'[h][p]
    BY <1>1 DEF Kept, h
  <2>11. StoreInv(e)'
    BY <1>1, <1>3, <2>7, <2>8, <2>9, <2>10 DEF StoreInv
  <2>12. \A k \in Hosts \ {Host(e)} : files'[k] = files[k]
    BY <2>5 DEF h
  <2> QED BY <1>1, <1>3, <2>6, <2>7, <2>11, <2>12, StoreStep
<1> QED BY <1>1, <1>6, <1>7

\* The last line gets its newline, or it is one of those that have none.
LEMMA EndLineStep ==
  ASSUME NoSharing, BuildsAgree, IInv, NEW e \in Executions, EndLine(e)
  PROVE  IInv'
<1> DEFINE n == taken[e]
           q == Output[n]
           h == Host(e)
           text == WithNewline(files[h][q])
<1>1. TypeOK /\ StoreInv(e) /\ stage[e] = "ending"
  BY DEF IInv, EndLine, Running
<1>2. /\ spilled[e] /\ n \in Lines /\ n \in Nat /\ q \in Partitions
      /\ PartitionOf(WorkerOf[e], Keys[n]) = q
      /\ Spills(e) /\ h \in Hosts
  BY <1>1, PlacementLemma, OutputLemma, PlaceLemma DEF StoreInv, TypeOK
<1>3. /\ stage' = [stage EXCEPT ![e] = "reading"]
      /\ UNCHANGED <<taken, buffers, onDisk, spilled, dirs, published, up,
                     requests, responses>>
      /\ diskErrors' = diskErrors \/ diskErrors' = diskErrors + 1
      /\ \/ /\ files' = [files EXCEPT ![h][q] = WithNewline(@)]
            /\ unended' = unended
         \/ /\ unended' = unended \cup {n}
            /\ UNCHANGED files
  BY <1>2 DEF EndLine, DiskError, httpVars
<1>4. \A p \in Partitions : Sound(files[h][p], n, p, unended, unended \cup {n})
  BY <1>1, <1>2 DEF StoreInv, Kept, MayBeOpen
<1>5. files \in [Hosts -> [Partitions -> Text \cup {None}]]
  BY <1>1 DEF TypeOK
<1>6. /\ stage'[e] = "reading" /\ unended \subseteq unended'
      /\ unended' \subseteq Lines /\ MayBeOpen(e)' = unended'
      /\ \A f \in Executions \ {e} : stage'[f] = stage[f]
  BY <1>1, <1>2, <1>3 DEF TypeOK, MayBeOpen
<1>7. /\ files' \in [Hosts -> [Partitions -> Text \cup {None}]]
      /\ \A k \in Hosts \ {h} : files'[k] = files[k]
      /\ \A p \in Partitions : Sound(files'[h][p], n, p, unended', unended')
  <2>1. CASE unended' = unended \cup {n} /\ UNCHANGED files
    BY <1>4, <1>5, <2>1, SoundMono
  <2>2. CASE /\ files' = [files EXCEPT ![h][q] = WithNewline(@)]
             /\ unended' = unended
    <3>1. files' = [files EXCEPT ![h][q] = text]
      BY <1>2, <1>5, <2>2
    <3>2. Sound(text, n, q, unended, {})
      BY <1>2, <1>4, WithNewlineLemma
    <3>3. text \in Text
      BY <3>2 DEF Sound
    <3> HIDE DEF text, h
    <3>4. /\ files' \in [Hosts -> [Partitions -> Text \cup {None}]]
          /\ files'[h][q] = text
          /\ \A p \in Partitions \ {q} : files'[h][p] = files[h][p]
          /\ \A k \in Hosts \ {h} : files'[k] = files[k]
      BY <1>1, <1>2, <3>1, <3>3, FileLemma
    <3>5. ASSUME NEW p \in Partitions \ {q}
          PROVE  Sound(files[h][p], n, p, unended, unended)
      <4>1. Sound(files[h][p], n, p, unended, unended \cup {n})
        BY <1>4
      <4>2. files[h][p].lines[n] = 0
        BY <1>2, <4>1 DEF Sound, Upto
      <4> QED BY <4>1, <4>2 DEF Sound
    <3>6. Sound(text, n, q, unended, unended)
      BY <3>2, SoundMono
    <3> QED BY <2>2, <3>4, <3>5, <3>6
  <2> QED BY <1>3, <2>1, <2>2
<1> HIDE DEF h
<1>8. TypeOK'
  BY <1>1, <1>3, <1>6, <1>7 DEF TypeOK, Stages
<1>9. \A p \in Partitions : Kept(e, p)' = files'[h][p]
  BY <1>2, <1>3 DEF Kept, h
<1>10. StoreInv(e)'
  BY <1>2, <1>3, <1>6, <1>7, <1>9 DEF StoreInv
<1>11. \A k \in Hosts \ {Host(e)} : files'[k] = files[k]
  BY <1>7 DEF h
<1> QED BY <1>1, <1>2, <1>3, <1>6, <1>8, <1>10, <1>11, StoreStep

LEMMA FailStep ==
  ASSUME NoSharing, IInv, NEW e \in Executions, SpillFails(e) \/ ChildFails(e)
  PROVE  IInv'
<1>1. /\ stage[e] \in {"reading", "spilling"}
      /\ stage' = [stage EXCEPT ![e] = "failing"]
      /\ diskErrors' = diskErrors \/ diskErrors' = diskErrors + 1
      /\ UNCHANGED <<taken, buffers, onDisk, spilled, files, dirs, unended,
                     published, up, requests, responses>>
  BY DEF SpillFails, DiskError, ChildFails, Running, diskVars, httpVars
<1>2. TypeOK /\ StoreInv(e)
  BY DEF IInv
<1>3. TypeOK'
  BY <1>1, <1>2 DEF TypeOK, Stages
<1>4. /\ stage'[e] = "failing"
      /\ \A f \in Executions \ {e} : stage'[f] = stage[f]
  BY <1>1, <1>2 DEF TypeOK
<1>5. StoreInv(e)'
  BY <1>1, <1>2, <1>4 DEF StoreInv, Spills
<1> QED BY <1>1, <1>3, <1>4, <1>5, StoreStep

\* The published store is replaced; the old one keeps its lines for a while.
LEMMA PublishStep ==
  ASSUME IInv, NEW e \in Executions, Publish(e)
  PROVE  IInv'
<1> DEFINE w == WorkerOf[e]
           old == published[w]
<1>1. /\ stage[e] = "reading" /\ taken[e] = Len(Output)
      /\ published' = [published EXCEPT ![w] = e]
      /\ stage' = [k \in Executions |->
                     IF k = e THEN "published"
                     ELSE IF k = old THEN "retiring"
                     ELSE stage[k]]
      /\ UNCHANGED <<taken, buffers, onDisk, spilled, files, dirs, diskErrors,
                     unended, up, requests, responses>>
  BY DEF Publish, Running, diskVars, httpVars
<1>2. TypeOK /\ w \in Workers /\ e # None
  BY PlaceLemma, NoneAssumption DEF IInv
<1>3. old # None => /\ old \in Executions /\ old # e
                    /\ stage[old] = "published" /\ WorkerOf[old] = w
  BY <1>1, <1>2 DEF IInv, TypeOK
<1> HIDE DEF old, w
<1>4. /\ stage'[e] = "published"
      /\ old # None => stage'[old] = "retiring"
      /\ \A f \in Executions \ {e, old} : stage'[f] = stage[f]
  BY <1>1, <1>3
<1>5. published' \in [Workers -> Executions \cup {None}]
        /\ published'[w] = e
        /\ \A v \in Workers \ {w} : published'[v] = published[v]
  BY <1>1, <1>2 DEF TypeOK
<1>6. stage' \in [Executions -> Stages]
  <2>1. \A f \in Executions : stage'[f] \in Stages
    BY <1>2, <1>3, <1>4, NoneAssumption DEF TypeOK, Stages
  <2> QED BY <1>1, <2>1
<1>7. TypeOK'
  BY <1>1, <1>2, <1>5, <1>6 DEF TypeOK
<1>8. ASSUME NEW f \in Executions
      PROVE  StoreInv(f)'
  <2>1. StoreInv(f)
    BY DEF IInv
  <2>2. CASE f = e
    BY <1>1, <1>4, <2>1, <2>2, MovedLemma
  <2>3. CASE f # e /\ f = old
    <3>1. old # None
      BY <2>3, NoneAssumption
    <3>2. stage[f] = "published" /\ stage'[f] = "retiring"
      BY <1>3, <1>4, <2>3, <3>1
    <3>3. taken[f] = Len(Output)
      BY <2>1, <3>2 DEF StoreInv
    <3> QED BY <1>1, <2>1, <3>2, <3>3, MovedLemma
  <2>4. CASE f # e /\ f # old
    BY <1>1, <1>4, <2>1, <2>4, FrameLemma
  <2> QED BY <2>2, <2>3, <2>4
<1>9. ASSUME NEW v \in Workers, published'[v] # None
      PROVE  /\ WorkerOf[published'[v]] = v
             /\ stage'[published'[v]] = "published"
  <2>1. CASE v = w
    BY <1>4, <1>5, <2>1 DEF w
  <2>2. CASE v # w
    <3>1. published'[v] = published[v]
      BY <1>5, <2>2
    <3>2. /\ published[v] \in Executions /\ WorkerOf[published[v]] = v
          /\ stage[published[v]] = "published"
      BY <1>2, <1>9, <3>1 DEF IInv, TypeOK
    <3>3. published[v] # e /\ published[v] # old
      BY <1>1, <1>3, <2>2, <3>2, NoneAssumption
    <3> QED BY <1>4, <3>1, <3>2, <3>3
  <2> QED BY <2>1, <2>2
<1>10. \A r \in requests' :
         stage'[r.store] \in {"published", "retiring", "over"}
  BY <1>1, <1>2, <1>3, <1>4 DEF IInv, TypeOK, Requests
<1>11. NoPartialReads'
  BY <1>1 DEF IInv, NoPartialReads, Complete
<1> QED BY <1>1, <1>7, <1>8, <1>9, <1>10, <1>11 DEF IInv

\* The files that go are those of the only execution that spills on the host.
LEMMA CleanupStep ==
  ASSUME NoSharing, IInv, NEW e \in Executions, Cleanup(e)
  PROVE  IInv'
<1> DEFINE h == Host(e)
<1>1. /\ stage[e] \in {"failing", "retiring"}
      /\ stage' = [stage EXCEPT ![e] = "over"]
      /\ buffers' = [buffers EXCEPT ![e] = NoFiles]
      /\ \/ /\ spilled[e]
            /\ files' = [files EXCEPT ![h] = NoFiles]
            /\ dirs' = dirs \ {h}
         \/ ~spilled[e] /\ UNCHANGED <<files, dirs>>
      /\ UNCHANGED <<taken, onDisk, spilled, diskErrors, unended, published, up,
                     requests, responses>>
  BY DEF Cleanup, httpVars
<1>2. TypeOK /\ StoreInv(e) /\ h \in Hosts
  BY PlaceLemma DEF IInv
<1> HIDE DEF h
<1>3. NoFiles \in [Partitions -> Text \cup {None}]
  BY DEF NoFiles
<1>4. TypeOK'
  BY <1>1, <1>2, <1>3 DEF TypeOK, Stages
<1>5. /\ stage'[e] = "over" /\ buffers'[e] = NoFiles
      /\ spilled[e] => Spills(e) /\ files'[h] = NoFiles
      /\ ~spilled[e] => files' = files
      /\ \A k \in Hosts \ {h} : files'[k] = files[k]
      /\ \A f \in Executions \ {e} :
           stage'[f] = stage[f] /\ buffers'[f] = buffers[f]
  BY <1>1, <1>2 DEF TypeOK, StoreInv
<1>6. ASSUME NEW f \in Executions \ {e}
      PROVE  StoreInv(f)'
  <2>1. Spills(f) => files'[Host(f)] = files[Host(f)]
    BY <1>5, PlaceLemma DEF NoSharing, h
  <2>2. StoreInv(f)
    BY DEF IInv
  <2> QED BY <1>1, <1>5, <2>1, <2>2, FrameLemma
<1>7. StoreInv(e)'
  <2>1. \A p \in Partitions : Served(e, p)' = None
    BY <1>1, <1>5 DEF Served, NoFiles, h
  <2> QED BY <1>1, <1>5, <2>1 DEF StoreInv, Spills
<1>8. \A w \in Workers : published[w] # None =>
        WorkerOf[published[w]] = w /\ stage'[published[w]] = "published"
  BY <1>1, <1>2, <1>5 DEF IInv, TypeOK
<1>9. \A r \in requests : stage'[r.store] \in {"published", "retiring", "over"}
  BY <1>2, <1>5 DEF IInv, TypeOK, Requests
<1>10. NoPartialReads'
  BY <1>1 DEF IInv, NoPartialReads, Complete
<1> QED BY <1>1, <1>4, <1>6, <1>7, <1>8, <1>9, <1>10 DEF IInv

LEMMA ShutdownStep ==
  ASSUME IInv, NEW w \in Workers, Shutdown(w)
  PROVE  IInv'
<1> DEFINE old == published[w]
<1>1. /\ up' = up \ {w}
      /\ published' = [published EXCEPT ![w] = None]
      /\ stage' = [e \in Executions |->
                     IF e = old THEN "retiring" ELSE stage[e]]
      /\ UNCHANGED <<taken, buffers, onDisk, spilled, files, dirs, diskErrors,
                     unended, requests, responses>>
  BY DEF Shutdown, diskVars, httpVars
<1>2. TypeOK
  BY DEF IInv
<1>3. old # None => /\ old \in Executions /\ WorkerOf[old] = w
                    /\ stage[old] = "published"
  BY <1>2 DEF IInv, TypeOK
<1> HIDE DEF old
<1>4. /\ old # None => stage'[old] = "retiring"
      /\ \A f \in Executions \ {old} : stage'[f] = stage[f]
  BY <1>1, <1>3
<1>5. stage' \in [Executions -> Stages]
  BY <1>1, <1>2 DEF TypeOK, Stages
<1>6. published' \in [Workers -> Executions \cup {None}]
        /\ published'[w] = None
        /\ \A v \in Workers \ {w} : published'[v] = published[v]
  BY <1>1, <1>2 DEF TypeOK
<1>7. TypeOK'
  BY <1>1, <1>2, <1>5, <1>6 DEF TypeOK
<1>8. ASSUME NEW f \in Executions
      PROVE  StoreInv(f)'
  <2>1. StoreInv(f)
    BY DEF IInv
  <2>2. CASE f = old
    <3>1. old # None
      BY <2>2, NoneAssumption
    <3>2. stage[f] = "published" /\ stage'[f] = "retiring"
      BY <1>3, <1>4, <2>2, <3>1
    <3>3. taken[f] = Len(Output)
      BY <2>1, <3>2 DEF StoreInv
    <3> QED BY <1>1, <2>1, <3>2, <3>3, MovedLemma
  <2>3. CASE f # old
    BY <1>1, <1>4, <2>1, <2>3, FrameLemma
  <2> QED BY <2>2, <2>3
<1>9. ASSUME NEW v \in Workers, published'[v] # None
      PROVE  /\ WorkerOf[published'[v]] = v
             /\ stage'[published'[v]] = "published"
  <2>1. v # w /\ published'[v] = published[v]
    BY <1>6, <1>9
  <2>2. /\ published[v] \in Executions /\ WorkerOf[published[v]] = v
        /\ stage[published[v]] = "published"
    BY <1>2, <1>9, <2>1 DEF IInv, TypeOK
  <2>3. published[v] # old
    BY <1>3, <2>1, <2>2, NoneAssumption
  <2> QED BY <1>4, <2>1, <2>2, <2>3
<1>10. \A r \in requests' :
         stage'[r.store] \in {"published", "retiring", "over"}
  BY <1>1, <1>2, <1>3, <1>4 DEF IInv, TypeOK, Requests
<1>11. NoPartialReads'
  BY <1>1 DEF IInv, NoPartialReads, Complete
<1> QED BY <1>1, <1>7, <1>8, <1>9, <1>10, <1>11 DEF IInv

\* What a killed process has served is gone, and so are its requests.
LEMMA DieStep ==
  ASSUME IInv, NEW w \in Workers, Die(w)
  PROVE  IInv'
<1>1. /\ up' = up \ {w}
      /\ published' = [published EXCEPT ![w] = None]
      /\ stage' = [e \in Executions |->
                     IF WorkerOf[e] = w THEN "killed" ELSE stage[e]]
      /\ requests' = {r \in requests : WorkerOf[r.store] # w}
      /\ UNCHANGED <<taken, buffers, onDisk, spilled, files, dirs, diskErrors,
                     unended, responses>>
  BY DEF Die, diskVars
<1>2. TypeOK
  BY DEF IInv
<1>3. stage' \in [Executions -> Stages]
  BY <1>1, <1>2 DEF TypeOK, Stages
<1>4. published' \in [Workers -> Executions \cup {None}]
        /\ published'[w] = None
        /\ \A v \in Workers \ {w} : published'[v] = published[v]
  BY <1>1, <1>2 DEF TypeOK
<1>5. TypeOK'
  BY <1>1, <1>2, <1>3, <1>4 DEF TypeOK
<1>6. ASSUME NEW f \in Executions
      PROVE  StoreInv(f)'
  <2>1. StoreInv(f)
    BY DEF IInv
  <2>2. CASE WorkerOf[f] = w
    <3>1. stage'[f] = "killed"
      BY <1>1, <2>2
    <3> QED BY <1>1, <2>1, <3>1 DEF StoreInv, Spills
  <2>3. CASE WorkerOf[f] # w
    <3>1. stage'[f] = stage[f]
      BY <1>1, <2>3
    <3> QED BY <1>1, <2>1, <3>1, FrameLemma
  <2> QED BY <2>2, <2>3
<1>7. ASSUME NEW v \in Workers, published'[v] # None
      PROVE  /\ WorkerOf[published'[v]] = v
             /\ stage'[published'[v]] = "published"
  <2>1. v # w /\ published'[v] = published[v]
    BY <1>4, <1>7
  <2>2. /\ published[v] \in Executions /\ WorkerOf[published[v]] = v
        /\ stage[published[v]] = "published"
    BY <1>2, <1>7, <2>1 DEF IInv, TypeOK
  <2> QED BY <1>1, <2>1, <2>2
<1>8. \A r \in requests' :
        stage'[r.store] \in {"published", "retiring", "over"}
  BY <1>1, <1>2 DEF IInv, TypeOK, Requests
<1>9. NoPartialReads'
  BY <1>1 DEF IInv, NoPartialReads, Complete
<1> QED BY <1>1, <1>5, <1>6, <1>7, <1>8, <1>9 DEF IInv

LEMMA LookupStep ==
  ASSUME IInv, NEW w \in Workers, NEW p \in Partitions, Lookup(w, p)
  PROVE  IInv'
<1> DEFINE new == [store |-> published[w], partition |-> p]
<1>1. /\ published[w] # None
      /\ requests' = requests \cup {new}
      /\ UNCHANGED <<stage, taken, buffers, onDisk, spilled, files, dirs,
                     diskErrors, unended, published, up, responses>>
  BY DEF Lookup, storeVars, diskVars
<1>2. /\ published[w] \in Executions /\ stage[published[w]] = "published"
      /\ TypeOK
  BY <1>1 DEF IInv, TypeOK
<1>3. new \in Requests /\ new.store = published[w]
  BY <1>2 DEF Requests
<1> HIDE DEF new
<1>4. TypeOK'
  BY <1>1, <1>2, <1>3 DEF TypeOK
<1>5. \A e \in Executions : StoreInv(e)'
  BY <1>1, FrameLemma DEF IInv
<1>6. \A r \in requests' :
        stage[r.store] \in {"published", "retiring", "over"}
  BY <1>1, <1>2, <1>3 DEF IInv
<1>7. NoPartialReads'
  BY <1>1 DEF IInv, NoPartialReads, Complete
<1> QED BY <1>1, <1>4, <1>5, <1>6, <1>7 DEF IInv

LEMMA ServePartitionStep ==
  ASSUME IInv, NEW r \in requests, ServePartition(r)
  PROVE  IInv'
<1> DEFINE content == Served(r.store, r.partition)
           answer == [partition |-> r.partition, content |-> content]
<1>1. /\ requests' = requests \ {r}
      /\ responses' = IF content = None THEN responses
                                        ELSE responses \cup {answer}
      /\ UNCHANGED <<stage, taken, buffers, onDisk, spilled, files, dirs,
                     diskErrors, unended, published, up>>
  BY DEF ServePartition, storeVars, diskVars
<1>2. TypeOK /\ r.store \in Executions /\ r.partition \in Partitions
        /\ stage[r.store] \in {"published", "retiring", "over"}
  BY DEF IInv, TypeOK, Requests
<1>3. content # None =>
        /\ content \in Text /\ Complete(content, r.partition)
        /\ \A pair \in content.joined : content.lines[pair[2]] > 0
  BY <1>2, ServedLemma
<1> HIDE DEF content
<1>4. content # None =>
        /\ answer \in Responses
        /\ Complete(answer.content, answer.partition)
        /\ \A pair \in answer.content.joined :
             answer.content.lines[pair[2]] > 0
  BY <1>2, <1>3 DEF Responses
<1> HIDE DEF answer
<1>5. TypeOK'
  BY <1>1, <1>2, <1>4 DEF TypeOK
<1>6. \A e \in Executions : StoreInv(e)'
  BY <1>1, FrameLemma DEF IInv
<1>7. NoPartialReads'
  BY <1>1, <1>4 DEF IInv, NoPartialReads, Complete
<1>8. \A a \in responses' : \A pair \in a.content.joined :
        a.content.lines[pair[2]] > 0
  BY <1>1, <1>4 DEF IInv
<1> QED BY <1>1, <1>2, <1>5, <1>6, <1>7, <1>8 DEF IInv

-----------------------------------------------------------------------------
(* The theorems                                                            *)

LEMMA NextStep ==
  ASSUME NoSharing, BuildsAgree, IInv, [Next]_vars
  PROVE  IInv'
<1>1. CASE UNCHANGED vars
  <2>1. UNCHANGED <<stage, taken, buffers, onDisk, spilled, files, dirs,
                    diskErrors, unended, published, up, requests, responses>>
    BY <1>1 DEF vars, storeVars, diskVars, httpVars
  <2>2. \A e \in Executions : StoreInv(e)'
    BY <2>1, FrameLemma DEF IInv
  <2> QED BY <2>1, <2>2 DEF IInv, TypeOK, NoPartialReads, Complete
<1> QED BY <1>1, NewPartitionStoreStep, WriteToMemoryStep, SpillPartitionStep,
           FailStep, WriteToDiskStep, EndLineStep, PublishStep, CleanupStep,
           ShutdownStep, DieStep, LookupStep, ServePartitionStep DEF Next

LEMMA Invariant ==
  ASSUME NoSharing, BuildsAgree
  PROVE  Spec => []IInv
BY InitInv, NextStep, PTL DEF Spec

\* Where int is wider than the hash, as it is in 64-bit builds, Write never
\* indexes out of range and all workers hash alike (partition.go:80).
THEOREM WideBuildsAgree ==
  ASSUME WideInt
  PROVE  /\ BuildsAgree
         /\ \A w \in Workers, key \in DOMAIN Hash :
              PartitionOf(w, key) \in Partitions
<1> SUFFICES ASSUME NEW w \in Workers, NEW key \in DOMAIN Hash
             PROVE  /\ PartitionOf(w, key) = Hash[key] % NumPartitions
                    /\ PartitionOf(w, key) \in Partitions
  BY DEF BuildsAgree
<1>1. Hash[key] \in Nat
  BY HashAssumption
<1>2. PartitionOf(w, key) = Hash[key] % NumPartitions
  BY DEF WideInt, PartitionOf
<1> QED BY <1>1, <1>2, NumPartitionsAssumption DEF Partitions

\* Every variable keeps its type: buffers that were freed are never written to,
\* and no request is ever about a store that is not there.
THEOREM TypeCorrect ==
  ASSUME NoSharing, BuildsAgree
  PROVE  Spec => []TypeOK
<1>1. IInv => TypeOK
  BY DEF IInv
<1> QED BY <1>1, Invariant, PTL

\* If no two executions of a task spill on one host, a reduce that is answered
\* with status 200 gets every line of its partition exactly once, whichever
\* stores are replaced, removed or shut down meanwhile (partition.go:158-189) and
\* whatever fails on disk.  Two of them run together only where the error of a
\* newline was ignored (partition.go:97-101).
THEOREM ReadsAreComplete ==
  ASSUME NoSharing, BuildsAgree
  PROVE  Spec => []NoPartialReads
<1>1. IInv => NoPartialReads
  BY DEF IInv
<1> QED BY <1>1, Invariant, PTL

\* Under the same condition, what was published stays complete until the worker
\* shuts down (executor.go:120-127).
THEOREM PublishedStaysServed ==
  ASSUME NoSharing, BuildsAgree
  PROVE  Spec => []PublishedIsServed
<1>1. ASSUME IInv, NEW w \in Workers, published[w] # None, NEW p \in Partitions
      PROVE  /\ Served(published[w], p) # None
             /\ Complete(Served(published[w], p), p)
  <2>1. published[w] \in Executions /\ stage[published[w]] = "published"
    BY <1>1 DEF IInv, TypeOK
  <2> QED BY <1>1, <2>1, ServedLemma, NoneAssumption
<1>2. IInv => PublishedIsServed
  BY <1>1 DEF PublishedIsServed
<1> QED BY <1>2, Invariant, PTL

-----------------------------------------------------------------------------
(* DataPath                                                                *)

\* The keys of a partition of which the child has read every line.
KeysRead(c) == {key \in KeysIn(c.partition) :
                  \A i \in LinesWith(key) : c.left[i] = 0}

\* The child has read the lines below its key and none above; it has counted
\* those with its key, and printed every smaller key.
CountInv(c) ==
  /\ c \in Reduces
  /\ \A i \in Lines : c.left[i] \in {0, Whole(c.partition)[i]}
  /\ c.key = None => c.printed = <<>> /\ c.left = Whole(c.partition)
  /\ c.key # None =>
       /\ c.key \in KeysIn(c.partition)
       /\ \A i \in Lines : Output[i] = c.partition =>
            /\ Keys[i] < c.key => c.left[i] = 0
            /\ Keys[i] > c.key => c.left[i] = 1
       /\ c.count = Cardinality({i \in LinesWith(c.key) : c.left[i] = 0})
       /\ Counts(c.printed, {key \in KeysIn(c.partition) : key < c.key})

\* A child whose lines are separate keeps to that.  One that has two lines run
\* together never gets past the second of them.
ChildInv(c) ==
  /\ c \in Reduces
  /\ IF c.joined = {} THEN CountInv(c)
                     ELSE \E pair \in c.joined : c.left[pair[2]] > 0

DataInv == /\ child = None \/ ChildInv(child)
           /\ \A r \in reduced : Counts(r.printed, KeysIn(r.partition))

LEMMA KeysLemma ==
  /\ IsFiniteSet(Lines)
  /\ \A i \in Lines : Keys[i] \in DOMAIN Hash /\ Keys[i] \in Nat
  /\ \A i, k \in Lines : Keys[i] = Keys[k] => Output[i] = Output[k]
  /\ \A p, key : key \in KeysIn(p) <=>
       \E i \in Lines : Output[i] = p /\ Keys[i] = key
  /\ \A p : KeysIn(p) \subseteq DOMAIN Hash /\ KeysIn(p) \subseteq Nat
  /\ \A p : \A key \in KeysIn(p) : \A i \in LinesWith(key) : Output[i] = p
<1>1. Lines = 1 .. Len(Output) /\ Len(Output) \in Nat
  BY OutputLemma DEF Lines
<1>2. IsFiniteSet(Lines)
  BY <1>1, FS_Interval
<1>3. \A i \in Lines : Keys[i] \in DOMAIN Hash /\ Keys[i] \in Nat
  BY OutputLemma, KeyOrderAssumption
<1>4. \A i, k \in Lines : Keys[i] = Keys[k] => Output[i] = Output[k]
  BY OutputLemma
<1>5. \A p, key : key \in KeysIn(p) <=>
        \E i \in Lines : Output[i] = p /\ Keys[i] = key
  BY DEF KeysIn
<1>6. \A p : KeysIn(p) \subseteq DOMAIN Hash /\ KeysIn(p) \subseteq Nat
  BY <1>3, <1>5
<1>7. \A p : \A key \in KeysIn(p) : \A i \in LinesWith(key) : Output[i] = p
  BY <1>4, <1>5 DEF LinesWith
<1> QED BY <1>2, <1>3, <1>4, <1>5, <1>6, <1>7

\* The lines of a child that are left are lines of its partition.
LEMMA LeftLemma ==
  ASSUME NEW c, CountInv(c)
  PROVE  \A i \in Lines : /\ c.left[i] \in {0, 1}
                          /\ c.left[i] > 0 => Output[i] = c.partition
<1>1. \A i \in Lines : Whole(c.partition)[i] =
                         IF i <= Len(Output) /\ Output[i] = c.partition
                           THEN 1 ELSE 0
  BY DEF Whole, Upto
<1> QED BY <1>1 DEF CountInv

\* A child that has read the last line of its key has counted them all.
LEMMA FlushLemma ==
  ASSUME NEW c, CountInv(c),
         \A i \in Lines : c.left[i] > 0 => Keys[i] # c.key
  PROVE  /\ Flush(c) \in Seq((DOMAIN Hash) \X Nat)
         /\ Counts(Flush(c), KeysRead(c))
<1> DEFINE S == {key \in KeysIn(c.partition) : key < c.key}
<1>1. c \in Reduces
  BY DEF CountInv
<1>2. CASE c.key = None
  <2>1. Flush(c) = <<>>
    BY <1>2 DEF Flush, CountInv
  <2>2. \A i \in Lines : Output[i] = c.partition => c.left[i] = 1
    BY <1>2, OutputLemma DEF CountInv, Whole, Upto, Lines
  <2>3. KeysRead(c) = {}
    BY <2>2, KeysLemma DEF KeysRead, LinesWith
  <2> QED BY <2>1, <2>3 DEF Counts
<1>3. CASE c.key # None
  <2>1. /\ c.key \in KeysIn(c.partition) /\ c.key \in DOMAIN Hash
        /\ c.key \in Nat /\ c.printed \in Seq((DOMAIN Hash) \X Nat)
    BY <1>1, <1>3, KeysLemma DEF CountInv, Reduces
  <2>2. \A i \in LinesWith(c.key) : c.left[i] = 0
    BY LeftLemma DEF LinesWith
  <2>3. c.count = Cardinality(LinesWith(c.key)) /\ c.count \in Nat
    <3>1. {i \in LinesWith(c.key) : c.left[i] = 0} = LinesWith(c.key)
      BY <2>2
    <3> QED BY <1>1, <1>3, <3>1 DEF CountInv, Reduces
  <2>4. KeysRead(c) = S \cup {c.key}
    <3>1. ASSUME NEW key \in KeysIn(c.partition)
          PROVE  key \in KeysRead(c) <=> key < c.key \/ key = c.key
      <4>1. key \in Nat
        BY KeysLemma
      <4>2. PICK i \in Lines : Output[i] = c.partition /\ Keys[i] = key
        BY KeysLemma
      <4>3. \A k \in LinesWith(key) :
              k \in Lines /\ Output[k] = c.partition /\ Keys[k] = key
        BY KeysLemma DEF LinesWith
      <4>4. CASE key < c.key
        <5>1. \A k \in LinesWith(key) : c.left[k] = 0
          BY <1>3, <4>3, <4>4 DEF CountInv
        <5> QED BY <4>4, <5>1 DEF KeysRead
      <4>5. CASE key = c.key
        BY <2>2, <4>5 DEF KeysRead
      <4>6. CASE key > c.key
        <5>1. c.left[i] = 1 /\ i \in LinesWith(key)
          BY <1>3, <4>2, <4>6 DEF CountInv, LinesWith
        <5>2. ~(key < c.key) /\ key # c.key
          BY <2>1, <4>1, <4>6
        <5> QED BY <5>1, <5>2 DEF KeysRead
      <4> QED BY <2>1, <4>1, <4>4, <4>5, <4>6
    <3> QED BY <2>1, <3>1 DEF KeysRead
  <2>5. Flush(c) = Append(c.printed, <<c.key, c.count>>)
    BY <1>3 DEF Flush
  <2> DEFINE q == Flush(c)
             last == Len(c.printed) + 1
  <2>6. /\ q \in Seq((DOMAIN Hash) \X Nat)
        /\ Len(c.printed) \in Nat /\ Len(q) = last
        /\ q[last] = <<c.key, c.count>>
        /\ \A n \in 1 .. Len(c.printed) : q[n] = c.printed[n]
    BY <2>1, <2>3, <2>5
  <2>7. \A n \in 1 .. Len(q) : n = last \/ n \in 1 .. Len(c.printed)
    BY <2>6
  <2>8. Counts(c.printed, S)
    BY <1>3 DEF CountInv
  <2> HIDE DEF q, last
  <2>9. \A n \in 1 .. Len(c.printed) : c.printed[n][1] # c.key
    <3>1. ASSUME NEW n \in 1 .. Len(c.printed)
          PROVE  c.printed[n][1] # c.key
      <4>1. PICK key \in S :
              c.printed[n] = <<key, Cardinality(LinesWith(key))>>
        BY <2>8 DEF Counts
      <4>2. key \in Nat /\ key < c.key /\ c.printed[n][1] = key
        BY <4>1, KeysLemma
      <4> QED BY <2>1, <4>2
    <3> QED BY <3>1
  <2>10. \A n \in 1 .. Len(q) : \E key \in S \cup {c.key} :
           q[n] = <<key, Cardinality(LinesWith(key))>>
    <3>1. \A n \in 1 .. Len(c.printed) : \E key \in S :
            q[n] = <<key, Cardinality(LinesWith(key))>>
      <4>1. \A n \in 1 .. Len(c.printed) : \E key \in S :
              c.printed[n] = <<key, Cardinality(LinesWith(key))>>
        BY <2>8 DEF Counts
      <4> HIDE DEF S
      <4> QED BY <2>6, <4>1
    <3>2. q[last] = <<c.key, Cardinality(LinesWith(c.key))>>
      BY <2>3, <2>6
    <3> QED BY <2>7, <3>1, <3>2
  <2>11. \A key \in S \cup {c.key} : \E n \in 1 .. Len(q) : q[n][1] = key
    <3>1. \A n \in 1 .. Len(c.printed) : n \in 1 .. Len(q)
      BY <2>6 DEF last
    <3>2. \A key \in S : \E n \in 1 .. Len(c.printed) : q[n][1] = key
      BY <2>6, <2>8 DEF Counts
    <3>3. last \in 1 .. Len(q) /\ q[last][1] = c.key
      BY <2>6 DEF last
    <3> QED BY <3>1, <3>2, <3>3
  <2>12. \A m, n \in 1 .. Len(q) : q[m][1] = q[n][1] => m = n
    <3>1. \A m, n \in 1 .. Len(c.printed) : q[m][1] = q[n][1] => m = n
      BY <2>6, <2>8 DEF Counts
    <3>2. \A n \in 1 .. Len(c.printed) : q[n][1] # q[last][1]
      BY <2>6, <2>9
    <3> QED BY <2>7, <3>1, <3>2
  <2> QED BY <2>4, <2>6, <2>10, <2>11, <2>12 DEF Counts, q
<1> QED BY <1>2, <1>3

LEMMA StartChildStep ==
  ASSUME IInv, DataInv, StartChild
  PROVE  DataInv'
<1>1. PICK r \in responses :
        child' = [partition |-> r.partition, left |-> r.content.lines,
                  joined |-> r.content.joined, printed |-> <<>>,
                  key |-> None, count |-> 0]
  BY DEF StartChild
<1>2. /\ r.partition \in Partitions /\ r.content \in Text
      /\ r.content.lines = Whole(r.partition)
      /\ \A pair \in r.content.joined : r.content.lines[pair[2]] > 0
  BY DEF IInv, TypeOK, NoPartialReads, Complete, Responses
<1>3. child' \in Reduces
  BY <1>1, <1>2 DEF Reduces, Text
<1>4. CountInv(child')
  BY <1>1, <1>2, <1>3 DEF CountInv
<1>5. ChildInv(child')
  BY <1>1, <1>2, <1>3, <1>4 DEF ChildInv
<1> QED BY <1>5 DEF DataInv, StartChild

\* A reduce field by field, before and after one line of it is read.
LEMMA FieldsLemma ==
  ASSUME NEW c \in Reduces
  PROVE  c = [partition |-> c.partition, left |-> c.left, joined |-> c.joined,
              printed |-> c.printed, key |-> c.key, count |-> c.count]
BY DEF Reduces

LEMMA NextKeyLemma ==
  ASSUME NEW c \in Reduces, NEW printed, NEW key
  PROVE  [c EXCEPT !.printed = printed, !.key = key, !.count = 1] =
           [partition |-> c.partition, left |-> c.left, joined |-> c.joined,
            printed |-> printed, key |-> key, count |-> 1]
<1> DEFINE c1 == [c EXCEPT !.printed = printed]
           c2 == [c1 EXCEPT !.key = key]
<1>1. c1 = [partition |-> c.partition, left |-> c.left, joined |-> c.joined,
            printed |-> printed, key |-> c.key, count |-> c.count]
  BY DEF Reduces
<1>2. [c EXCEPT !.printed = printed, !.key = key, !.count = 1] =
        [c2 EXCEPT !.count = 1]
  OBVIOUS
<1> HIDE DEF c1
<1>3. c2 = [partition |-> c.partition, left |-> c.left, joined |-> c.joined,
            printed |-> printed, key |-> key, count |-> c.count]
  BY <1>1
<1> HIDE DEF c2
<1> QED BY <1>2, <1>3

LEMMA TakeLineLemma ==
  ASSUME NEW p, NEW left, NEW joined, NEW printed, NEW key, NEW count, NEW c,
         NEW i,
         c = [partition |-> p, left |-> left, joined |-> joined,
              printed |-> printed, key |-> key, count |-> count],
         left[i] = 1
  PROVE  [c EXCEPT !.left[i] = @ - 1] =
           [partition |-> p, left |-> [left EXCEPT ![i] = 0],
            joined |-> joined, printed |-> printed, key |-> key,
            count |-> count]
OBVIOUS

\* The child never reads a line that begins on the line of another.
LEMMA JoinedStep ==
  ASSUME ReadLine, ChildInv(child), child.joined # {}
  PROVE  ChildInv(child')
<1> DEFINE c == child
<1>1. PICK i \in NextLines(c) :
        child' = [ReduceLine(c, Keys[i]) EXCEPT !.left[i] = @ - 1]
  BY DEF ReadLine
<1>2. /\ i \in Lines /\ c.left[i] > 0 /\ \A pair \in c.joined : pair[2] # i
      /\ Keys[i] \in DOMAIN Hash
  BY KeysLemma DEF NextLines, Heads
<1>3. PICK pair \in c.joined : c.left[pair[2]] > 0
  BY DEF ChildInv
<1>4. c \in Reduces /\ c.left \in Content
  BY DEF ChildInv, Reduces
<1> DEFINE line == ReduceLine(c, Keys[i])
<1>5. line \in Reduces /\ line.left = c.left /\ line.joined = c.joined
  <2>1. CASE Keys[i] = c.key
    <3> DEFINE next == [c EXCEPT !.count = @ + 1]
    <3>1. line = next
      BY <2>1 DEF ReduceLine
    <3>2. /\ next \in Reduces /\ next.left = c.left
          /\ next.joined = c.joined
      BY <1>4 DEF Reduces
    <3> QED BY <3>1, <3>2
  <2>2. CASE Keys[i] # c.key
    <3>1. Flush(c) \in Seq((DOMAIN Hash) \X Nat)
      BY <1>4 DEF Flush, Reduces
    <3> DEFINE next == [c EXCEPT !.printed = Flush(c), !.key = Keys[i],
                                 !.count = 1]
    <3>2. line = next
      BY <2>2 DEF ReduceLine
    <3>3. next = [partition |-> c.partition, left |-> c.left,
                  joined |-> c.joined, printed |-> Flush(c), key |-> Keys[i],
                  count |-> 1]
      BY <1>4, NextKeyLemma
    <3> HIDE DEF next, line
    <3> QED BY <1>2, <1>4, <3>1, <3>2, <3>3 DEF Reduces
  <2> QED BY <2>1, <2>2
<1> HIDE DEF line
<1>6. child' = [line EXCEPT !.left = [c.left EXCEPT ![i] = @ - 1]]
  BY <1>1, <1>5 DEF line, Reduces
<1> DEFINE left == [c.left EXCEPT ![i] = @ - 1]
<1>7. left \in Content /\ \A k \in Lines : k # i => left[k] = c.left[k]
  BY <1>2, <1>4 DEF Content
<1> HIDE DEF left, c
<1>8. child' \in Reduces /\ child'.left = left /\ child'.joined = c.joined
  BY <1>5, <1>6, <1>7 DEF Reduces, left
<1>9. pair[2] \in Lines /\ pair[2] # i
  BY <1>2, <1>3, <1>4 DEF Reduces
<1>10. left[pair[2]] > 0
  BY <1>3, <1>7, <1>9
<1> QED BY <1>3, <1>8, <1>10 DEF ChildInv, c

\* One more line, which is of the child's key or of the next one.
LEMMA SeparateStep ==
  ASSUME ReadLine, CountInv(child), child.joined = {}
  PROVE  CountInv(child') /\ child'.joined = {}
<1> DEFINE c == child
           d == child'
           p == c.partition
<1>1. PICK i \in NextLines(c) :
        d = [ReduceLine(c, Keys[i]) EXCEPT !.left[i] = @ - 1]
  BY DEF ReadLine
<1>2. CountInv(c) /\ c \in Reduces /\ c.joined = {}
  BY DEF CountInv
<1>3. /\ i \in Lines /\ c.left[i] = 1 /\ Output[i] = p
      /\ \A k \in Lines : c.left[k] > 0 => Keys[i] <= Keys[k]
      /\ Keys[i] \in KeysIn(p) /\ Keys[i] \in DOMAIN Hash /\ Keys[i] \in Nat
      /\ Keys[i] # None
  BY <1>2, LeftLemma, KeysLemma, NoKeyAssumption DEF NextLines, Heads
<1>4. \A k \in Lines : Keys[k] \in Nat /\ c.left[k] \in {0, 1}
  BY <1>2, LeftLemma, KeysLemma
<1>5. c.left \in Content /\ p \in Partitions /\ c.count \in Nat
      /\ c.printed \in Seq((DOMAIN Hash) \X Nat)
  BY <1>2 DEF Reduces
<1> DEFINE left == [c.left EXCEPT ![i] = 0]
<1>6. /\ left \in Content /\ left[i] = 0
      /\ \A k \in Lines : k # i => left[k] = c.left[k]
  BY <1>3, <1>5 DEF Content
<1>7. \A k \in Lines : left[k] \in {0, Whole(p)[k]}
  BY <1>2, <1>6 DEF CountInv
<1>8. c = [partition |-> p, left |-> c.left, joined |-> c.joined,
            printed |-> c.printed, key |-> c.key, count |-> c.count]
  BY <1>2, FieldsLemma
<1>9. CASE Keys[i] = c.key
  <2>1. d = [partition |-> p, left |-> left, joined |-> c.joined,
             printed |-> c.printed, key |-> c.key, count |-> c.count + 1]
    <3> DEFINE line == [c EXCEPT !.count = @ + 1]
    <3> HIDE DEF c, d
    <3>1. ReduceLine(c, Keys[i]) = line
      BY <1>9 DEF ReduceLine
    <3>2. line = [partition |-> p, left |-> c.left, joined |-> c.joined,
                  printed |-> c.printed, key |-> c.key, count |-> c.count + 1]
      BY <1>8
    <3> HIDE DEF line
    <3> QED BY <1>1, <1>3, <3>1, <3>2, TakeLineLemma
  <2>2. /\ d.partition = p /\ d.left = left /\ d.joined = c.joined
        /\ d.printed = c.printed /\ d.key = c.key /\ d.count = c.count + 1
    BY <2>1
  <2>3. d \in Reduces
    <3>1. c.key \in (DOMAIN Hash) \cup {None}
      BY <1>2 DEF Reduces
    <3> QED BY <1>5, <1>6, <2>1, <3>1 DEF Reduces
  <2>4. c.key # None
    BY <1>3, <1>9
  <2>5. d.count = Cardinality({k \in LinesWith(c.key) : left[k] = 0})
    <3> DEFINE S == {k \in LinesWith(c.key) : c.left[k] = 0}
    <3>1. IsFiniteSet(S) /\ i \notin S
      BY <1>3, KeysLemma, FS_Subset DEF LinesWith
    <3>2. {k \in LinesWith(c.key) : left[k] = 0} = S \cup {i}
      BY <1>3, <1>6, <1>9 DEF LinesWith
    <3>3. Cardinality(S \cup {i}) = Cardinality(S) + 1
      BY <3>1, FS_AddElement
    <3>4. c.count = Cardinality(S)
      BY <1>2, <2>4 DEF CountInv
    <3> QED BY <2>2, <3>2, <3>3, <3>4
  <2>6. \A k \in Lines : Output[k] = p =>
          /\ Keys[k] < c.key => left[k] = 0
          /\ Keys[k] > c.key => left[k] = 1
    <3>1. \A k \in Lines : Output[k] = p =>
            /\ Keys[k] < c.key => c.left[k] = 0
            /\ Keys[k] > c.key => c.left[k] = 1
      BY <1>2, <2>4 DEF CountInv
    <3>2. ~(Keys[i] < c.key) /\ ~(Keys[i] > c.key)
      BY <1>3, <1>9
    <3> QED BY <1>6, <3>1, <3>2
  <2>7. /\ c.key \in KeysIn(p)
        /\ Counts(c.printed, {key \in KeysIn(p) : key < c.key})
    BY <1>2, <2>4 DEF CountInv
  <2> HIDE DEF left, d
  <2>8. CountInv(d)
    BY <1>7, <2>2, <2>3, <2>4, <2>5, <2>6, <2>7 DEF CountInv
  <2> QED BY <1>2, <2>2, <2>8 DEF d
<1>10. CASE Keys[i] # c.key
  <2>1. d = [partition |-> p, left |-> left, joined |-> c.joined,
             printed |-> Flush(c), key |-> Keys[i], count |-> 1]
    <3> DEFINE line == [c EXCEPT !.printed = Flush(c), !.key = Keys[i],
                                 !.count = 1]
    <3> HIDE DEF c, d
    <3>1. ReduceLine(c, Keys[i]) = line
      BY <1>10 DEF ReduceLine
    <3>2. line = [partition |-> p, left |-> c.left, joined |-> c.joined,
                  printed |-> Flush(c), key |-> Keys[i], count |-> 1]
      BY <1>2, NextKeyLemma
    <3> HIDE DEF line
    <3> QED BY <1>1, <1>3, <3>1, <3>2, TakeLineLemma
  <2>2. /\ d.partition = p /\ d.left = left /\ d.joined = c.joined
        /\ d.printed = Flush(c) /\ d.key = Keys[i] /\ d.count = 1
    BY <2>1
  <2>3. c.key # None => c.key < Keys[i]
    <3>1. c.key # None =>
            /\ c.key \in Nat
            /\ \A k \in Lines : Output[k] = p =>
                 (Keys[k] < c.key => c.left[k] = 0)
      BY <1>2, KeysLemma DEF CountInv
    <3> QED BY <1>3, <1>10, <3>1
  <2>4. \A k \in Lines : c.left[k] > 0 => Keys[k] # c.key
    <3>1. ASSUME NEW k \in Lines, c.left[k] > 0, Keys[k] = c.key
          PROVE  FALSE
      <4>1. c.key # None /\ c.key \in Nat
        BY <1>4, <3>1, KeysLemma, NoKeyAssumption
      <4> QED BY <1>3, <2>3, <3>1, <4>1
    <3> QED BY <3>1
  <2>5. /\ Flush(c) \in Seq((DOMAIN Hash) \X Nat)
        /\ Counts(Flush(c), KeysRead(c))
    BY <1>2, <2>4, FlushLemma
  <2>6. \A k \in Lines : Output[k] = p /\ Keys[k] > Keys[i] => c.left[k] = 1
    <3>1. CASE c.key = None
      BY <1>2, <3>1, OutputLemma DEF CountInv, Whole, Upto, Lines
    <3>2. CASE c.key # None
      <4>1. c.key \in Nat
        BY <1>2, <3>2, KeysLemma DEF CountInv
      <4>2. \A k \in Lines : Keys[k] > Keys[i] => Keys[k] > c.key
        BY <1>3, <1>4, <2>3, <3>2, <4>1
      <4> QED BY <1>2, <3>2, <4>2 DEF CountInv
    <3> QED BY <3>1, <3>2
  <2>7. \A k \in Lines : Keys[k] < Keys[i] => c.left[k] = 0
    BY <1>3, <1>4
  <2>8. \A k \in Lines : Output[k] = p /\ Keys[k] = Keys[i] => c.left[k] = 1
    <3>1. CASE c.key = None
      BY <1>2, <3>1, OutputLemma DEF CountInv, Whole, Upto, Lines
    <3>2. CASE c.key # None
      BY <1>2, <1>3, <2>3, <3>2 DEF CountInv
    <3> QED BY <3>1, <3>2
  <2>9. KeysRead(c) = {key \in KeysIn(p) : key < Keys[i]}
    <3>1. ASSUME NEW key \in KeysIn(p)
          PROVE  key \in KeysRead(c) <=> key < Keys[i]
      <4>1. key \in Nat
        BY KeysLemma
      <4>2. PICK k \in Lines : Output[k] = p /\ Keys[k] = key
        BY KeysLemma
      <4>3. CASE key < Keys[i]
        BY <2>7, <4>3 DEF KeysRead, LinesWith
      <4>4. CASE ~(key < Keys[i])
        <5>1. c.left[k] = 1 /\ k \in LinesWith(key)
          BY <1>3, <2>6, <2>8, <4>1, <4>2, <4>4 DEF LinesWith
        <5> QED BY <4>4, <5>1 DEF KeysRead
      <4> QED BY <4>3, <4>4
    <3> QED BY <3>1 DEF KeysRead
  <2>10. Cardinality({k \in LinesWith(Keys[i]) : left[k] = 0}) = 1
    <3>1. {k \in LinesWith(Keys[i]) : left[k] = 0} = {i}
      <4>1. ASSUME NEW k \in LinesWith(Keys[i]), k # i
            PROVE  left[k] = 1
        <5>1. k \in Lines /\ Keys[k] = Keys[i] /\ Output[k] = p
          BY <1>3, KeysLemma DEF LinesWith
        <5> QED BY <1>6, <2>8, <4>1, <5>1
      <4>2. i \in LinesWith(Keys[i]) /\ left[i] = 0
        BY <1>3, <1>6 DEF LinesWith
      <4> QED BY <4>1, <4>2
    <3> QED BY <3>1, FS_Singleton
  <2>11. d \in Reduces
    BY <1>3, <1>5, <1>6, <2>1, <2>5 DEF Reduces
  <2>12. \A k \in Lines : Output[k] = p =>
           /\ Keys[k] < Keys[i] => left[k] = 0
           /\ Keys[k] > Keys[i] => left[k] = 1
    BY <1>3, <1>6, <2>6, <2>7
  <2> HIDE DEF left, d
  <2>13. CountInv(d)
    BY <1>3, <1>7, <2>2, <2>5, <2>9, <2>10, <2>11, <2>12 DEF CountInv
  <2> QED BY <1>2, <2>2, <2>13 DEF d
<1> QED BY <1>9, <1>10

LEMMA ReadLineStep ==
  ASSUME DataInv, ReadLine
  PROVE  DataInv'
<1>1. ChildInv(child)
  BY DEF DataInv, ReadLine
<1>2. ChildInv(child')
  <2>1. CASE child.joined = {}
    <3>1. CountInv(child') /\ child'.joined = {}
      BY <1>1, <2>1, SeparateStep DEF ChildInv
    <3> QED BY <3>1 DEF ChildInv, CountInv
  <2>2. CASE child.joined # {}
    BY <1>1, <2>2, JoinedStep
  <2> QED BY <2>1, <2>2
<1> QED BY <1>2 DEF DataInv, ReadLine

LEMMA UploadOutputStep ==
  ASSUME DataInv, UploadOutput
  PROVE  DataInv'
<1>1. ChildInv(child) /\ child \in Reduces
  BY DEF DataInv, UploadOutput, ChildInv
<1>2. \A i \in Lines : child.left[i] = 0
  BY DEF UploadOutput, Empty
<1>3. CountInv(child)
  BY <1>1, <1>2 DEF ChildInv, Reduces
<1>4. Counts(Flush(child), KeysRead(child))
  BY <1>2, <1>3, FlushLemma
<1>5. KeysRead(child) = KeysIn(child.partition)
  BY <1>2 DEF KeysRead, LinesWith
<1>6. ASSUME NEW r \in reduced'
      PROVE  Counts(r.printed, KeysIn(r.partition))
  <2>1. r \in reduced \/
        r = [partition |-> child.partition, printed |-> Flush(child)]
    BY DEF UploadOutput
  <2> QED BY <1>4, <1>5, <2>1 DEF DataInv
<1> QED BY <1>6 DEF DataInv, UploadOutput

LEMMA DataNextStep ==
  ASSUME IInv, DataInv, [DataNext]_dataVars
  PROVE  DataInv'
<1>1. CASE UNCHANGED <<child, reduced>>
  BY <1>1 DEF DataInv
<1>2. CASE ReduceFails
  BY <1>2 DEF DataInv, ReduceFails
<1> QED BY <1>1, <1>2, StartChildStep, ReadLineStep, UploadOutputStep
        DEF DataNext, dataVars

\* Under the same condition the output counts every key exactly once, with all
\* its lines, however the sort orders lines with equal keys and however often
\* reduces fail and start over (executor.go:237-296).  One that is given lines
\* which run together fails before it can upload a count.
THEOREM KeysAreReducedOnceAlways ==
  ASSUME NoSharing, BuildsAgree
  PROVE  DataSpec => []KeysAreReducedOnce
<1>1. DataInit => Init /\ DataInv
  BY DEF DataInit, DataInv
<1>2. [DataNext]_dataVars => [Next]_vars
  BY DEF DataNext, dataVars, StartChild, ReadLine, UploadOutput, ReduceFails
<1>3. DataSpec => Spec
  BY <1>1, <1>2, PTL DEF DataSpec, Spec
<1>4. DataInv => KeysAreReducedOnce
  BY DEF DataInv, KeysAreReducedOnce
<1> QED BY <1>1, <1>3, <1>4, Invariant, DataNextStep, PTL DEF DataSpec

=============================================================================
