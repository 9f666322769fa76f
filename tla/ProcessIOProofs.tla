-------------------------- MODULE ProcessIOProofs --------------------------
(* The proof that a tracked process loses no output between the child and  *)
(* its caller, for any output and any size of the pipe.                    *)
EXTENDS ProcessIO, SequenceTheorems, TLAPS

(* What the child has written is a sequence of chunks as long as its count.*)
LEMMA WrittenIsSeq ==
  ASSUME NEW n \in 0..MaxChunks
  PROVE  /\ [k \in 1..n |-> k] \in Seq(Chunks)
         /\ Len([k \in 1..n |-> k]) = n
  <1>1. n \in Nat /\ 1..n \subseteq Chunks
    BY MaxChunksAssumption DEF Chunks
  <1>2. [k \in 1..n |-> k] \in [1..n -> Chunks]
    BY <1>1
  <1> QED
    BY <1>1, <1>2

(* One more chunk at its end. *)
LEMMA OneMoreWritten ==
  ASSUME NEW n \in 0..MaxChunks, n < MaxChunks
  PROVE  [k \in 1..(n + 1) |-> k] = Append([k \in 1..n |-> k], n + 1)
  <1> DEFINE long == [k \in 1..(n + 1) |-> k]
             short == [k \in 1..n |-> k]
  <1>1. n + 1 \in 0..MaxChunks /\ n + 1 \in Chunks /\ n \in Nat
    BY MaxChunksAssumption DEF Chunks
  <1>2. long \in Seq(Chunks) /\ Len(long) = n + 1 /\ short \in Seq(Chunks) /\ Len(short) = n
    BY <1>1, WrittenIsSeq
  <1>3. Append(short, n + 1) \in Seq(Chunks) /\ Len(Append(short, n + 1)) = n + 1
    BY <1>1, <1>2, AppendProperties
  <1>4. \A i \in 1..(n + 1) : long[i] = i
    OBVIOUS
  <1>5. \A i \in 1..n : Append(short, n + 1)[i] = short[i] /\ short[i] = i
    BY <1>1, <1>2, AppendProperties
  <1>6. Append(short, n + 1)[n + 1] = n + 1
    BY <1>1, <1>2, AppendProperties
  <1>7. \A i \in 1..Len(long) : long[i] = Append(short, n + 1)[i]
    BY <1>1, <1>2, <1>4, <1>5, <1>6
  <1> HIDE DEF long, short
  <1>8. long = Append(short, n + 1)
    BY <1>2, <1>3, <1>7, SeqEqual
  <1> QED
    BY <1>8 DEF long, short

(* What a chunk more does to the length of a sequence. *)
LEMMA OneLonger ==
  ASSUME NEW S, NEW p \in Seq(S), NEW e \in S
  PROVE  /\ Append(p, e) \in Seq(S) /\ Len(p) \in Nat
         /\ Len(Append(p, e)) = Len(p) + 1
  BY AppendProperties, LenProperties

(* Two equations on three sequences in a row; names, so that each stays in  *)
(* one piece where a lemma about it is used.                                *)
Longer(m, t, p, e) == m \o t \o Append(p, e) = Append(m \o t \o p, e)
Same(m1, t1, p1, m2, t2, p2) == m1 \o t1 \o p1 = m2 \o t2 \o p2

(* A chunk appended to the last of three sequences is appended to all.     *)
LEMMA AppendToLast ==
  ASSUME NEW S, NEW m \in Seq(S), NEW t \in Seq(S), NEW p \in Seq(S), NEW e \in S
  PROVE  Longer(m, t, p, e)
  <1>1. Append(p, e) = p \o <<e>> /\ <<e>> \in Seq(S)
    BY AppendIsConcat
  <1>2. m \o t \in Seq(S) /\ m \o t \o p \in Seq(S)
    BY ConcatProperties
  <1>3. (m \o t) \o (p \o <<e>>) = ((m \o t) \o p) \o <<e>>
    BY <1>1, <1>2, ConcatAssociative, SMTT(30)
  <1> QED
    BY <1>1, <1>2, <1>3, AppendIsConcat DEF Longer

(* Of four sequences in a row, the two in the middle may be taken together.*)
(* The name keeps the equation in one piece where the lemma is used.       *)
Regroups(m, t, f, r) == m \o (t \o f) \o r = m \o t \o (f \o r)

LEMMA Regroup ==
  ASSUME NEW S, NEW m \in Seq(S), NEW t \in Seq(S), NEW f \in Seq(S), NEW r \in Seq(S)
  PROVE  Regroups(m, t, f, r)
  <1>1. (m \o t) \o f = m \o (t \o f)
    BY ConcatAssociative, SMTT(30)
  <1>2. PICK mt \in Seq(S) : mt = m \o t
    BY ConcatProperties
  <1>3. mt \in Seq(S)
    OBVIOUS
  <1>4. (mt \o f) \o r = mt \o (f \o r)
    BY <1>3, ConcatAssociative, SMTT(30)
  <1>5. m \o (t \o f) \o r = m \o t \o (f \o r)
    BY <1>1, <1>2, <1>4, Zenon
  <1> QED
    BY <1>5 DEF Regroups

(* A sequence is its first n elements and the others. *)
LEMMA TwoParts ==
  ASSUME NEW S, NEW p \in Seq(S), NEW n \in 1..Len(p)
  PROVE  /\ SubSeq(p, 1, n) \in Seq(S)
         /\ SubSeq(p, n + 1, Len(p)) \in Seq(S)
         /\ SubSeq(p, 1, n) \o SubSeq(p, n + 1, Len(p)) = p
  <1>1. Len(p) \in Nat /\ \A i \in 1..Len(p) : p[i] \in S
    BY LenProperties, ElementOfSeq
  <1>2. SubSeq(p, 1, n) \in Seq(S)
    BY <1>1, SubSeqProperties
  <1>3. SubSeq(p, n + 1, Len(p)) \in Seq(S)
    BY <1>1, SubSeqProperties
  <1>4. SubSeq(p, 1, n) \o SubSeq(p, n + 1, Len(p)) = SubSeq(p, 1, Len(p))
    BY <1>1, ConcatAdjacentSubSeq
  <1> QED
    BY <1>2, <1>3, <1>4, SubSeqFull

(* The first n of the last sequence go to the end of the one before.       *)
LEMMA MoveFirst ==
  ASSUME NEW S, NEW m \in Seq(S), NEW t \in Seq(S), NEW p \in Seq(S), NEW n \in 1..Len(p)
  PROVE  /\ t \o SubSeq(p, 1, n) \in Seq(S)
         /\ SubSeq(p, n + 1, Len(p)) \in Seq(S)
         /\ Same(m, t \o SubSeq(p, 1, n), SubSeq(p, n + 1, Len(p)), m, t, p)
  <1>1. /\ SubSeq(p, 1, n) \in Seq(S)
        /\ SubSeq(p, n + 1, Len(p)) \in Seq(S)
        /\ SubSeq(p, 1, n) \o SubSeq(p, n + 1, Len(p)) = p
    BY TwoParts, Zenon
  <1>2. t \o SubSeq(p, 1, n) \in Seq(S)
    BY <1>1, ConcatProperties, Zenon
  <1>3. Regroups(m, t, SubSeq(p, 1, n), SubSeq(p, n + 1, Len(p)))
    BY <1>1, Regroup, Zenon
  <1> QED
    BY <1>1, <1>2, <1>3, Zenon DEF Regroups, Same

(* The last of two sequences is emptied to the first. *)
LEMMA MoveAll ==
  ASSUME NEW S, NEW m \in Seq(S), NEW t \in Seq(S), NEW p \in Seq(S)
  PROVE  /\ m \o t \in Seq(S) /\ <<>> \in Seq(S)
         /\ Same(m \o t, <<>>, p, m, t, p)
  BY ConcatProperties, ConcatEmptySeq, EmptySeq DEF Same

(* No pipe holds more than was written. *)
LEMMA PipeIsBounded ==
  ASSUME IInv, NEW s \in Streams
  PROVE  Len(pipe[s]) \in 0..MaxChunks
  <1>1. /\ mainBuf[s] \in Seq(Chunks) /\ threadBuf[s] \in Seq(Chunks) /\ pipe[s] \in Seq(Chunks)
        /\ wrote[s] \in 0..MaxChunks
    BY DEF IInv, TypeOK
  <1>2. /\ mainBuf[s] \o threadBuf[s] \in Seq(Chunks)
        /\ Len(mainBuf[s] \o threadBuf[s]) = Len(mainBuf[s]) + Len(threadBuf[s])
    BY <1>1, ConcatProperties
  <1>3. Len(mainBuf[s] \o threadBuf[s] \o pipe[s])
          = Len(mainBuf[s]) + Len(threadBuf[s]) + Len(pipe[s])
    BY <1>1, <1>2, ConcatProperties
  <1>4. Len(mainBuf[s] \o threadBuf[s] \o pipe[s]) = wrote[s]
    BY <1>1, WrittenIsSeq DEF IInv, NothingLostOnTheWay, Written
  <1>5. Len(mainBuf[s]) \in Nat /\ Len(threadBuf[s]) \in Nat /\ Len(pipe[s]) \in Nat
    BY <1>1, LenProperties
  <1>6. \A a, b, c \in Nat : a + b + c \in 0..MaxChunks => c \in 0..MaxChunks
    BY MaxChunksAssumption
  <1> QED
    BY <1>1, <1>3, <1>4, <1>5, <1>6, ZenonT(60)

----------------------------------------------------------------------------
(* A step of the child, of the thread or of the caller that leaves the      *)
(* three stretches of every stream alone loses nothing.                     *)
LEMMA StreamsAlone ==
  ASSUME NothingLostOnTheWay, UNCHANGED <<wrote, pipe, threadBuf, mainBuf>>
  PROVE  NothingLostOnTheWay'
  BY DEF NothingLostOnTheWay, Written

LEMMA InitIInv == Init => IInv
  <1> SUFFICES ASSUME Init PROVE IInv
    OBVIOUS
  <1>1. <<>> \in Seq(Chunks) /\ <<>> \o <<>> = <<>>
    BY EmptySeq, ConcatEmptySeq
  <1>2. TypeOK
    <2>1. 0 \in 0..MaxChunks
      BY MaxChunksAssumption
    <2>2. /\ pipe \in [Streams -> Seq(Chunks)] /\ threadBuf \in [Streams -> Seq(Chunks)]
          /\ mainBuf \in [Streams -> Seq(Chunks)]
      BY <1>1 DEF Init
    <2>3. faults \subseteq AllFaults
      BY FaultSetsAssumption DEF Init
    <2> QED
      BY <2>1, <2>2, <2>3 DEF Init, TypeOK
  <1>3. ReadsWhatIsThere
    BY DEF Init, ReadsWhatIsThere, Read
  <1>4. NothingLostOnTheWay
    <2> SUFFICES ASSUME NEW s \in Streams
                 PROVE  mainBuf[s] \o threadBuf[s] \o pipe[s] = Written(s)
      BY DEF NothingLostOnTheWay
    <2>1. Written(s) \in Seq(Chunks) /\ Len(Written(s)) = 0
      BY WrittenIsSeq, MaxChunksAssumption DEF Init, Written
    <2>2. Written(s) = <<>>
      BY <2>1, EmptySeq
    <2>3. mainBuf[s] = <<>> /\ threadBuf[s] = <<>> /\ pipe[s] = <<>>
      BY DEF Init
    <2> QED
      BY <1>1, <2>2, <2>3, Zenon
  <1> QED
    BY <1>2, <1>3, <1>4 DEF IInv

(* A write puts one chunk at the end of the pipe. *)
LEMMA ChildWritesKeeps ==
  ASSUME IInv, NEW s \in Streams, ChildWrites(s)
  PROVE  IInv'
  <1>1. /\ mainBuf[s] \in Seq(Chunks) /\ threadBuf[s] \in Seq(Chunks)
        /\ pipe[s] \in Seq(Chunks)
        /\ wrote[s] \in 0..MaxChunks /\ wrote[s] < MaxChunks
        /\ wrote[s] + 1 \in 0..MaxChunks /\ wrote[s] + 1 \in Chunks
    <2>1. /\ wrote[s] \in 0..MaxChunks /\ total[s] \in 0..MaxChunks /\ wrote[s] < total[s]
      BY DEF IInv, TypeOK, ChildWrites
    <2>2. /\ mainBuf[s] \in Seq(Chunks) /\ threadBuf[s] \in Seq(Chunks)
          /\ pipe[s] \in Seq(Chunks)
      BY DEF IInv, TypeOK
    <2> QED
      BY <2>1, MaxChunksAssumption, <2>2 DEF Chunks
  <1>2. /\ Append(pipe[s], wrote[s] + 1) \in Seq(Chunks)
        /\ Len(Append(pipe[s], wrote[s] + 1)) = Len(pipe[s]) + 1
        /\ Len(pipe[s]) \in Nat
    BY <1>1, OneLonger, Zenon
  <1>3. TypeOK'
    BY <1>1, <1>2, ZenonT(60) DEF IInv, TypeOK, ChildWrites, childVars, flagVars, ioVars, mainVars
  <1>4. ReadsWhatIsThere'
    BY <1>2 DEF IInv, ChildWrites, ReadsWhatIsThere, ioVars
  <1>5. NothingLostOnTheWay'
    <2> SUFFICES ASSUME NEW x \in Streams
                 PROVE  (mainBuf[x] \o threadBuf[x] \o pipe[x] = Written(x))'
      BY DEF NothingLostOnTheWay
    <2>1. mainBuf[x] \o threadBuf[x] \o pipe[x] = Written(x)
      BY DEF IInv, NothingLostOnTheWay
    <2>2. CASE x # s
      BY <2>1, <2>2 DEF Written, IInv, TypeOK, ChildWrites
    <2>3. CASE x = s
      <3>1. Longer(mainBuf[s], threadBuf[s], pipe[s], wrote[s] + 1)
        BY <1>1, AppendToLast, Zenon
      <3>2. mainBuf[s] \o threadBuf[s] \o pipe[s] = [k \in 1..wrote[s] |-> k]
        BY <2>1, <2>3 DEF Written
      <3>3. [k \in 1..(wrote[s] + 1) |-> k] = Append([k \in 1..wrote[s] |-> k], wrote[s] + 1)
        BY <1>1, OneMoreWritten
      <3>4. /\ pipe'[s] = Append(pipe[s], wrote[s] + 1) /\ wrote'[s] = wrote[s] + 1
            /\ mainBuf' = mainBuf /\ threadBuf' = threadBuf
        BY DEF IInv, TypeOK, ChildWrites
      <3> QED
        BY <2>3, <3>1, <3>2, <3>3, <3>4 DEF Longer, Written
    <2> QED
      BY <2>2, <2>3
  <1> QED
    BY <1>3, <1>4, <1>5 DEF IInv

(* A read moves the first avail chunks of a pipe to the end of what the     *)
(* thread holds; the count is right, though it was taken before the lock.   *)
LEMMA ReadPipeKeeps ==
  ASSUME IInv, NEW s \in Streams, ReadPipe(s)
  PROVE  IInv'
  <1>1. /\ mainBuf[s] \in Seq(Chunks) /\ threadBuf[s] \in Seq(Chunks)
        /\ pipe[s] \in Seq(Chunks) /\ avail \in 1..Len(pipe[s])
    BY DEF IInv, TypeOK, ReadPipe, ReadsWhatIsThere
  <1>2. /\ threadBuf[s] \o SubSeq(pipe[s], 1, avail) \in Seq(Chunks)
        /\ SubSeq(pipe[s], avail + 1, Len(pipe[s])) \in Seq(Chunks)
        /\ Same(mainBuf[s], threadBuf[s] \o SubSeq(pipe[s], 1, avail),
                SubSeq(pipe[s], avail + 1, Len(pipe[s])),
                mainBuf[s], threadBuf[s], pipe[s])
    BY <1>1, MoveFirst, Zenon
  <1>3. TypeOK'
    BY <1>2, ZenonT(60) DEF IInv, TypeOK, ReadPipe, childVars, flagVars, mainVars
  <1>4. ReadsWhatIsThere'
    BY DEF IInv, ReadPipe, ReadsWhatIsThere, Read
  <1>5. NothingLostOnTheWay'
    <2> SUFFICES ASSUME NEW x \in Streams
                 PROVE  (mainBuf[x] \o threadBuf[x] \o pipe[x] = Written(x))'
      BY DEF NothingLostOnTheWay
    <2>1. mainBuf[x] \o threadBuf[x] \o pipe[x] = Written(x)
      BY DEF IInv, NothingLostOnTheWay
    <2>2. Written(x)' = Written(x)
      BY DEF Written, childVars, ReadPipe
    <2>3. CASE x # s
      BY <2>1, <2>2, <2>3 DEF IInv, TypeOK, ReadPipe
    <2>4. CASE x = s
      <3>1. /\ pipe'[s] = SubSeq(pipe[s], avail + 1, Len(pipe[s]))
            /\ threadBuf'[s] = threadBuf[s] \o SubSeq(pipe[s], 1, avail)
            /\ mainBuf' = mainBuf
        BY DEF IInv, TypeOK, ReadPipe
      <3> QED
        BY <1>2, <2>1, <2>2, <2>4, <3>1, Zenon DEF Same
    <2> QED
      BY <2>3, <2>4
  <1> QED
    BY <1>3, <1>4, <1>5 DEF IInv

(* A copy appends all the thread holds to what the caller has.              *)
LEMMA CopyKeeps ==
  ASSUME IInv, NEW s \in Streams, NEW from,
         NEW to \in {"copy err", "report"}, Copy(s, from, to)
  PROVE  IInv'
  <1>1. /\ mainBuf[s] \in Seq(Chunks) /\ threadBuf[s] \in Seq(Chunks)
        /\ pipe[s] \in Seq(Chunks)
    BY DEF IInv, TypeOK
  <1>2. /\ mainBuf[s] \o threadBuf[s] \in Seq(Chunks) /\ <<>> \in Seq(Chunks)
        /\ Same(mainBuf[s] \o threadBuf[s], <<>>, pipe[s],
                mainBuf[s], threadBuf[s], pipe[s])
    BY <1>1, MoveAll, Zenon
  <1>3. TypeOK'
    BY <1>2, ZenonT(60) DEF IInv, TypeOK, Copy, childVars, flagVars, ioVars
  <1>4. ReadsWhatIsThere'
    BY DEF IInv, Copy, ReadsWhatIsThere, ioVars
  <1>5. NothingLostOnTheWay'
    <2> SUFFICES ASSUME NEW x \in Streams
                 PROVE  (mainBuf[x] \o threadBuf[x] \o pipe[x] = Written(x))'
      BY DEF NothingLostOnTheWay
    <2>1. mainBuf[x] \o threadBuf[x] \o pipe[x] = Written(x)
      BY DEF IInv, NothingLostOnTheWay
    <2>2. Written(x)' = Written(x)
      BY DEF Written, childVars, Copy
    <2>3. CASE x # s
      BY <2>1, <2>2, <2>3 DEF IInv, TypeOK, Copy
    <2>4. CASE x = s
      <3>1. /\ mainBuf'[s] = mainBuf[s] \o threadBuf[s]
            /\ threadBuf'[s] = <<>>
            /\ pipe' = pipe
        BY DEF IInv, TypeOK, Copy
      <3> QED
        BY <1>2, <2>1, <2>2, <2>4, <3>1, Zenon DEF Same
    <2> QED
      BY <2>3, <2>4
  <1> QED
    BY <1>3, <1>4, <1>5 DEF IInv

(* The peek is bounded by what was written, so that the count fits.         *)
LEMMA PeekSomeKeeps ==
  ASSUME IInv, NEW s \in Streams, PeekSome(s)
  PROVE  IInv'
  <1>1. pipe[s] \in Seq(Chunks) /\ pipe[s] # <<>> /\ Len(pipe[s]) \in 0..MaxChunks
    BY PipeIsBounded DEF IInv, TypeOK, PeekSome
  <1>2. Len(pipe[s]) \in Nat \ {0}
    BY <1>1, EmptySeq, Zenon
  <1>3. TypeOK'
    BY <1>1, ZenonT(60) DEF IInv, TypeOK, PeekSome, Read, childVars, flagVars, mainVars
  <1>4. ReadsWhatIsThere'
    <2>1. Len(pipe[s]) \in 1..Len(pipe[s])
      BY <1>2
    <2>2. \A x \in Streams : Read(x) = Read(s) => x = s
      <3>1. CASE s = "out"
        BY <3>1 DEF Streams, Read
      <3>2. CASE s = "err"
        BY <3>2 DEF Streams, Read
      <3> QED
        BY <3>1, <3>2 DEF Streams
    <2> QED
      BY <2>1, <2>2 DEF PeekSome, ReadsWhatIsThere
  <1>5. NothingLostOnTheWay'
    BY StreamsAlone DEF IInv, PeekSome, childVars
  <1> QED
    BY <1>3, <1>4, <1>5 DEF IInv

(* The steps that move no chunk. *)
LEMMA ChildKeeps ==
  ASSUME IInv, ChildExits \/ \E s \in Streams : ChildCloses(s)
  PROVE  IInv'
  <1>1. TypeOK'
    <2>1. /\ child' \in {"running", "ok", "error"} /\ open' \in [Streams -> BOOLEAN]
          /\ UNCHANGED <<faults, total, wrote, pipe, threadBuf, mainBuf, threadWanted,
                         threadDone, io, avail, main, done, exitCode>>
      BY DEF IInv, TypeOK, ChildExits, ChildCloses, flagVars, ioVars, mainVars
    <2> QED
      BY <2>1, ZenonT(60) DEF IInv, TypeOK
  <1>2. ReadsWhatIsThere'
    BY DEF IInv, ReadsWhatIsThere, ChildExits, ChildCloses, ioVars
  <1>3. NothingLostOnTheWay'
    BY StreamsAlone DEF IInv, ChildExits, ChildCloses
  <1> QED
    BY <1>1, <1>2, <1>3 DEF IInv

LEMMA IoKeeps ==
  ASSUME IInv,
         \/ IoLoop \/ IoExit
         \/ \E s \in Streams : PeekNone(s) \/ PeekBroken(s) \/ ReadNoMemory(s)
  PROVE  IInv'
  <1> USE DEF IoLoop, IoExit, PeekNone, PeekBroken, ReadNoMemory
  <1>1. TypeOK'
    <2>1. /\ io' \in {"none", "loop", "peek out", "read out", "peek err", "read err", "exited"}
          /\ UNCHANGED <<faults, child, total, wrote, open, pipe, threadBuf, mainBuf,
                         threadWanted, avail, main, done, exitCode>>
      BY DEF IInv, TypeOK, AfterNothing, childVars, flagVars, mainVars
    <2>2. threadDone' \in BOOLEAN
      BY Zenon DEF IInv, TypeOK, flagVars
    <2> QED
      BY <2>1, <2>2, Zenon DEF IInv, TypeOK
  <1>2. ReadsWhatIsThere'
    BY DEF IInv, ReadsWhatIsThere, AfterNothing, Read, Streams
  <1>3. NothingLostOnTheWay'
    BY StreamsAlone DEF IInv, childVars
  <1> QED
    BY <1>1, <1>2, <1>3 DEF IInv

LEMMA MainKeeps ==
  ASSUME IInv,
         \/ CreateThread \/ CreateThreadFails \/ WantThread
         \/ TickBegins \/ CopyNoMemory \/ TickReports \/ FreeBegins \/ Shutdown \/ Joined
  PROVE  IInv'
  <1> USE DEF CreateThread, CreateThreadFails, WantThread, TickBegins, CopyNoMemory, TickReports,
              FreeBegins, Shutdown, Free, Joined
  <1>1. TypeOK'
    <2>1. /\ io' \in {"none", "loop", "peek out", "read out", "peek err", "read err", "exited"}
          /\ main' \in {"create", "want", "idle", "copy out", "copy err",
                        "report", "over", "join", "freed"}
          /\ exitCode' \in {"none", "running", "ok", "error"}
          /\ UNCHANGED <<faults, child, total, wrote, open, pipe, threadBuf, mainBuf,
                         threadDone, avail>>
      BY DEF IInv, TypeOK, childVars, flagVars, ioVars, mainVars
    <2>2. threadWanted' \in BOOLEAN /\ done' \in BOOLEAN
      BY Zenon DEF IInv, TypeOK, flagVars
    <2> QED
      BY <2>1, <2>2, Zenon DEF IInv, TypeOK
  <1>2. ReadsWhatIsThere'
    BY DEF IInv, ReadsWhatIsThere, Read, ioVars
  <1>3. NothingLostOnTheWay'
    BY StreamsAlone DEF IInv, childVars
  <1> QED
    BY <1>1, <1>2, <1>3 DEF IInv

LEMMA StepIInv == IInv /\ [Next]_vars => IInv'
  <1> SUFFICES ASSUME IInv, [Next]_vars PROVE IInv'
    OBVIOUS
  <1>1. CASE \E s \in Streams : ChildWrites(s)
    BY <1>1, ChildWritesKeeps
  <1>2. CASE ChildExits \/ \E s \in Streams : ChildCloses(s)
    BY <1>2, ChildKeeps
  <1>3. CASE \E s \in Streams : PeekSome(s)
    BY <1>3, PeekSomeKeeps
  <1>4. CASE \E s \in Streams : ReadPipe(s)
    BY <1>4, ReadPipeKeeps
  <1>5. CASE \/ IoLoop \/ IoExit
             \/ \E s \in Streams : PeekNone(s) \/ PeekBroken(s) \/ ReadNoMemory(s)
    BY <1>5, IoKeeps
  <1>6. CASE CopyOut \/ CopyErr
    <2>1. CASE CopyOut
      BY <2>1, CopyKeeps DEF CopyOut, Streams
    <2>2. CASE CopyErr
      BY <2>2, CopyKeeps DEF CopyErr, Streams
    <2> QED
      BY <1>6, <2>1, <2>2
  <1>7. CASE \/ CreateThread \/ CreateThreadFails \/ WantThread
             \/ TickBegins \/ CopyNoMemory \/ TickReports \/ FreeBegins \/ Shutdown \/ Joined
    BY <1>7, MainKeeps
  <1>8. CASE UNCHANGED vars
    <2>1. TypeOK'
      <3>1. UNCHANGED <<faults, child, total, wrote, open, pipe, threadBuf, mainBuf,
                        io, avail, main, exitCode>>
        BY <1>8 DEF vars, childVars, ioVars, mainVars
      <3>2. threadWanted' \in BOOLEAN /\ threadDone' \in BOOLEAN /\ done' \in BOOLEAN
        BY <1>8, Zenon DEF IInv, TypeOK, vars, flagVars, mainVars
      <3> QED
        BY <3>1, <3>2, Zenon DEF IInv, TypeOK
    <2>2. ReadsWhatIsThere'
      BY <1>8 DEF IInv, ReadsWhatIsThere, vars, childVars, flagVars, ioVars, mainVars
    <2>3. NothingLostOnTheWay'
      BY <1>8, StreamsAlone DEF IInv, vars, childVars
    <2> QED
      BY <2>1, <2>2, <2>3 DEF IInv
  <1> QED
    BY <1>1, <1>2, <1>3, <1>4, <1>5, <1>6, <1>7, <1>8
    DEF Next, Child, IoThread, MainThread, Tick

(* The output of a child reaches the caller's buffers whole and in order,   *)
(* through the pipe and the thread's buffer, and no read blocks while it    *)
(* holds the lock (process_io_thread and process_tick,                      *)
(* src/process_utils.c): for every amount of output, every size of the pipe *)
(* and every set of the modelled failures.                                  *)
THEOREM Invariance == Spec => []IInv
  BY InitIInv, StepIInv, PTL DEF Spec

----------------------------------------------------------------------------
(* What the report of the end rests on: the thread says it is done only     *)
(* when it has ended or has found a stream closed and empty; a closed       *)
(* stream is written; and once the caller's tick has seen the flag, it      *)
(* copies the rest of that stream before it reports.                        *)

Past(s) == main \in (IF s = "out" THEN {"copy err", "report", "over"}
                                  ELSE {"report", "over"})

Ended(s) == ~open[s] /\ pipe[s] = <<>>

ClosedIsWritten == \A s \in Streams : ~open[s] => wrote[s] = total[s]

DoneHasAReason == threadDone => io = "exited" \/ \E s \in Streams : Ended(s)

DoneIsSeen ==
  /\ done => threadDone
  /\ main = "over" => done /\ exitCode \in {child, "running"}

EndedIsCopied ==
  done /\ io # "exited" /\ "alloc" \notin faults =>
    \E s \in Streams : Ended(s) /\ (Past(s) => threadBuf[s] = <<>>)

CreatedOnce == main = "create" => io = "none"

DInv == CreatedOnce /\ ClosedIsWritten /\ DoneHasAReason /\ DoneIsSeen /\ EndedIsCopied

LEMMA InitDInv == Init => DInv
  BY DEF Init, DInv, CreatedOnce, ClosedIsWritten, DoneHasAReason, DoneIsSeen, EndedIsCopied

(* The steps, by what they do to the streams. *)
LEMMA Steps ==
  ASSUME [Next]_vars
  PROVE  \/ \E x \in Streams : ChildWrites(x) \/ ChildCloses(x) \/ ReadPipe(x)
         \/ ChildExits \/ CopyOut \/ CopyErr
         \/ UNCHANGED <<child, wrote, total, open, pipe, threadBuf, mainBuf>>
  BY DEF Next, Child, IoThread, MainThread, Tick, vars, childVars, IoLoop, IoExit,
         PeekSome, PeekNone, PeekBroken, ReadNoMemory, CreateThread, CreateThreadFails, WantThread,
         TickBegins, CopyNoMemory, TickReports, FreeBegins, Shutdown, Free, Joined

(* A stream that is closed and empty stays so, and nothing comes after it.  *)
LEMMA EndedStays ==
  ASSUME IInv, [Next]_vars, NEW s \in Streams, Ended(s)
  PROVE  Ended(s)' /\ (threadBuf[s] = <<>> => threadBuf[s]' = <<>>)
  <1>1. /\ ~open[s] /\ pipe[s] = <<>> /\ open \in [Streams -> BOOLEAN]
        /\ pipe \in [Streams -> Seq(Chunks)] /\ threadBuf \in [Streams -> Seq(Chunks)]
    BY DEF Ended, IInv, TypeOK
  <1>2. CASE \E x \in Streams : ChildWrites(x)
    BY <1>1, <1>2 DEF ChildWrites, Ended
  <1>3. CASE \E x \in Streams : ChildCloses(x)
    BY <1>1, <1>3 DEF ChildCloses, Ended
  <1>4. CASE \E x \in Streams : ReadPipe(x)
    <2>1. PICK x \in Streams : ReadPipe(x)
      BY <1>4
    <2>2. avail \in 1..Len(pipe[x])
      BY <2>1 DEF IInv, ReadsWhatIsThere, ReadPipe
    <2>3. x # s
      BY <1>1, <2>2, EmptySeq
    <2> QED
      BY <1>1, <2>1, <2>3 DEF ReadPipe, childVars, Ended
  <1>5. CASE ChildExits
    BY <1>1, <1>5 DEF ChildExits, Ended
  <1>6. CASE CopyOut \/ CopyErr
    BY <1>1, <1>6 DEF CopyOut, CopyErr, Copy, childVars, Ended
  <1>7. CASE UNCHANGED <<child, wrote, total, open, pipe, threadBuf, mainBuf>>
    BY <1>1, <1>7 DEF Ended
  <1> QED
    BY <1>2, <1>3, <1>4, <1>5, <1>6, <1>7, Steps

LEMMA ClosedIsWrittenStep == IInv /\ ClosedIsWritten /\ [Next]_vars => ClosedIsWritten'
  <1> SUFFICES ASSUME IInv, ClosedIsWritten, [Next]_vars, NEW s \in Streams
               PROVE  (~open[s] => wrote[s] = total[s])'
    BY DEF ClosedIsWritten
  <1>1. /\ open \in [Streams -> BOOLEAN] /\ wrote \in [Streams -> 0..MaxChunks]
        /\ ~open[s] => wrote[s] = total[s]
    BY DEF IInv, TypeOK, ClosedIsWritten
  <1>2. CASE \E x \in Streams : ChildWrites(x)
    BY <1>1, <1>2 DEF ChildWrites
  <1>3. CASE \E x \in Streams : ChildCloses(x)
    BY <1>1, <1>3 DEF ChildCloses
  <1>4. CASE ChildExits
    BY <1>1, <1>4 DEF ChildExits
  <1>5. CASE \/ \E x \in Streams : ReadPipe(x)
             \/ CopyOut \/ CopyErr
             \/ UNCHANGED <<child, wrote, total, open, pipe, threadBuf, mainBuf>>
    BY <1>1, <1>5 DEF ReadPipe, CopyOut, CopyErr, Copy, childVars
  <1> QED
    BY <1>2, <1>3, <1>4, <1>5, Steps

LEMMA CreatedOnceStep == CreatedOnce /\ [Next]_vars => CreatedOnce'
  BY DEF CreatedOnce, Next, Child, IoThread, MainThread, Tick, vars, ioVars, mainVars,
         ChildWrites, ChildCloses, ChildExits, IoLoop, IoExit, PeekSome, PeekNone,
         PeekBroken, ReadPipe, ReadNoMemory, Peek, Read, CreateThread, CreateThreadFails, WantThread,
         TickBegins, CopyOut, CopyErr, Copy, CopyNoMemory, TickReports, FreeBegins,
         Shutdown, Free, Joined

(* The thread ends once, and does not take its flag back. *)
LEMMA ThreadSteps ==
  ASSUME CreatedOnce, [Next]_vars
  PROVE  /\ io = "exited" => io' = "exited"
         /\ threadDone' # threadDone => \/ io' = "exited"
                                        \/ \E s \in Streams : PeekBroken(s)
         /\ threadDone => threadDone'
  <1>1. \/ IoLoop \/ IoExit \/ CreateThread
        \/ \E s \in Streams : PeekBroken(s)
        \/ \E s \in Streams : PeekSome(s) \/ PeekNone(s) \/ ReadPipe(s) \/ ReadNoMemory(s)
        \/ UNCHANGED <<io, threadDone>>
    BY DEF Next, Child, IoThread, MainThread, Tick, vars, flagVars, ioVars, ChildWrites,
           ChildCloses, ChildExits, CreateThreadFails, WantThread, TickBegins, CopyOut, CopyErr, Copy,
           CopyNoMemory, TickReports, FreeBegins, Shutdown, Free, Joined
  <1>2. CASE IoLoop \/ CreateThread
    <2>1. io # "exited" /\ threadDone' = threadDone
      BY <1>2 DEF IoLoop, CreateThread, CreatedOnce, flagVars
    <2> QED
      BY <2>1, Zenon
  <1>3. CASE IoExit
    BY <1>3, Zenon DEF IoExit
  <1>4. CASE \E s \in Streams : PeekBroken(s)
    <2>1. PICK s \in Streams : PeekBroken(s)
      BY <1>4
    <2>2. io # "exited"
      BY <2>1 DEF PeekBroken, Peek, Streams
    <2> QED
      BY <2>1, <2>2, Zenon DEF PeekBroken
  <1>5. CASE \E s \in Streams : PeekSome(s) \/ PeekNone(s) \/ ReadPipe(s) \/ ReadNoMemory(s)
    <2>1. PICK s \in Streams : PeekSome(s) \/ PeekNone(s) \/ ReadPipe(s) \/ ReadNoMemory(s)
      BY <1>5
    <2>2. io # "exited"
      BY <2>1 DEF PeekSome, PeekNone, ReadPipe, ReadNoMemory, Peek, Read, Streams
    <2>3. threadDone' = threadDone
      BY <2>1 DEF PeekSome, PeekNone, ReadPipe, ReadNoMemory, flagVars
    <2> QED
      BY <2>2, <2>3, Zenon
  <1>6. CASE UNCHANGED <<io, threadDone>>
    BY <1>6, Zenon
  <1> QED
    BY <1>1, <1>2, <1>3, <1>4, <1>5, <1>6

LEMMA DoneHasAReasonStep ==
  ASSUME IInv, CreatedOnce, DoneHasAReason, [Next]_vars
  PROVE  DoneHasAReason'
  <1>1. CASE threadDone' # threadDone
    <2>1. ASSUME NEW s \in Streams, PeekBroken(s) PROVE Ended(s)'
      BY <2>1 DEF PeekBroken, Ended, childVars
    <2> QED
      BY <1>1, <2>1, ThreadSteps DEF DoneHasAReason
  <1>2. CASE threadDone' = threadDone
    BY <1>2, ThreadSteps, EndedStays DEF DoneHasAReason
  <1> QED
    BY <1>1, <1>2

LEMMA MainSteps ==
  ASSUME [Next]_vars
  PROVE  \/ UNCHANGED <<faults, main, done, exitCode>>
         \/ /\ TickBegins \/ CopyOut \/ CopyErr \/ CopyNoMemory \/ TickReports
               \/ CreateThread \/ CreateThreadFails \/ WantThread \/ FreeBegins \/ Joined \/ Shutdown
            /\ UNCHANGED <<faults, child>>
  BY DEF Next, Child, IoThread, MainThread, Tick, vars, childVars, mainVars,
         ChildWrites, ChildCloses, ChildExits, IoLoop, IoExit, PeekSome, PeekNone,
         PeekBroken, ReadPipe, ReadNoMemory, CreateThread, CreateThreadFails, WantThread,
         TickBegins, CopyOut, CopyErr, Copy, CopyNoMemory, TickReports, FreeBegins,
         Shutdown, Free, Joined

LEMMA DoneIsSeenStep ==
  ASSUME IInv, CreatedOnce, DoneIsSeen, [Next]_vars
  PROVE  DoneIsSeen'
  <1>1. (done => threadDone)'
    <2>1. CASE UNCHANGED <<faults, main, done, exitCode>>
      BY <2>1, ThreadSteps DEF DoneIsSeen
    <2>2. CASE TickBegins
      BY <2>2, ThreadSteps DEF DoneIsSeen, TickBegins
    <2>3. CASE \/ CopyOut \/ CopyErr \/ CopyNoMemory \/ TickReports \/ CreateThread
               \/ CreateThreadFails \/ WantThread \/ FreeBegins \/ Joined \/ Shutdown
      BY <2>3, ThreadSteps
      DEF DoneIsSeen, CopyOut, CopyErr, Copy, CopyNoMemory, TickReports, CreateThread,
          CreateThreadFails, WantThread, FreeBegins, Joined, Shutdown, Free
    <2> QED
      BY <2>1, <2>2, <2>3, MainSteps
  <1>2. (main = "over" => done /\ exitCode \in {child, "running"})'
    <2>1. CASE UNCHANGED <<faults, main, done, exitCode>>
      <3>1. child' = child \/ child = "running"
        BY Steps DEF ChildWrites, ChildCloses, ChildExits, ReadPipe, CopyOut, CopyErr,
                     Copy, childVars
      <3> QED
        BY <2>1, <3>1 DEF DoneIsSeen
    <2>2. CASE TickReports /\ UNCHANGED <<faults, child>>
      BY <2>2 DEF TickReports
    <2>3. CASE \/ TickBegins \/ CopyOut \/ CopyErr \/ CopyNoMemory \/ CreateThread
               \/ CreateThreadFails \/ WantThread \/ FreeBegins \/ Joined \/ Shutdown
      BY <2>3 DEF TickBegins, CopyOut, CopyErr, Copy, CopyNoMemory, CreateThread,
                  CreateThreadFails, WantThread, FreeBegins, Joined, Shutdown, Free
    <2> QED
      BY <2>1, <2>2, <2>3, MainSteps
  <1> QED
    BY <1>1, <1>2 DEF DoneIsSeen

LEMMA EndedIsCopiedStep ==
  ASSUME IInv, CreatedOnce, DoneHasAReason, EndedIsCopied, [Next]_vars
  PROVE  EndedIsCopied'
  <1> SUFFICES ASSUME done', io' # "exited", "alloc" \notin faults'
               PROVE  \E s \in Streams : Ended(s)' /\ (Past(s)' => threadBuf'[s] = <<>>)
    BY DEF EndedIsCopied
  <1>1. io # "exited" /\ "alloc" \notin faults
    BY ThreadSteps, MainSteps
  <1>2. CASE ~done
    <2>1. TickBegins
      BY <1>2, MainSteps DEF CopyOut, CopyErr, Copy, CopyNoMemory, TickReports,
                             CreateThread, CreateThreadFails, WantThread, FreeBegins, Joined, Shutdown, Free
    <2>2. PICK s \in Streams : Ended(s)
      BY <1>1, <1>2, <2>1 DEF TickBegins, DoneHasAReason
    <2>3. ~Past(s)'
      BY <2>1 DEF TickBegins, Past
    <2> QED
      BY <2>2, <2>3, EndedStays
  <1>3. CASE done
    <2>1. PICK s \in Streams : Ended(s) /\ (Past(s) => threadBuf[s] = <<>>)
      BY <1>1, <1>3 DEF EndedIsCopied
    <2>2. CASE Past(s)
      BY <2>1, <2>2, EndedStays
    <2>3. CASE ~Past(s) /\ Past(s)'
      <3>1. /\ s = "out" => CopyOut
            /\ s = "err" => CopyErr
        BY <1>1, <2>3, MainSteps
        DEF Past, Streams, TickBegins, CopyOut, CopyErr, Copy, CopyNoMemory, TickReports,
            CreateThread, CreateThreadFails, WantThread, FreeBegins, Joined, Shutdown, Free
      <3>2. threadBuf'[s] = <<>>
        BY <3>1 DEF Streams, CopyOut, CopyErr, Copy, IInv, TypeOK
      <3> QED
        BY <2>1, <3>2, EndedStays
    <2>4. CASE ~Past(s)'
      BY <2>1, <2>4, EndedStays
    <2> QED
      BY <2>2, <2>3, <2>4
  <1> QED
    BY <1>2, <1>3

LEMMA StepDInv == IInv /\ DInv /\ [Next]_vars => DInv'
  BY CreatedOnceStep, ClosedIsWrittenStep, DoneHasAReasonStep, DoneIsSeenStep,
     EndedIsCopiedStep
  DEF DInv

LEMMA DInvHolds == Spec => [](IInv /\ DInv)
  BY Invariance, InitDInv, StepDInv, PTL DEF Spec

(* The exit code that is reported is the child's own, 259 only for a child   *)
(* that closed a stream and went on or that the thread never served          *)
(* (process_tick, src/process_utils.c:299).                                  *)
THEOREM ExitCode == Spec => []ExitCodeIsReal
  <1>1. DInv => ExitCodeIsReal
    BY DEF DInv, DoneIsSeen, DoneHasAReason, ExitCodeIsReal, Outran, Ended
  <1> QED
    BY <1>1, DInvHolds, PTL

(* At the report the caller has all the child wrote to one of the streams:   *)
(* the flag is read before the copies, so what the thread found before it    *)
(* set the flag is copied (process_tick, src/process_utils.c:299-330).       *)
THEOREM OneStream == Spec => []OneStreamComplete
  <1>1. IInv /\ DInv => OneStreamComplete
    <2> SUFFICES ASSUME IInv, DInv, main = "over", ~Outran, "alloc" \notin faults
                 PROVE  \E s \in Streams : mainBuf[s] = [k \in 1..total[s] |-> k]
      BY DEF OneStreamComplete
    <2>1. done /\ io # "exited"
      BY DEF DInv, DoneIsSeen, Outran
    <2>2. PICK s \in Streams : Ended(s) /\ threadBuf[s] = <<>>
      BY <2>1 DEF DInv, EndedIsCopied, Past
    <2>3. mainBuf[s] \in Seq(Chunks)
      BY DEF IInv, TypeOK
    <2>4. mainBuf[s] \o <<>> \o <<>> = Written(s)
      BY <2>2 DEF Ended, IInv, NothingLostOnTheWay
    <2>5. mainBuf[s] \o <<>> \o <<>> = mainBuf[s]
      BY <2>3, ConcatEmptySeq
    <2>6. wrote[s] = total[s]
      BY <2>2 DEF Ended, DInv, ClosedIsWritten
    <2> QED
      BY <2>4, <2>5, <2>6 DEF Written
  <1> QED
    BY <1>1, DInvHolds, PTL
=============================================================================
