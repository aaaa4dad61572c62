-------------------------- MODULE FcuBridgeProofs --------------------------
(***************************************************************************)
(* Theorems about FcuBridge, for every set of commands and every depth of  *)
(* the subscription.                                                       *)
(***************************************************************************)
EXTENDS FcuBridge, SequenceTheorems, TLAPS

-----------------------------------------------------------------------------
(* Sequences                                                               *)

\* What cmdHandler makes of a message are commands.
LEMMA CopiesType == \A c \in Topic : Copies(c) \in Seq(Commands)
<1> SUFFICES ASSUME NEW c \in Topic PROVE Copies(c) \in Seq(Commands)
  OBVIOUS
<1>1. CASE c = Notice
  <2>0. c # "LAND"
    BY <1>1 DEF Notice
  <2>1. Copies(c) = <<>>
    BY <1>1, <2>0, Zenon DEF Copies
  <2> QED BY <2>1
<1>2. CASE c # Notice /\ c = "LAND"
  <2>1. Copies(c) = <<c, c, c>>
    BY <1>2, Zenon DEF Copies
  <2>2. c \in Commands
    BY <1>2 DEF Topic
  <2> QED BY <2>1, <2>2
<1>3. CASE c # Notice /\ c # "LAND"
  <2>1. Copies(c) = <<c>>
    BY <1>3, Zenon DEF Copies
  <2>2. c \in Commands
    BY <1>3 DEF Topic
  <2> QED BY <2>1, <2>2
<1> QED BY <1>1, <1>2, <1>3

\* What is written is a part of the buffer that leaves out its beginning or its
\* end, and all of it while the link is clear.
LEMMA WrittenPart ==
  ASSUME mav_buf_send_ \in Seq(Commands), NEW w \in Written
  PROVE  /\ w \in Seq(Commands)
         /\ \/ \E i \in 0 .. Len(mav_buf_send_) : w = SubSeq(mav_buf_send_, 1, i)
            \/ \E i \in 0 .. Len(mav_buf_send_) :
                 w = SubSeq(mav_buf_send_, i + 1, Len(mav_buf_send_))
         /\ link = "clear" => w = mav_buf_send_
<1> DEFINE s == mav_buf_send_
<1>1. CASE link = "stalled"
  <2>1. w \in {SubSeq(s, 1, i) : i \in 0 .. Len(s)}
    BY <1>1, Zenon DEF Written
  <2> QED BY <1>1, <2>1, SubSeqProperties
<1>2. CASE link = "torn"
  <2>1. w \in {SubSeq(s, i + 1, Len(s)) : i \in 0 .. Len(s)}
    BY <1>2, Zenon DEF Written
  <2>2. PICK i \in 0 .. Len(s) : w = SubSeq(s, i + 1, Len(s))
    BY <2>1
  <2>3. \A j \in i + 1 .. Len(s) : s[j] \in Commands
    OBVIOUS
  <2>4. w \in Seq(Commands)
    BY <2>2, <2>3
  <2> QED BY <1>2, <2>2, <2>4
<1>3. CASE link # "stalled" /\ link # "torn"
  <2>1. w = s
    BY <1>3, Zenon DEF Written
  <2>2. s = SubSeq(s, 1, Len(s)) /\ Len(s) \in 0 .. Len(s)
    BY SubSeqFull, LenProperties
  <2> QED BY <2>1, <2>2
<1> QED BY <1>1, <1>2, <1>3

-----------------------------------------------------------------------------
(* Type correctness                                                        *)

\* The variables keep their types: the bridge never makes up a command.
THEOREM TypeCorrect == Spec => []TypeOK
<1> USE DEF TypeOK, process, carried, world, history
<1>0. <<>> \in Seq(Topic) /\ <<>> \in Seq(Commands) /\ <<>> \in Seq({"armed", "safe"})
  BY EmptySeq
<1>1. Init => TypeOK
  <2> SUFFICES ASSUME Init PROVE TypeOK
    OBVIOUS
  <2>1. topic \in Seq(Topic) /\ inbox \in Seq({"armed", "safe"})
    BY <1>0 DEF Init
  <2>2. /\ mav_buf_send_ \in Seq(Commands) /\ wire \in Seq(Commands)
        /\ taken \in Seq(Commands) /\ heard \in Seq(Commands)
    BY <1>0 DEF Init
  <2> QED BY <2>1, <2>2 DEF Init
<1>2. TypeOK /\ [Next]_bvars => TypeOK'
  <2> SUFFICES ASSUME TypeOK, [Next]_bvars PROVE TypeOK'
    OBVIOUS
  <2>0. Notice \in Topic /\ Commands \subseteq Topic
    BY DEF Topic
  <2>d. ASSUME NEW c \in Topic, Deliver(c) PROVE topic' \in Seq(Topic) /\ given' \in Nat
    <3>1. Enqueued(topic, c) \in Seq(Topic)
      BY DepthAssumption DEF Enqueued
    <3> QED BY <2>d, <3>1 DEF Deliver
  <2>1. ASSUME NEW c \in Commands, Publish(c) PROVE TypeOK'
    <3>1. topic' \in Seq(Topic) /\ given' \in Nat
      BY <2>0, <2>1, <2>d DEF Publish
    <3> QED BY <2>1, <3>1 DEF Publish
  <2>2. CASE Restart
    BY <1>0, <2>2 DEF Restart
  <2>3. ASSUME Die PROVE TypeOK'
    BY <1>0, <2>3 DEF Die
  <2>4. CASE Connect
    BY <2>4 DEF Connect
  <2>5. ASSUME NEW other \in BOOLEAN, Spin(other) PROVE TypeOK'
    <3>1. CASE topic = <<>>
      BY <2>5, <3>1 DEF Spin
    <3>2. CASE topic # <<>>
      <4>1. Copies(Head(topic)) \in Seq(Commands)
        BY <3>2, CopiesType
      <4>2. /\ topic' \in Seq(Topic)
            /\ mav_buf_send_' \in Seq(Commands)
            /\ taken' \in Seq(Commands)
        <5>1. /\ topic' = Tail(topic)
              /\ mav_buf_send_' = mav_buf_send_ \o Copies(Head(topic))
              /\ taken' = taken \o Copies(Head(topic))
          BY <2>5, <3>2 DEF Spin
        <5>2. Tail(topic) \in Seq(Topic)
          BY <3>2, HeadTailProperties
        <5> QED BY <4>1, <5>1, <5>2, ConcatProperties
      <4>3. chatter' \in BOOLEAN
        BY <2>5 DEF Spin
      <4> QED BY <2>5, <4>2, <4>3 DEF Spin
    <3> QED BY <3>1, <3>2
  <2>6. CASE Parse
    <3>1. topic' \in Seq(Topic) /\ given' \in Nat
      BY <2>0, <2>6, <2>d DEF Parse
    <3>2. inbox' \in Seq({"armed", "safe"})
      BY <2>6, HeadTailProperties DEF Parse
    <3> QED BY <2>6, <3>1, <3>2 DEF Parse
  <2>7. CASE Flush
    <3>1. CASE mav_buf_send_ = <<>> /\ ~chatter
      BY <2>7, <3>1 DEF Flush
    <3>2. CASE BrokenPipe
      BY <2>3, <3>2 DEF BrokenPipe
    <3>3. CASE /\ ~(mav_buf_send_ = <<>> /\ ~chatter)
               /\ ~BrokenPipe
      <4>1. wire' \in Seq(Commands) /\ socket' \in {"none", "open", "closed", "reset"}
        <5>1. CASE socket = "closed"
          BY <2>7, <3>3, <5>1 DEF Flush
        <5>2. CASE socket # "closed"
          <6>1. PICK w \in Written : wire' = wire \o w
            BY <2>7, <3>3, <5>2 DEF Flush
          <6>2. w \in Seq(Commands)
            BY WrittenPart
          <6> QED BY <2>7, <3>3, <5>2, <6>1, <6>2 DEF Flush
        <5> QED BY <5>1, <5>2
      <4>2. link' \in {"clear", "stalled", "torn", "mended"}
        BY <2>7, <3>3 DEF Flush
      <4>3. /\ at' = "spin" /\ mav_buf_send_' = <<>> /\ chatter' = FALSE
            /\ UNCHANGED <<armed_, topic, inbox, world, history>>
        BY <2>7, <3>3 DEF Flush
      <4> QED BY <1>0, <4>1, <4>2, <4>3
    <3> QED BY <3>1, <3>2, <3>3
  <2>8. CASE Hear
    <3>1. Obeyed(Head(wire)) \in BOOLEAN
      BY Zenon DEF Obeyed
    <3>2. heard' \in Seq(Commands) /\ wire' \in Seq(Commands)
      BY <2>8 DEF Hear
    <3> QED BY <2>8, <3>1, <3>2 DEF Hear
  <2>9. CASE Beat
    BY <2>9 DEF Beat
  <2>10. CASE Disarms \/ Cut \/ Stall \/ StallEnds \/ Abandon \/ Reach
    <3>1. CASE Cut \/ Abandon
      BY <1>0, <3>1 DEF Cut, Abandon
    <3>2. CASE Stall \/ StallEnds
      BY <3>2 DEF Stall, StallEnds
    <3>3. CASE Disarms \/ Reach
      BY <3>3 DEF Disarms, Reach
    <3> QED BY <2>10, <3>1, <3>2, <3>3
  <2>11. CASE UNCHANGED bvars
    BY <2>11 DEF bvars
  <2> QED
    BY <2>1, <2>2, <2>3, <2>4, <2>5, <2>6, <2>7, <2>8, <2>9, <2>10, <2>11 DEF Next, Crash
<1> QED BY <1>1, <1>2, PTL DEF Spec

-----------------------------------------------------------------------------
(* Sequences one after the other                                           *)

\* Three parts are one line, however they are put together.
LEMMA Together ==
  ASSUME NEW S, NEW s \in Seq(S), NEW t \in Seq(S), NEW u \in Seq(S)
  PROVE  (s \o t) \o u = s \o (t \o u)
BY ConcatAssociative

\* The first message of a line that has two parts is the first one's.
LEMMA HeadTailOfConcat ==
  ASSUME NEW S, NEW s \in Seq(S), NEW t \in Seq(S), s # <<>>
  PROVE  /\ s \o t # <<>>
         /\ Head(s \o t) = Head(s)
         /\ Tail(s \o t) = Tail(s) \o t
<1>1. s \o t \in Seq(S) /\ Len(s \o t) = Len(s) + Len(t) /\ Len(s) > 0
  BY ConcatProperties, EmptySeq
<1>2. s \o t # <<>>
  BY <1>1, EmptySeq, LenProperties
<1>3. Head(s \o t) = Head(s)
  BY <1>1, <1>2, ConcatProperties
<1>4. Tail(s) \in Seq(S) /\ Tail(s \o t) \in Seq(S)
  BY <1>2, <1>1, HeadTailProperties
<1>5. Len(Tail(s \o t)) = Len(Tail(s) \o t)
  BY <1>1, <1>2, <1>4, HeadTailProperties, ConcatProperties
<1>6. ASSUME NEW i \in 1 .. Len(Tail(s \o t)) PROVE Tail(s \o t)[i] = (Tail(s) \o t)[i]
  <2>1. Tail(s \o t)[i] = (s \o t)[i + 1]
    BY <1>1, <1>2, HeadTailProperties
  <2>2. Len(Tail(s \o t)) = Len(s) - 1 + Len(t) /\ Len(Tail(s)) = Len(s) - 1
    BY <1>1, <1>2, HeadTailProperties
  <2>3. Len(s) \in Nat /\ Len(t) \in Nat
    BY LenProperties
  <2>4. CASE i <= Len(s) - 1
    <3>1. (s \o t)[i + 1] = s[i + 1] /\ (Tail(s) \o t)[i] = Tail(s)[i]
      BY <1>4, <2>2, <2>3, <2>4, ConcatProperties
    <3> QED BY <2>1, <2>2, <2>3, <2>4, <3>1, HeadTailProperties
  <2>5. CASE i > Len(s) - 1
    <3>1. (s \o t)[i + 1] = t[i + 1 - Len(s)] /\ (Tail(s) \o t)[i] = t[i - (Len(s) - 1)]
      BY <1>4, <2>2, <2>3, <2>5, ConcatProperties
    <3> QED BY <2>1, <2>2, <2>3, <2>5, <3>1
  <2> QED BY <2>2, <2>3, <2>4, <2>5
<1>7. Tail(s) \o t \in Seq(S)
  BY <1>4, ConcatProperties
<1>8. Tail(s \o t) = Tail(s) \o t
  BY <1>4, <1>5, <1>6, <1>7, SeqEqual
<1> QED BY <1>2, <1>3, <1>8

\* Taking the first message from one sequence to the end of the other leaves
\* the two together as they were.
LEMMA MoveOne ==
  ASSUME NEW S, NEW s \in Seq(S), NEW t \in Seq(S), t # <<>>
  PROVE  Append(s, Head(t)) \o Tail(t) = s \o t
<1>1. /\ Head(t) \in S /\ Tail(t) \in Seq(S)
      /\ t = <<Head(t)>> \o Tail(t)
  <2>1. /\ Head(t) \in S /\ Tail(t) \in Seq(S) /\ Len(Tail(t)) = Len(t) - 1
        /\ \A i \in 1 .. Len(Tail(t)) : Tail(t)[i] = t[i + 1]
    BY HeadTailProperties
  <2>2. <<Head(t)>> \in Seq(S) /\ Len(<<Head(t)>>) = 1 /\ <<Head(t)>>[1] = Head(t)
    BY <2>1
  <2>3. Len(t) \in Nat /\ Len(t) > 0
    BY EmptySeq, LenProperties
  <2>4. <<Head(t)>> \o Tail(t) \in Seq(S) /\ Len(<<Head(t)>> \o Tail(t)) = Len(t)
    BY <2>1, <2>2, <2>3, ConcatProperties
  <2>5. ASSUME NEW i \in 1 .. Len(t) PROVE (<<Head(t)>> \o Tail(t))[i] = t[i]
    <3>1. CASE i = 1
      BY <2>1, <2>2, <2>3, <3>1, ConcatProperties
    <3>2. CASE i # 1
      <4>1. (<<Head(t)>> \o Tail(t))[i] = Tail(t)[i - 1]
        BY <2>1, <2>2, <2>3, <3>2, ConcatProperties
      <4> QED BY <2>1, <2>3, <3>2, <4>1
    <3> QED BY <3>1, <3>2
  <2> QED BY <2>1, <2>4, <2>5, SeqEqual
<1>2. Append(s, Head(t)) = s \o <<Head(t)>>
  BY <1>1, AppendIsConcat
<1>3. <<Head(t)>> \in Seq(S)
  BY <1>1
<1> QED BY <1>1, <1>2, <1>3, ConcatAssociative

\* The beginning of a sequence made of two.
LEMMA FirstPart ==
  ASSUME NEW S, NEW s \in Seq(S), NEW t \in Seq(S)
  PROVE  SubSeq(s \o t, 1, Len(s)) = s
<1>1. Len(s) \in Nat /\ s \o t \in Seq(S) /\ Len(s \o t) = Len(s) + Len(t) /\ Len(t) \in Nat
  BY ConcatProperties, LenProperties
<1>2. CASE Len(s) = 0
  <2>1. s = <<>>
    BY <1>2, EmptySeq
  <2>2. SubSeq(s \o t, 1, Len(s)) = <<>>
    BY <1>2, SubSeqEmpty
  <2> QED BY <2>1, <2>2
<1>3. CASE Len(s) > 0
  <2>1. SubSeq(s \o t, 1, Len(s)) = SubSeq(s, 1, Len(s))
    BY <1>1, <1>3, SubSeqOfConcat1
  <2> QED BY <2>1, SubSeqFull
<1> QED BY <1>1, <1>2, <1>3

\* The end of a sequence made of two.
LEMMA LastPart ==
  ASSUME NEW S, NEW s \in Seq(S), NEW t \in Seq(S)
  PROVE  SubSeq(s \o t, Len(s) + 1, Len(s \o t)) = t
<1>1. Len(s) \in Nat /\ s \o t \in Seq(S) /\ Len(s \o t) = Len(s) + Len(t) /\ Len(t) \in Nat
  BY ConcatProperties, LenProperties
<1>2. CASE Len(t) = 0
  <2>1. t = <<>>
    BY <1>2, EmptySeq
  <2>2. SubSeq(s \o t, Len(s) + 1, Len(s \o t)) = <<>>
    BY <1>1, <1>2, SubSeqEmpty
  <2> QED BY <2>1, <2>2
<1>3. CASE Len(t) > 0
  <2>1. SubSeq(s \o t, Len(s) + 1, Len(s) + Len(t)) = SubSeq(t, Len(s) + 1 - Len(s), Len(s) + Len(t) - Len(s))
    BY <1>1, <1>3, SubSeqOfConcat2
  <2>2. Len(s) + 1 - Len(s) = 1 /\ Len(s) + Len(t) - Len(s) = Len(t)
    BY <1>1
  <2> QED BY <1>1, <2>1, <2>2, SubSeqFull
<1> QED BY <1>1, <1>2, <1>3

\* A sequence is made of its beginning and the rest.
LEMMA BothParts ==
  ASSUME NEW S, NEW s \in Seq(S), NEW i \in 0 .. Len(s)
  PROVE  SubSeq(s, 1, i) \o SubSeq(s, i + 1, Len(s)) = s
<1>1. Len(s) \in Nat
  BY LenProperties
<1>2. 1 \in 1 .. Len(s) + 1 /\ i \in 1 - 1 .. Len(s) /\ Len(s) \in i .. Len(s)
  BY <1>1
<1>3. SubSeq(s, 1, i) \o SubSeq(s, i + 1, Len(s)) = SubSeq(s, 1, Len(s))
  BY <1>2, ConcatAdjacentSubSeq
<1> QED BY <1>3, SubSeqFull

-----------------------------------------------------------------------------
(* No command is passed over while the link is clear                       *)

\* Nothing is on its way from a process without a connection, a process starts
\* with nothing, and what was taken up is what was heard, what is on its way and
\* what is lost or still to be written, in this order.
Kept ==
  /\ Alive /\ socket # "open" => wire = <<>>
  /\ ~Alive => socket = "none" /\ topic = <<>> /\ mav_buf_send_ = <<>>
  /\ at = "setup" => /\ socket = "none"
                     /\ mav_buf_send_ = <<>> /\ taken = <<>> /\ heard = <<>>
  /\ link = "clear" => \E rest \in Seq(Commands) : (heard \o wire) \o rest = taken
  /\ link = "clear" /\ socket = "open" => (heard \o wire) \o mav_buf_send_ = taken

\* Kept is inductive.
LEMMA KeptStep == TypeOK /\ Kept /\ [Next]_bvars => Kept'
<1> SUFFICES ASSUME TypeOK, Kept, [Next]_bvars PROVE Kept'
  OBVIOUS
<1>s. /\ heard \in Seq(Commands) /\ wire \in Seq(Commands) /\ mav_buf_send_ \in Seq(Commands)
  BY DEF TypeOK
<1>t. /\ heard \in Seq(Commands) /\ wire \in Seq(Commands) /\ mav_buf_send_ \in Seq(Commands) /\ taken \in Seq(Commands) /\ topic \in Seq(Topic)
      /\ <<>> \in Seq(Commands) /\ heard \o wire \in Seq(Commands)
  BY EmptySeq, ConcatProperties DEF TypeOK
<1>c. ASSUME NEW u \in Seq(Commands), NEW v \in Seq(Commands), NEW w \in Seq(Commands)
      PROVE  (u \o v) \o w = u \o (v \o w) /\ u \o v \in Seq(Commands) /\ u \o <<>> = u
  BY ConcatAssociative, ConcatProperties, ConcatEmptySeq
<1>e. ASSUME NEW rest \in Seq(Commands) PROVE ((heard \o <<>>) \o (wire \o rest)) = (heard \o wire) \o rest
  <2>1. heard \o <<>> = heard
    BY <1>t, ConcatEmptySeq
  <2>2. heard \o (wire \o rest) = (heard \o wire) \o rest
    BY <1>s, Together
  <2> QED BY <2>1, <2>2
<1>1. ASSUME NEW c, Deliver(c), UNCHANGED <<at, socket, link, mav_buf_send_, wire, taken, heard>>
      PROVE  Kept'
  BY <1>1 DEF Kept, Deliver, Alive
<1>2. CASE Restart
  <2>1. (heard' \o wire') \o <<>> = taken'
    BY <1>2, <1>c, <1>t DEF Restart, carried
  <2> QED BY <1>2, <1>t, <2>1 DEF Restart, carried, Kept, Alive
<1>3. ASSUME Die PROVE Kept'
  <2>1. link = "clear" => \E rest \in Seq(Commands) : (heard \o wire') \o rest = taken
    <3> SUFFICES ASSUME link = "clear" PROVE \E rest \in Seq(Commands) : (heard \o wire') \o rest = taken
      OBVIOUS
    <3>1. PICK rest \in Seq(Commands) : (heard \o wire) \o rest = taken
      BY DEF Kept
    <3>2. (heard \o <<>>) \o (wire \o rest) = taken /\ wire \o rest \in Seq(Commands)
      BY <1>c, <1>e, <1>t, <3>1
    <3> QED BY <1>3, <3>1, <3>2 DEF Die
  <2> QED BY <1>3, <2>1 DEF Die, history, Kept, Alive
<1>4. CASE Connect
  <2>1. (heard \o wire) \o mav_buf_send_ = taken
    <3>1. heard = <<>> /\ wire = <<>> /\ mav_buf_send_ = <<>> /\ taken = <<>>
      BY <1>4 DEF Connect, Kept, Alive
    <3>2. <<>> \o <<>> = <<>>
      BY <1>c, <1>t
    <3> QED BY <3>1, <3>2
  <2> QED BY <1>4, <2>1 DEF Connect, carried, history, Kept, Alive
<1>5. ASSUME NEW other \in BOOLEAN, Spin(other) PROVE Kept'
  <2>1. CASE topic = <<>>
    BY <1>5, <2>1 DEF Spin, Kept, Alive
  <2>2. CASE topic # <<>>
    <3> DEFINE copies == Copies(Head(topic))
    <3>1. copies \in Seq(Commands)
      <4>1. Head(topic) \in Topic
        BY <1>t, <2>2, HeadTailProperties
      <4> QED BY <4>1, CopiesType
    <3>2. /\ mav_buf_send_' = mav_buf_send_ \o copies /\ taken' = taken \o copies
          /\ at = "spin" /\ at' = "serve"
          /\ UNCHANGED <<socket, link, wire, heard>>
      BY <1>5, <2>2 DEF Spin
    <3>3. ASSUME NEW u \in Seq(Commands), NEW rest \in Seq(Commands), u \o rest = taken
          PROVE  u \o (rest \o copies) = taken \o copies /\ rest \o copies \in Seq(Commands)
      <4>1. (u \o rest) \o copies = u \o (rest \o copies)
        BY <3>1, Together
      <4>2. rest \o copies \in Seq(Commands)
        BY <3>1, ConcatProperties
      <4> QED BY <3>3, <4>1, <4>2
    <3>4. link = "clear" => \E rest \in Seq(Commands) : (heard \o wire) \o rest = taken'
      BY <1>t, <3>2, <3>3 DEF Kept
    <3>5. link = "clear" /\ socket = "open" => (heard \o wire) \o mav_buf_send_' = taken'
      BY <1>t, <3>2, <3>3 DEF Kept
    <3> QED BY <3>2, <3>4, <3>5 DEF Kept, Alive
  <2> QED BY <2>1, <2>2
<1>6. CASE Parse
  <2>1. CASE Deliver(Notice)
    BY <1>1, <1>6, <2>1 DEF Parse
  <2>2. CASE UNCHANGED <<topic, given>>
    BY <1>6, <2>2 DEF Parse, Kept, Alive
  <2> QED BY <1>6, <2>1, <2>2 DEF Parse
<1>7. CASE Flush
  <2>1. CASE mav_buf_send_ = <<>> /\ ~chatter
    BY <1>7, <2>1 DEF Flush, carried, history, Kept, Alive
  <2>2. CASE BrokenPipe
    BY <1>3, <2>2 DEF BrokenPipe
  <2>3. CASE /\ ~(mav_buf_send_ = <<>> /\ ~chatter) /\ ~BrokenPipe
    <3>0. /\ at = "serve" /\ at' = "spin" /\ mav_buf_send_' = <<>>
          /\ socket \in {"open", "closed"}
          /\ UNCHANGED <<topic, heard, taken>>
      BY <1>7, <2>3 DEF Flush, history
    <3>1. CASE socket = "closed"
      <4>1. socket' = "reset" /\ UNCHANGED <<link, wire>>
        BY <1>7, <2>3, <3>1 DEF Flush
      <4> QED BY <3>0, <3>1, <4>1 DEF Kept, Alive
    <3>2. CASE socket = "open"
      <4>1. PICK w \in Written : wire' = wire \o w
        BY <1>7, <2>3, <3>2 DEF Flush
      <4>2. socket' = "open" /\ (link' = "clear" => link = "clear")
        BY <1>7, <2>3, <3>2 DEF Flush
      <4>3. link = "clear" => (heard \o wire') \o <<>> = taken
        <5> SUFFICES ASSUME link = "clear" PROVE (heard \o wire') \o <<>> = taken
          OBVIOUS
        <5>1. wire' = wire \o mav_buf_send_
          BY <1>t, <4>1, WrittenPart
        <5>2. (heard \o wire) \o mav_buf_send_ = taken
          BY <3>2 DEF Kept
        <5>3. heard \o wire' = taken
          <6>1. heard \o (wire \o mav_buf_send_) = (heard \o wire) \o mav_buf_send_
            BY <1>s, Together
          <6> QED BY <5>1, <5>2, <6>1
        <5> QED BY <1>c, <1>t, <5>3
      <4> QED BY <1>t, <3>0, <4>2, <4>3 DEF Kept, Alive
    <3> QED BY <3>0, <3>1, <3>2
  <2> QED BY <2>1, <2>2, <2>3
<1>8. CASE Hear
  <2>1. /\ wire # <<>> /\ heard' = Append(heard, Head(wire)) /\ wire' = Tail(wire)
        /\ UNCHANGED <<at, socket, link, topic, mav_buf_send_, taken>>
    BY <1>8 DEF Hear, process
  <2>2. heard' \o wire' = heard \o wire
    BY <1>t, <2>1, MoveOne
  <2>3. ~(Alive /\ socket # "open") /\ at # "setup"
    BY <2>1 DEF Kept, Alive
  <2> QED BY <2>1, <2>2, <2>3 DEF Kept, Alive
<1>9. CASE Cut \/ Abandon
  <2>1. wire' = <<>> /\ UNCHANGED <<at, link, topic, mav_buf_send_, taken, heard>>
    BY <1>9 DEF Cut, Abandon, process, history
  <2>2. socket' # "open" /\ (~Alive => UNCHANGED socket) /\ at # "setup"
    BY <1>9 DEF Cut, Abandon, process, Kept, Alive
  <2>3. link = "clear" => \E rest \in Seq(Commands) : (heard \o <<>>) \o rest = taken
    <3> SUFFICES ASSUME link = "clear" PROVE \E rest \in Seq(Commands) : (heard \o <<>>) \o rest = taken
      OBVIOUS
    <3>1. PICK rest \in Seq(Commands) : (heard \o wire) \o rest = taken
      BY DEF Kept
    <3> QED BY <1>c, <1>e, <1>t, <3>1
  <2>4. link' = "clear" => \E rest \in Seq(Commands) : (heard' \o wire') \o rest = taken'
    BY <2>1, <2>3
  <2>5. ~Alive => socket = "none" /\ topic = <<>> /\ mav_buf_send_ = <<>>
    BY DEF Kept
  <2>6. (~Alive => socket = "none" /\ topic = <<>> /\ mav_buf_send_ = <<>>)'
    BY <2>1, <2>2, <2>5 DEF Alive
  <2>7. (Alive /\ socket # "open" => wire = <<>>)' /\ (at = "setup" => FALSE)'
    BY <2>1, <2>2
  <2> QED BY <2>2, <2>4, <2>6, <2>7 DEF Kept
<1>10. CASE Stall \/ StallEnds
  BY <1>10 DEF Stall, StallEnds, carried, history, Kept, Alive
<1>11. CASE Beat \/ Disarms \/ Reach
  BY <1>11 DEF Beat, Disarms, Reach, process, carried, history, Kept, Alive
<1>12. ASSUME NEW c \in Commands, Publish(c) PROVE Kept'
  BY <1>1, <1>12 DEF Publish, process
<1>13. CASE UNCHANGED bvars
  BY <1>13 DEF bvars, process, carried, history, Kept, Alive
<1> QED
  BY <1>2, <1>3, <1>4, <1>5, <1>6, <1>7, <1>8, <1>9, <1>10, <1>11, <1>12, <1>13 DEF Next, Crash

\* A process starts with nothing.
LEMMA KeptInit == Init => Kept
<1> SUFFICES ASSUME Init PROVE Kept
  OBVIOUS
<1>1. heard = <<>> /\ wire = <<>> /\ mav_buf_send_ = <<>> /\ taken = <<>>
  BY DEF Init
<1>2. (<<>> \o <<>>) \o <<>> = <<>> /\ <<>> \in Seq(Commands)
  BY EmptySeq, ConcatEmptySeq
<1> QED BY <1>1, <1>2 DEF Init, Kept, Alive

\* Types and Kept hold for ever.
LEMMA KeptAlways == Spec => [](TypeOK /\ Kept)
<1>1. Init => Kept
  BY KeptInit
<1>2. TypeOK /\ Kept /\ [Next]_bvars => Kept'
  BY KeptStep
<1> QED BY <1>1, <1>2, TypeCorrect, PTL DEF Spec

\* While the way to the controller is clear it has heard the beginning of what
\* the process took up: a lost command is the last one that gets through.
THEOREM NothingPassedOver == Spec => []NoGaps
<1>1. TypeOK /\ Kept => NoGaps
  <2> SUFFICES ASSUME TypeOK, Kept, link = "clear" PROVE IsPrefix(heard, taken)
    BY DEF NoGaps
  <2>1. heard \in Seq(Commands) /\ wire \in Seq(Commands) /\ taken \in Seq(Commands)
    BY DEF TypeOK
  <2>2. PICK rest \in Seq(Commands) : (heard \o wire) \o rest = taken
    BY DEF Kept
  <2>3. (heard \o wire) \o rest = heard \o (wire \o rest)
    BY <2>1, Together
  <2>4. wire \o rest \in Seq(Commands)
    BY <2>1, ConcatProperties
  <2>5. Len(taken) = Len(heard) + Len(wire \o rest) /\ Len(heard) \in Nat /\ Len(wire \o rest) \in Nat
    BY <2>1, <2>2, <2>3, <2>4, ConcatProperties, LenProperties
  <2>6. SubSeq(taken, 1, Len(heard)) = heard
    BY <2>1, <2>2, <2>3, <2>4, FirstPart
  <2>7. SubSeq(heard, 1, Len(heard)) = heard
    BY <2>1, SubSeqFull
  <2> QED BY <2>5, <2>6, <2>7 DEF IsPrefix
<1> QED BY <1>1, KeptAlways, PTL

-----------------------------------------------------------------------------
(* The bridge implements CommandChannel                                    *)

\* Line is what CommandChannel sees on its way.
Line == wire \o mav_buf_send_

\* Losing the messages between two parts of what is on its way.
LEMMA LoseMiddle ==
  ASSUME TypeOK, NEW a \in Seq(Commands), NEW b \in Seq(Commands), NEW c \in Seq(Commands),
         Line = a \o (b \o c), Line' = a \o c, UNCHANGED <<topic, heard>>
  PROVE  Channel!Lose
<1>1. /\ b \o c \in Seq(Commands) /\ Len(b \o c) = Len(b) + Len(c)
      /\ a \o b \in Seq(Commands) /\ Len(a \o b) = Len(a) + Len(b)
      /\ Len(a) \in Nat /\ Len(b) \in Nat /\ Len(c) \in Nat
  BY ConcatProperties, LenProperties
<1>2. (a \o b) \o c = a \o (b \o c)
  BY Together
<1>3. Len(Line) = Len(a) + (Len(b) + Len(c))
  BY <1>1, ConcatProperties
<1>4. SubSeq(Line, 1, Len(a)) = a
  BY <1>1, FirstPart
<1>5. SubSeq(Line, Len(a \o b) + 1, Len(Line)) = c
  BY <1>1, <1>2, LastPart
<1>6. Len(a) \in 0 .. Len(Line) /\ Len(a \o b) \in 0 .. Len(Line) /\ Len(a) <= Len(a \o b)
  BY <1>1, <1>3
<1>7. Line' = SubSeq(Line, 1, Len(a)) \o SubSeq(Line, Len(a \o b) + 1, Len(Line))
  BY <1>4, <1>5
<1>8. \E i, j \in 0 .. Len(Line) :
        i <= j /\ Line' = SubSeq(Line, 1, i) \o SubSeq(Line, j + 1, Len(Line))
  BY <1>6, <1>7
<1> QED BY <1>8 DEF Channel!Lose, Line

\* The end of a process is a break.
LEMMA DieBreaks == TypeOK /\ Die => Channel!Break
<1> SUFFICES ASSUME TypeOK, Die PROVE Channel!Break
  OBVIOUS
<1>1. wire \in Seq(Commands) /\ mav_buf_send_ \in Seq(Commands)
  BY DEF TypeOK
<1>2. /\ topic' = <<>> /\ heard' = heard
      /\ mav_buf_send_' = <<>> /\ wire' \in {wire, <<>>}
  BY DEF Die, history
<1>3. Line \in Seq(Commands) /\ Len(Line) = Len(wire) + Len(mav_buf_send_)
  BY <1>1, ConcatProperties DEF Line
<1>4. Len(wire) \in Nat /\ Len(mav_buf_send_) \in Nat
  BY <1>1, LenProperties
<1>5. \E i \in 0 .. Len(Line) : Line' = SubSeq(Line, 1, i)
  <2>1. CASE wire' = wire
    <3>1. Line' = wire
      BY <1>1, <1>2, <2>1, ConcatEmptySeq DEF Line
    <3>2. SubSeq(Line, 1, Len(wire)) = wire
      BY <1>1, FirstPart DEF Line
    <3>3. Len(wire) \in 0 .. Len(Line)
      BY <1>3, <1>4
    <3> QED BY <3>1, <3>2, <3>3
  <2>2. CASE wire' = <<>>
    <3>1. Line' = <<>>
      <4>1. <<>> \in Seq(Commands) /\ <<>> \o <<>> = <<>>
        BY EmptySeq, ConcatEmptySeq
      <4> QED BY <1>2, <2>2, <4>1 DEF Line
    <3>2. SubSeq(Line, 1, 0) = <<>>
      BY SubSeqEmpty
    <3>3. 0 \in 0 .. Len(Line)
      BY <1>3, <1>4
    <3> QED BY <3>1, <3>2, <3>3
  <2> QED BY <1>2, <2>1, <2>2
<1> QED BY <1>2, <1>5 DEF Channel!Break, Line

\* Putting a message in the subscription is publishing it, or nothing.
LEMMA DeliverPublishes ==
  ASSUME TypeOK, NEW c \in Topic, Deliver(c), UNCHANGED <<wire, mav_buf_send_, heard>>
  PROVE  Channel!Publish \/ Channel!Displace \/ UNCHANGED Channel!channelVars
<1>1. CASE Alive /\ Len(topic) < Depth
  BY <1>1 DEF Deliver, Enqueued, Channel!Publish
<1>2. CASE Alive /\ ~(Len(topic) < Depth)
  <2>1. topic # <<>>
    <3>1. Len(topic) \in Nat /\ Depth > 0
      BY DepthAssumption, LenProperties DEF TypeOK
    <3> QED BY <1>2, <3>1, EmptySeq, DepthAssumption
  <2> QED BY <1>2, <2>1 DEF Deliver, Enqueued, Channel!Displace
<1>3. CASE ~Alive
  BY <1>3 DEF Deliver, Channel!channelVars
<1> QED BY <1>1, <1>2, <1>3

\* Every step of the bridge, of the network and of the controller is a step of
\* the channel or changes nothing it shows.
LEMMA StepRelays == TypeOK /\ Kept /\ [Next]_bvars => [Channel!Next]_(Channel!channelVars)
<1> SUFFICES ASSUME TypeOK, Kept, [Next]_bvars
             PROVE  Channel!Next \/ UNCHANGED Channel!channelVars
  OBVIOUS
<1>t. /\ wire \in Seq(Commands) /\ mav_buf_send_ \in Seq(Commands)
      /\ topic \in Seq(Topic) /\ <<>> \in Seq(Commands)
  BY EmptySeq DEF TypeOK
<1>0. Notice \in Topic /\ Commands \subseteq Topic
  BY DEF Topic
<1>1. ASSUME NEW c \in Commands, Publish(c)
      PROVE  Channel!Next \/ UNCHANGED Channel!channelVars
  BY <1>0, <1>1, DeliverPublishes DEF Publish, Channel!Next
<1>2. CASE Restart
  <2>1. topic = <<>> /\ wire = <<>> /\ mav_buf_send_ = <<>> /\ heard' = <<>>
        /\ UNCHANGED <<topic, wire, mav_buf_send_>>
    BY <1>2 DEF Restart, Kept, carried
  <2>2. <<>> \o <<>> = <<>>
    BY <1>t, ConcatEmptySeq
  <2> QED BY <2>1, <2>2 DEF Channel!Renew, Channel!Next
<1>3. CASE Die
  BY <1>3, DieBreaks DEF Channel!Next
<1>4. ASSUME NEW other \in BOOLEAN, Spin(other)
      PROVE  Channel!Next \/ UNCHANGED Channel!channelVars
  <2>1. CASE topic = <<>>
    BY <1>4, <2>1 DEF Spin, Channel!channelVars
  <2>2. CASE topic # <<>>
    <3>1. Copies(Head(topic)) \in Seq(Commands)
      BY <1>t, <2>2, CopiesType, HeadTailProperties
    <3>2. (wire \o mav_buf_send_) \o Copies(Head(topic)) = wire \o (mav_buf_send_ \o Copies(Head(topic)))
      BY <1>t, <3>1, Together
    <3>3. /\ topic' = Tail(topic) /\ mav_buf_send_' = mav_buf_send_ \o Copies(Head(topic))
          /\ UNCHANGED <<wire, heard>>
      BY <1>4, <2>2 DEF Spin
    <3> QED BY <2>2, <3>2, <3>3 DEF Channel!Take, Channel!Next
  <2> QED BY <2>1, <2>2
<1>5. CASE Parse
  <2>1. CASE Deliver(Notice)
    BY <1>0, <1>5, <2>1, DeliverPublishes DEF Parse, Channel!Next
  <2>2. CASE UNCHANGED <<topic, given>>
    BY <1>5, <2>2 DEF Parse, Channel!channelVars
  <2> QED BY <1>5, <2>1, <2>2 DEF Parse
<1>6. CASE Flush
  <2>1. CASE mav_buf_send_ = <<>> /\ ~chatter
    BY <1>6, <2>1 DEF Flush, carried, history, Channel!channelVars
  <2>2. CASE BrokenPipe
    BY <1>3, <2>2 DEF BrokenPipe
  <2>3. CASE /\ ~(mav_buf_send_ = <<>> /\ ~chatter) /\ ~BrokenPipe
    <3>0. mav_buf_send_' = <<>> /\ UNCHANGED <<topic, heard>> /\ socket \in {"open", "closed"}
      BY <1>6, <2>3 DEF Flush, history
    <3>1. CASE socket = "closed"
      <4>1. wire' = wire
        BY <1>6, <2>3, <3>1 DEF Flush
      <4>2. mav_buf_send_ \o <<>> = mav_buf_send_
        BY <1>t, ConcatEmptySeq
      <4>3. Line = wire \o (mav_buf_send_ \o <<>>) /\ Line' = wire \o <<>>
        BY <3>0, <4>1, <4>2 DEF Line
      <4> QED BY <1>t, <3>0, <4>3, LoseMiddle DEF Channel!Next
    <3>2. CASE socket = "open"
      <4>1. PICK w \in Written : wire' = wire \o w
        BY <1>6, <2>3, <3>2 DEF Flush
      <4>2. w \in Seq(Commands)
        BY <1>t, WrittenPart
      <4>3. Line' = wire \o w
        <5>1. wire \o w \in Seq(Commands)
          BY <1>t, <4>2, ConcatProperties
        <5> QED BY <3>0, <4>1, <5>1, ConcatEmptySeq DEF Line
      <4>n. Len(mav_buf_send_) \in Nat
        BY <1>t, LenProperties
      <4>4. CASE \E i \in 0 .. Len(mav_buf_send_) : w = SubSeq(mav_buf_send_, 1, i)
        <5>1. PICK i \in 0 .. Len(mav_buf_send_) : w = SubSeq(mav_buf_send_, 1, i)
          BY <4>4
        <5> DEFINE gone == SubSeq(mav_buf_send_, i + 1, Len(mav_buf_send_))
        <5>2. w \o gone = mav_buf_send_
          BY <1>t, <5>1, BothParts
        <5>3. gone \in Seq(Commands)
          BY <1>t, <4>n
        <5> HIDE DEF gone
        <5>4. Line = (wire \o w) \o (gone \o <<>>) /\ Line' = (wire \o w) \o <<>>
          <6>1. gone \o <<>> = gone
            BY <5>3, ConcatEmptySeq
          <6>2. wire \o w \in Seq(Commands)
            BY <1>t, <4>2, ConcatProperties
          <6>3. (wire \o w) \o <<>> = wire \o w
            BY <6>2, ConcatEmptySeq
          <6>4. (wire \o w) \o gone = wire \o (w \o gone)
            BY <1>t, <4>2, <5>3, Together
          <6> QED BY <4>3, <5>2, <6>1, <6>3, <6>4 DEF Line
        <5>5. wire \o w \in Seq(Commands)
          BY <1>t, <4>2, ConcatProperties
        <5> QED BY <1>t, <3>0, <5>3, <5>4, <5>5, LoseMiddle DEF Channel!Next
      <4>5. CASE \E i \in 0 .. Len(mav_buf_send_) :
                   w = SubSeq(mav_buf_send_, i + 1, Len(mav_buf_send_))
        <5>1. PICK i \in 0 .. Len(mav_buf_send_) :
                w = SubSeq(mav_buf_send_, i + 1, Len(mav_buf_send_))
          BY <4>5
        <5> DEFINE gone == SubSeq(mav_buf_send_, 1, i)
        <5>2. gone \o w = mav_buf_send_
          BY <1>t, <5>1, BothParts
        <5>3. gone \in Seq(Commands)
          BY <1>t, <4>n
        <5> HIDE DEF gone
        <5>4. Line = wire \o (gone \o w)
          BY <5>2 DEF Line
        <5> QED BY <1>t, <3>0, <4>2, <4>3, <5>3, <5>4, LoseMiddle DEF Channel!Next
      <4> QED BY <1>t, <4>4, <4>5, WrittenPart
    <3> QED BY <3>0, <3>1, <3>2
  <2> QED BY <2>1, <2>2, <2>3
<1>7. CASE Hear
  <2>1. /\ wire # <<>> /\ heard' = Append(heard, Head(wire)) /\ wire' = Tail(wire)
        /\ UNCHANGED <<topic, mav_buf_send_>>
    BY <1>7 DEF Hear
  <2>2. /\ wire \o mav_buf_send_ # <<>>
        /\ Head(wire \o mav_buf_send_) = Head(wire)
        /\ Tail(wire \o mav_buf_send_) = Tail(wire) \o mav_buf_send_
    BY <1>t, <2>1, HeadTailOfConcat
  <2> QED BY <2>1, <2>2 DEF Channel!Hear, Channel!Next
<1>8. CASE Cut \/ Abandon
  <2>1. wire' = <<>> /\ UNCHANGED <<topic, mav_buf_send_, heard>>
    BY <1>8 DEF Cut, Abandon, history
  <2>2. wire \o mav_buf_send_ \in Seq(Commands)
    BY <1>t, ConcatProperties
  <2>3. Line = <<>> \o (wire \o mav_buf_send_) /\ Line' = <<>> \o mav_buf_send_
    BY <2>1, <2>2, ConcatEmptySeq DEF Line
  <2> QED BY <1>t, <2>1, <2>3, LoseMiddle DEF Channel!Next
<1>9. CASE Connect \/ Stall \/ StallEnds \/ Beat \/ Disarms \/ Reach
  BY <1>9 DEF Connect, Stall, StallEnds, Beat, Disarms, Reach,
              carried, history, Channel!channelVars
<1>10. CASE UNCHANGED bvars
  BY <1>10 DEF bvars, carried, history, Channel!channelVars
<1> QED
  BY <1>1, <1>2, <1>3, <1>4, <1>5, <1>6, <1>7, <1>8, <1>9, <1>10 DEF Next, Crash

\* Whatever crashes, stalls or is cut, the bridge is a channel that may lose
\* commands but neither repeats, reorders nor invents them.
THEOREM BridgeRelays == Spec => Relays
<1>1. Init => Channel!Init
  <2> SUFFICES ASSUME Init PROVE Channel!Init
    OBVIOUS
  <2>1. <<>> \in Seq(Commands) /\ <<>> \o <<>> = <<>>
    BY EmptySeq, ConcatEmptySeq
  <2> QED BY <2>1 DEF Init, Channel!Init
<1>2. TypeOK /\ Kept /\ [Next]_bvars => [Channel!Next]_(Channel!channelVars)
  BY StepRelays
<1> QED BY <1>1, <1>2, KeptAlways, PTL DEF Spec, Relays, Channel!Spec

=============================================================================
