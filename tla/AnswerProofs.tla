----------------------------- MODULE AnswerProofs -----------------------------
(***************************************************************************)
(* What the client of a translated answer is told, for answers of any      *)
(* length, in every pair of formats.                                       *)
(*                                                                         *)
(* That a stream ends in what became of the answer needs the shape of all  *)
(* that is kept on the way (Shaped), for what is written is a fold over    *)
(* events of whatever was said; the end itself is then the last frame      *)
(* (Closed), and what a client hears last is what it is told.              *)
(*                                                                         *)
(* That it is told the whole of the answer is argued step by step: what    *)
(* the upstream says (Telling) is numbered by its decoder as the upstream  *)
(* numbers it (Numbered), gathered by the Collector (Collected) and        *)
(* written in the client's format, where each kind of frame, read as the   *)
(* client reads it, adds to what has been heard exactly what was said      *)
(* (Tells; Relaying for what is under way).  Until the answer ends these   *)
(* hold together (Under); with its end what is left is written, from the   *)
(* stream or from the body that was collected, and the client has heard    *)
(* it all.  The invariant is both (Faithful).                              *)
(***************************************************************************)
EXTENDS AnswerTranslation, WellFoundedInduction, FiniteSetTheorems, TLAPS

(* A set of naturals that is not empty has a least element.                *)
LEMMA LeastNatural ==
  ASSUME NEW T, T \subseteq Nat, T # {}
  PROVE  \E m \in T : \A n \in T : m <= n
<1>1. IsWellFoundedOn(OpToRel(<, Nat), Nat)
  BY NatLessThanWellFounded
<1>2. PICK m \in T : \A n \in T : ~ (<<n, m>> \in OpToRel(<, Nat))
  BY <1>1, WFMin
<1>3. \A n \in T : ~ (n < m)
  BY <1>2 DEF OpToRel
<1> QED
  BY <1>3

(* ... so what holds of 0, and of a number when it does of the one before, *)
(* holds up to N.                                                          *)
LEMMA UpTo ==
  ASSUME NEW N \in Nat, NEW T, 0 \in T, \A n \in 1 .. N : n - 1 \in T => n \in T
  PROVE  0 .. N \subseteq T
<1> SUFFICES ASSUME (0 .. N) \ T # {}  PROVE FALSE
  OBVIOUS
<1>1. PICK m \in (0 .. N) \ T : \A n \in (0 .. N) \ T : m <= n
  <2>1. (0 .. N) \ T \subseteq Nat
    OBVIOUS
  <2> QED
    BY <2>1, LeastNatural
<1>2. m \in 1 .. N /\ m - 1 \in 0 .. N /\ ~ (m <= m - 1)
  BY <1>1
<1> QED
  BY <1>1, <1>2

-----------------------------------------------------------------------------
(* What the client of an answer is told: sequences and what is done with   *)
(* them.                                                                   *)

\* The sequences of whatever elements.
IsSeq(s) == s \in Seq({s[i] : i \in DOMAIN s})

Hearing == {"text", "thinking", "calls", "ending", "opened", "shut", "astray"}
Writing == {"frames", "items", "open", "openTool", "stop", "failed"}
FrameTypes == {"open", "piece", "whole", "shut", "end"}

\* All of a sequence of events collected, and all of a sequence of frames read.
CollectAll(items, events) == FoldLeft(Collect, items, events)

FramesOK(frames) == IsSeq(frames) /\ \A i \in DOMAIN frames : frames[i].type \in FrameTypes
WriterOK(w) == DOMAIN w = Writing /\ FramesOK(w.frames) /\ IsSeq(w.items)
ContentsOK(items) ==
  IsSeq(items) /\ \A i \in DOMAIN items : DOMAIN items[i] = {"kind", "tool", "name", "pieces"}
                                          /\ IsSeq(items[i].pieces)

LEMMA SeqShape ==
  /\ \A s : IsSeq(s) => DOMAIN s = 1 .. Len(s) /\ Len(s) \in Nat
  /\ \A n \in Nat : \A s : DOMAIN s = 1 .. n /\ s = [i \in 1 .. n |-> s[i]] => IsSeq(s) /\ Len(s) = n
<1>1. \A s : IsSeq(s) => DOMAIN s = 1 .. Len(s) /\ Len(s) \in Nat
  BY DEF IsSeq
<1>2. ASSUME NEW n \in Nat, NEW s, DOMAIN s = 1 .. n, s = [i \in 1 .. n |-> s[i]]
      PROVE  IsSeq(s) /\ Len(s) = n
  <2>1. s \in [1 .. n -> {s[i] : i \in DOMAIN s}]
    BY <1>2
  <2>2. s \in Seq({s[i] : i \in DOMAIN s})
    BY <2>1
  <2> QED
    BY <1>2, <2>2 DEF IsSeq
<1> QED
  BY <1>1, <1>2

(* Whatever set a sequence is over, it is one over its own elements.       *)
LEMMA SeqIsSeq ==
  ASSUME NEW S, NEW s \in Seq(S)
  PROVE  IsSeq(s)
<1>1. DOMAIN s = 1 .. Len(s) /\ Len(s) \in Nat
  OBVIOUS
<1>2. s \in [1 .. Len(s) -> {s[i] : i \in DOMAIN s}]
  BY <1>1
<1> QED
  BY <1>1, <1>2 DEF IsSeq

(* Appending keeps a sequence one, leaves what was there where it was and  *)
(* puts the new element last.                                              *)
LEMMA AppendShape ==
  ASSUME NEW s, IsSeq(s), NEW e
  PROVE  /\ IsSeq(Append(s, e))
         /\ Len(Append(s, e)) = Len(s) + 1
         /\ DOMAIN s = 1 .. Len(s) /\ Len(s) \in Nat
         /\ DOMAIN Append(s, e) = 1 .. (Len(s) + 1)
         /\ \A i \in DOMAIN s : Append(s, e)[i] = s[i]
         /\ Append(s, e)[Len(s) + 1] = e
<1> DEFINE S == {s[i] : i \in DOMAIN s} \cup {e}
<1>1. s \in Seq(S) /\ e \in S
  BY DEF IsSeq
<1>2. /\ Append(s, e) \in Seq(S) /\ Len(Append(s, e)) = Len(s) + 1
      /\ DOMAIN s = 1 .. Len(s) /\ Len(s) \in Nat
      /\ DOMAIN Append(s, e) = 1 .. (Len(s) + 1)
      /\ \A i \in DOMAIN s : Append(s, e)[i] = s[i]
      /\ Append(s, e)[Len(s) + 1] = e
  BY <1>1
<1>3. IsSeq(Append(s, e))
  BY <1>2, SeqIsSeq
<1> QED
  BY <1>2, <1>3

(* One sequence behind another.                                            *)
LEMMA ConcatShape ==
  ASSUME NEW s, IsSeq(s), NEW t, IsSeq(t)
  PROVE  /\ IsSeq(s \o t)
         /\ Len(s \o t) = Len(s) + Len(t) /\ Len(s) \in Nat
         /\ DOMAIN (s \o t) = 1 .. Len(s \o t) /\ Len(s \o t) \in Nat
         /\ \A i \in DOMAIN (s \o t) :
              ((i \in DOMAIN s /\ (s \o t)[i] = s[i])
                 \/ (i - Len(s) \in DOMAIN t /\ (s \o t)[i] = t[i - Len(s)]))
<1> DEFINE S == {s[i] : i \in DOMAIN s} \cup {t[i] : i \in DOMAIN t}
<1>1. s \in Seq(S) /\ t \in Seq(S)
  BY DEF IsSeq
<1>2. /\ s \o t \in Seq(S) /\ Len(s \o t) = Len(s) + Len(t) /\ Len(s) \in Nat
      /\ DOMAIN (s \o t) = 1 .. Len(s \o t) /\ Len(s \o t) \in Nat
      /\ \A i \in DOMAIN (s \o t) :
           ((i \in DOMAIN s /\ (s \o t)[i] = s[i])
              \/ (i - Len(s) \in DOMAIN t /\ (s \o t)[i] = t[i - Len(s)]))
  BY <1>1
<1> QED
  BY <1>2, SeqIsSeq

LEMMA ShortShape ==
  /\ IsSeq(<<>>) /\ Len(<<>>) = 0 /\ DOMAIN <<>> = {}
  /\ \A e : IsSeq(<<e>>) /\ Len(<<e>>) = 1 /\ <<e>>[1] = e /\ DOMAIN <<e>> = 1 .. 1
<1>1. \A e : <<e>> \in Seq({e})
  OBVIOUS
<1>2. <<>> \in Seq({})
  OBVIOUS
<1>3. Len(<<>>) = 0 /\ DOMAIN <<>> = {}
  OBVIOUS
<1>4. \A e : Len(<<e>>) = 1 /\ <<e>>[1] = e /\ DOMAIN <<e>> = 1 .. 1
  OBVIOUS
<1>5. IsSeq(<<>>) /\ \A e : IsSeq(<<e>>)
  BY <1>1, <1>2, SeqIsSeq
<1> QED
  BY <1>3, <1>4, <1>5

(* Sequences in a sequence are put behind one another, one after the other. *)
LEMMA FlattenSteps ==
  ASSUME NEW ss, IsSeq(ss), Len(ss) # 0
  PROVE  \E f : /\ FlattenSeq(ss) = f[Len(ss)]
               /\ \A i \in 1 .. Len(ss) : f[i] = IF i = 1 THEN ss[i] ELSE f[i - 1] \o ss[i]
<1>0. DOMAIN ss = 1 .. Len(ss) /\ Len(ss) \in Nat
  BY SeqShape
<1> DEFINE n == Len(ss)
           Flat(f, i) == IF i = 1 THEN ss[i] ELSE f[i - 1] \o ss[i]
           Flattened(f, k) == f = [i \in 1 .. k |-> Flat(f, i)]
           T == {k \in 0 .. n : \E f : Flattened(f, k)}
<1>1. n \in T
  <2>1. 0 \in T
    <3> DEFINE f == [i \in 1 .. 0 |-> 0]
    <3>1. Flattened(f, 0)
      OBVIOUS
    <3> HIDE DEF Flattened, f
    <3> QED
      BY <1>0, <3>1
  <2>2. ASSUME NEW k \in 1 .. n, k - 1 \in T PROVE k \in T
    <3>1. PICK f : Flattened(f, k - 1)
      <4> HIDE DEF Flattened
      <4> QED
        BY <2>2
    <3> DEFINE longer == [i \in 1 .. k |-> IF i = k THEN Flat(f, k) ELSE f[i]]
    <3>2. ASSUME NEW i \in 1 .. k PROVE longer[i] = Flat(longer, i)
      <4>1. CASE i = k
        BY <1>0, <4>1
      <4>2. CASE i # k
        <5>1. i \in 1 .. k - 1
          BY <1>0, <4>2
        <5>2. f[i] = Flat(f, i)
          <6> HIDE DEF Flat
          <6> QED
            BY <3>1, <5>1
        <5> QED
          BY <1>0, <4>2, <5>1, <5>2
      <4> QED
        BY <4>1, <4>2
    <3>3. Flattened(longer, k)
      <4> HIDE DEF Flat
      <4> QED
        BY <3>2
    <3> HIDE DEF Flattened
    <3> QED
      BY <1>0, <3>3
  <2>3. 0 .. n \subseteq T
    <3> HIDE DEF T
    <3> QED
      BY <1>0, <2>1, <2>2, UpTo
  <2> HIDE DEF T
  <2> QED
    BY <1>0, <2>3
<1> DEFINE flat == CHOOSE f : Flattened(f, n)
<1>2. Flattened(flat, n)
  <2> HIDE DEF Flattened
  <2> QED
    BY <1>1
<1>3. FlattenSeq(ss) = flat[n]
  BY DEF FlattenSeq
<1> HIDE DEF flat
<1>4. \A i \in 1 .. n : flat[i] = Flat(flat, i)
  BY <1>2
<1> QED
  <2> WITNESS flat
  <2> QED
    BY <1>3, <1>4

(* Sequences in a sequence make one sequence of what they hold.            *)
LEMMA FlattenShape ==
  ASSUME NEW ss, IsSeq(ss), \A i \in DOMAIN ss : IsSeq(ss[i])
  PROVE  /\ IsSeq(FlattenSeq(ss))
         /\ \A p \in DOMAIN FlattenSeq(ss) : \E i \in DOMAIN ss : \E q \in DOMAIN ss[i] :
              FlattenSeq(ss)[p] = ss[i][q]
<1> DEFINE MadeOfThem(s) ==
             /\ IsSeq(s)
             /\ \A p \in DOMAIN s : \E i \in DOMAIN ss : \E q \in DOMAIN ss[i] : s[p] = ss[i][q]
<1>0. DOMAIN ss = 1 .. Len(ss) /\ Len(ss) \in Nat
  BY SeqShape
<1>1. CASE Len(ss) = 0
  BY <1>1 DEF FlattenSeq
<1>2. CASE Len(ss) # 0
  <2> DEFINE n == Len(ss)
  <2>1. PICK flat : /\ FlattenSeq(ss) = flat[n]
                    /\ \A i \in 1 .. n : flat[i] = IF i = 1 THEN ss[i] ELSE flat[i - 1] \o ss[i]
    BY <1>2, FlattenSteps
  <2> DEFINE Fine == {k \in 0 .. n : k = 0 \/ MadeOfThem(flat[k])}
  <2>5. 0 .. n \subseteq Fine
    <3>1. 0 \in Fine
      BY <1>0
    <3>2. ASSUME NEW k \in 1 .. n, k - 1 \in Fine PROVE k \in Fine
      <4>1. CASE k = 1
        <5>1. flat[1] = ss[1] /\ 1 \in DOMAIN ss
          BY <1>0, <2>1, <4>1
        <5>2. MadeOfThem(ss[1])
          BY <5>1
        <5> HIDE DEF MadeOfThem
        <5> QED
          BY <1>0, <4>1, <5>1, <5>2
      <4>2. CASE k # 1
        <5>1. MadeOfThem(flat[k - 1]) /\ IsSeq(ss[k]) /\ flat[k] = flat[k - 1] \o ss[k] /\ k \in DOMAIN ss
          <6>1. k - 1 \in 1 .. n /\ k \in DOMAIN ss
            BY <1>0, <4>2
          <6>2. MadeOfThem(flat[k - 1])
            <7> HIDE DEF MadeOfThem
            <7> QED
              BY <3>2, <6>1
          <6>3. flat[k] = flat[k - 1] \o ss[k]
            BY <2>1, <4>2
          <6> HIDE DEF MadeOfThem
          <6> QED
            BY <6>1, <6>2, <6>3
        <5> DEFINE s == flat[k - 1]
                   t == ss[k]
        <5>2. MadeOfThem(s) /\ IsSeq(t) /\ flat[k] = s \o t
          BY <5>1
        <5> HIDE DEF s, t
        <5>3. IsSeq(s \o t)
          BY <5>2, ConcatShape
        <5>4. \A p \in DOMAIN (s \o t) :
                ((p \in DOMAIN s /\ (s \o t)[p] = s[p])
                   \/ (p - Len(s) \in DOMAIN t /\ (s \o t)[p] = t[p - Len(s)]))
          BY <5>2, ConcatShape
        <5>5. ASSUME NEW p \in DOMAIN (s \o t)
              PROVE  \E i \in DOMAIN ss : \E q \in DOMAIN ss[i] : (s \o t)[p] = ss[i][q]
          BY <5>1, <5>2, <5>4 DEF t
        <5>6. MadeOfThem(flat[k])
          BY <5>2, <5>3, <5>5
        <5> HIDE DEF MadeOfThem
        <5> QED
          BY <1>0, <5>6
      <4> QED
        BY <4>1, <4>2
    <3> HIDE DEF Fine
    <3> QED
      BY <1>0, <3>1, <3>2, UpTo
  <2>6. MadeOfThem(flat[n])
    <3> HIDE DEF MadeOfThem
    <3> QED
      BY <1>0, <1>2, <2>5
  <2> QED
    BY <2>1, <2>6
<1> QED
  BY <1>1, <1>2

LEMMA MaxOfFirst ==
  ASSUME NEW k \in Nat \ {0}, NEW s \in SUBSET (1 .. k), k \in s
  PROVE  Max(s) = k
<1>1. \A x \in s : k >= x
  OBVIOUS
<1>2. \A x \in s : (\A y \in s : x >= y) => x = k
  BY <1>1
<1> QED
  BY <1>1, <1>2 DEF Max

(* The first k numbers, and the greatest of them.                          *)
LEMMA UpToGreatest ==
  ASSUME NEW n \in Nat, NEW k \in 1 .. n
  PROVE  Max(1 .. k) = k /\ (1 .. k) \ {k} = 1 .. k - 1 /\ 1 .. k \in SUBSET (1 .. n) /\ 1 .. k # {}
<1>1. k \in Nat \ {0} /\ 1 .. k \in SUBSET (1 .. k) /\ k \in 1 .. k
  OBVIOUS
<1>2. Max(1 .. k) = k
  BY <1>1, MaxOfFirst
<1>3. (1 .. k) \ {k} = 1 .. k - 1 /\ 1 .. k \in SUBSET (1 .. n) /\ 1 .. k # {}
  OBVIOUS
<1> QED
  BY <1>2, <1>3

(* What the client makes of a frame.                                       *)
LEMMA ReadKeepsShape ==
  ASSUME NEW format, NEW h, DOMAIN h = Hearing, NEW f, f.type \in FrameTypes
  PROVE  DOMAIN Read(format, h, f) = Hearing
BY DEF Read, ReadOpen, ReadPiece, ReadWhole, FrameTypes

(* What a writer sends are frames, whichever format it writes.             *)
LEMMA SendKeepsShape ==
  ASSUME NEW w, WriterOK(w), NEW f, f.type \in FrameTypes
  PROVE  WriterOK(Send(w, f)) /\ Send(w, f).items = w.items
<1>1. /\ IsSeq(Append(w.frames, f))
      /\ \A i \in DOMAIN Append(w.frames, f) : Append(w.frames, f)[i].type \in FrameTypes
  <2>1. IsSeq(w.frames) /\ \A i \in DOMAIN w.frames : w.frames[i].type \in FrameTypes
    BY DEF WriterOK, FramesOK
  <2> QED
    BY <2>1, AppendShape
<1> QED
  BY <1>1 DEF Send, WriterOK, FramesOK, Writing

LEMMA ItemKeepsShape ==
  ASSUME NEW w, WriterOK(w), NEW item
  PROVE  WriterOK([w EXCEPT !.items = Append(@, item)])
<1>1. IsSeq(Append(w.items, item))
  BY AppendShape DEF WriterOK
<1> QED
  BY <1>1 DEF WriterOK, Writing

LEMMA StopBlockKeepsShape ==
  ASSUME NEW w, WriterOK(w)
  PROVE  WriterOK(StopBlock(w))
<1> DEFINE f == Frame("shut", Len(w.items), w.open, Unnamed, NoPiece)
<1>1. WriterOK(Send(w, f))
  <2>1. f.type \in FrameTypes
    BY DEF Frame, FrameTypes
  <2> QED
    BY <2>1, SendKeepsShape
<1> HIDE DEF f
<1>2. WriterOK([Send(w, f) EXCEPT !.open = "none"])
  BY <1>1 DEF WriterOK, Writing
<1> QED
  BY <1>2 DEF StopBlock, f

LEMMA AnthropicKeepsShape ==
  ASSUME NEW w, WriterOK(w), NEW e
  PROVE  WriterOK(AnthropicWrite(w, e))
<1>1. WriterOK(StartBlock(w, e.kind, e.tool, e.name))
  <2> DEFINE stopped == StopBlock(w)
             f == Frame("open", Len(stopped.items) + 1, e.kind, e.name, NoPiece)
             sent == Send(stopped, f)
  <2>1. f.type \in FrameTypes
    BY DEF Frame, FrameTypes
  <2>2. WriterOK(sent)
    BY <2>1, StopBlockKeepsShape, SendKeepsShape
  <2>3. IsSeq(Append(sent.items, e.kind))
    BY <2>2, AppendShape DEF WriterOK
  <2> HIDE DEF sent
  <2>4. WriterOK([sent EXCEPT !.open = e.kind, !.openTool = e.tool, !.items = Append(@, e.kind)])
    BY <2>2, <2>3 DEF WriterOK, Writing
  <2> QED
    BY <2>4 DEF StartBlock, sent
<1>2. \A w2, at : WriterOK(w2) => WriterOK(Send(w2, Frame("piece", at, e.kind, Unnamed, e.piece)))
  BY SendKeepsShape DEF Frame, FrameTypes
<1> QED
  BY <1>1, <1>2 DEF AnthropicWrite

LEMMA ResponsesKeepsShape ==
  ASSUME NEW w, WriterOK(w), NEW e
  PROVE  WriterOK(ResponsesWrite(w, e))
<1>1. \A w2, at, name, piece, kind :
        WriterOK(w2) => WriterOK(Send(w2, Frame("piece", at, kind, name, piece)))
  BY SendKeepsShape DEF Frame, FrameTypes
<1> DEFINE started == StartItem(w, e)
           at == ItemOf(started, e)
           kept == [started EXCEPT !.items[at].pieces = WithPiece(@, e.piece)]
<1>2. WriterOK(started)
  <2> DEFINE f == Frame("open", Len(w.items) + 1, e.kind, e.name, NoPiece)
             item == Content(e.kind, e.tool, e.name, <<>>)
  <2>1. f.type \in FrameTypes
    BY DEF Frame, FrameTypes
  <2>2. WriterOK([Send(w, f) EXCEPT !.items = Append(@, item)])
    BY <2>1, SendKeepsShape, ItemKeepsShape
  <2> QED
    BY <2>2 DEF StartItem
<1> HIDE DEF started, at
<1>3. WriterOK(kept)
  <2> DEFINE items == [started.items EXCEPT ![at].pieces = WithPiece(@, e.piece)]
  <2>1. DOMAIN items = 1 .. Len(started.items) /\ Len(started.items) \in Nat
    BY <1>2, SeqShape DEF WriterOK
  <2>2. IsSeq(items)
    <3>1. items = [i \in 1 .. Len(started.items) |-> items[i]]
      BY <2>1
    <3> HIDE DEF items
    <3> QED
      BY <2>1, <3>1, SeqShape
  <2>3. kept = [started EXCEPT !.items = items]
    BY <1>2 DEF WriterOK, Writing
  <2> HIDE DEF items, kept
  <2> QED
    BY <1>2, <2>2, <2>3 DEF WriterOK, Writing
<1> HIDE DEF kept
<1> QED
  BY <1>1, <1>3 DEF ResponsesWrite, kept, started, at

(* An answer with one item more, or one of its items changed, is still one. *)
LEMMA WithPieceShape ==
  ASSUME NEW pieces, IsSeq(pieces), NEW piece
  PROVE  IsSeq(Append(pieces, piece)) /\ IsSeq(WithPiece(pieces, piece))
BY AppendShape DEF WithPiece

LEMMA AppendContent ==
  ASSUME NEW items, ContentsOK(items), NEW kind, NEW tool, NEW name, NEW pieces, IsSeq(pieces)
  PROVE  ContentsOK(Append(items, Content(kind, tool, name, pieces)))
<1> USE DEF ContentsOK
<1> DEFINE c == Content(kind, tool, name, pieces)
<1>1. DOMAIN c = {"kind", "tool", "name", "pieces"} /\ c.pieces = pieces
  BY DEF Content
<1> HIDE DEF c
<1>2. IsSeq(items) /\ \A i \in DOMAIN items : DOMAIN items[i] = {"kind", "tool", "name", "pieces"}
                                              /\ IsSeq(items[i].pieces)
  OBVIOUS
<1>3. \A i \in DOMAIN Append(items, c) : i \in DOMAIN items \/ i = Len(items) + 1
  BY <1>2, AppendShape
<1>4. /\ IsSeq(Append(items, c)) /\ Append(items, c)[Len(items) + 1] = c
      /\ \A i \in DOMAIN items : Append(items, c)[i] = items[i]
  BY <1>2, AppendShape
<1>5. \A i \in DOMAIN Append(items, c) : DOMAIN Append(items, c)[i] = {"kind", "tool", "name", "pieces"}
                                        /\ IsSeq(Append(items, c)[i].pieces)
  BY <1>1, <1>2, <1>3, <1>4
<1> QED
  BY <1>4, <1>5 DEF c

LEMMA ChangeContent ==
  ASSUME NEW items, ContentsOK(items), NEW at, NEW piece, NEW name
  PROVE  /\ ContentsOK([items EXCEPT ![at].pieces = Append(@, piece)])
         /\ ContentsOK([items EXCEPT ![at].pieces = WithPiece(@, piece), ![at].name = name])
<1> USE DEF ContentsOK
<1>0. DOMAIN items = 1 .. Len(items) /\ Len(items) \in Nat
  BY SeqShape
<1> DEFINE one == [items EXCEPT ![at].pieces = Append(@, piece)]
           two == [items EXCEPT ![at].pieces = WithPiece(@, piece), ![at].name = name]
<1>1. DOMAIN one = 1 .. Len(items) /\ DOMAIN two = 1 .. Len(items)
  BY <1>0
<1>2. one = [i \in 1 .. Len(items) |-> one[i]] /\ two = [i \in 1 .. Len(items) |-> two[i]]
  BY <1>1
<1>3. IsSeq(one) /\ IsSeq(two)
  <2> HIDE DEF one, two
  <2> QED
    BY <1>0, <1>1, <1>2, SeqShape
<1>4. ASSUME NEW i \in 1 .. Len(items)
      PROVE  /\ DOMAIN one[i] = {"kind", "tool", "name", "pieces"} /\ IsSeq(one[i].pieces)
             /\ DOMAIN two[i] = {"kind", "tool", "name", "pieces"} /\ IsSeq(two[i].pieces)
  BY <1>0, WithPieceShape
<1> HIDE DEF one, two
<1>5. ContentsOK(one) /\ ContentsOK(two)
  BY <1>1, <1>3, <1>4
<1> QED
  BY <1>5 DEF one, two

(* A call's piece goes to the call, or begins it.                          *)
LEMMA CollectKeepsShape ==
  ASSUME NEW items, ContentsOK(items), NEW e
  PROVE  ContentsOK(Collect(items, e))
<1>1. IsSeq(<<e.piece>>) /\ IsSeq(WithPiece(<<>>, e.piece))
  BY ShortShape, WithPieceShape
<1>2. ContentsOK(CollectText(items, e))
  BY <1>1, AppendContent, ChangeContent DEF CollectText
<1>3. ContentsOK(CollectTool(items, e))
  <2> DEFINE at == CallAt(items, e.tool)
             name == IF e.name = Unnamed THEN items[at].name ELSE items[at].name + e.name
  <2>1. ContentsOK([items EXCEPT ![at].pieces = WithPiece(@, e.piece), ![at].name = name])
    <3> HIDE DEF at, name
    <3> QED
      BY ChangeContent
  <2>2. at # 0 => CollectTool(items, e) =
          [items EXCEPT ![at].pieces = WithPiece(@, e.piece), ![at].name = name]
    <3> HIDE DEF at
    <3> QED
      BY DEF CollectTool, at
  <2>3. at = 0 => CollectTool(items, e) =
          Append(items, Content("tool", e.tool, e.name, WithPiece(<<>>, e.piece)))
    BY DEF CollectTool
  <2> HIDE DEF at, name
  <2> QED
    BY <1>1, <2>1, <2>2, <2>3, AppendContent
<1> QED
  BY <1>2, <1>3 DEF Collect

(* Whichever format is written, a writer stays one.                        *)
LEMMA WriteKeepsShape ==
  ASSUME NEW format \in Formats, NEW w, WriterOK(w), NEW e
  PROVE  WriterOK(WriteEvent(format, w, e))
<1>1. WriterOK(ChatWrite(w, e))
  BY SendKeepsShape DEF ChatWrite, Frame, FrameTypes
<1>2. WriterOK(GeminiWrite(w, e))
  <2>1. WriterOK(Send(w, Frame("piece", 0, e.kind, Unnamed, e.piece)))
    BY SendKeepsShape DEF Frame, FrameTypes
  <2>2. WriterOK([w EXCEPT !.items = CollectTool(@, e)])
    <3>1. IsSeq(CollectTool(w.items, e))
      <4>0. DOMAIN w.items = 1 .. Len(w.items) /\ Len(w.items) \in Nat /\ IsSeq(w.items)
        BY SeqShape DEF WriterOK
      <4>1. CASE CallAt(w.items, e.tool) = 0
        BY <4>0, <4>1, AppendShape DEF CollectTool
      <4>2. CASE CallAt(w.items, e.tool) # 0
        <5> DEFINE changed == CollectTool(w.items, e)
        <5>1. DOMAIN changed = 1 .. Len(w.items) /\ changed = [i \in 1 .. Len(w.items) |-> changed[i]]
          BY <4>0, <4>2 DEF CollectTool
        <5> HIDE DEF changed
        <5>2. IsSeq(changed)
          BY <4>0, <5>1, SeqShape
        <5> QED
          BY <5>2 DEF changed
      <4> QED
        BY <4>1, <4>2
    <3> QED
      BY <3>1 DEF WriterOK, Writing
  <2> QED
    BY <2>1, <2>2 DEF GeminiWrite
<1> QED
  BY <1>1, <1>2, AnthropicKeepsShape, ResponsesKeepsShape DEF WriteEvent, Formats, Upstreams

(* What is written of a sequence of events is written one after the other.  *)
WrittenInSteps(format, w, events, n) ==
  \E g : /\ g[0] = w /\ WriteAll(format, w, events) = g[n]
        /\ \A k \in 1 .. n : g[k] = WriteEvent(format, g[k - 1], events[k])

LEMMA WrittenSteps ==
  ASSUME NEW format, NEW w, NEW n \in Nat, NEW events, DOMAIN events = 1 .. n
  PROVE  WrittenInSteps(format, w, events, n)
<1> DEFINE Folding(f, s) == IF s = {} THEN w ELSE WriteEvent(format, f[s \ {Max(s)}], events[Max(s)])
           Folded(f, k) == f = [s \in SUBSET (1 .. k) |-> Folding(f, s)]
           T == {k \in 0 .. n : \E f : Folded(f, k)}
<1>1. n \in T
  <2>1. 0 \in T
    <3> DEFINE f == [s \in SUBSET (1 .. 0) |-> w]
    <3>1. \A s \in SUBSET (1 .. 0) : s = {}
      OBVIOUS
    <3>2. Folded(f, 0)
      BY <3>1
    <3> HIDE DEF Folded, f
    <3> QED
      BY <3>2
  <2>2. ASSUME NEW k \in 1 .. n, k - 1 \in T PROVE k \in T
    <3>1. PICK f : Folded(f, k - 1)
      <4> HIDE DEF Folded
      <4> QED
        BY <2>2
    <3> DEFINE longer == [s \in SUBSET (1 .. k) |->
                            IF k \in s THEN WriteEvent(format, f[s \ {k}], events[k]) ELSE f[s]]
    <3>2. ASSUME NEW s \in SUBSET (1 .. k) PROVE longer[s] = Folding(longer, s)
      <4>1. CASE k \in s
        <5>1. Max(s) = k
          BY <4>1, MaxOfFirst
        <5>2. s \ {k} \in SUBSET (1 .. k) /\ k \notin s \ {k}
          OBVIOUS
        <5>3. longer[s \ {k}] = f[s \ {k}]
          BY <5>2
        <5> QED
          BY <4>1, <5>1, <5>3
      <4>2. CASE k \notin s
        <5>1. s \in SUBSET (1 .. (k - 1))
          BY <4>2
        <5>2. longer[s] = f[s] /\ f[s] = Folding(f, s)
          BY <3>1, <4>2, <5>1
        <5>3. longer[s \ {Max(s)}] = f[s \ {Max(s)}]
          <6>1. s \ {Max(s)} \in SUBSET (1 .. k) /\ k \notin s \ {Max(s)}
            BY <4>2
          <6> QED
            BY <6>1
        <5> HIDE DEF longer
        <5> QED
          BY <5>2, <5>3
      <4> QED
        BY <4>1, <4>2
    <3>3. Folded(longer, k)
      <4> HIDE DEF Folding
      <4> QED
        BY <3>2
    <3> HIDE DEF Folded
    <3> QED
      BY <3>3
  <2> HIDE DEF T
  <2>3. 0 .. n \subseteq T
    BY <2>1, <2>2, UpTo
  <2> QED
    BY <2>3
<1> DEFINE fold == CHOOSE f : Folded(f, n)
<1>2. Folded(fold, n)
  <2> HIDE DEF Folded
  <2> QED
    BY <1>1
<1>3. WriteAll(format, w, events) = fold[1 .. n]
  BY DEF WriteAll, FoldLeft, MapThenFoldSet
<1> HIDE DEF fold
<1>4. \A s \in SUBSET (1 .. n) : fold[s] = Folding(fold, s)
  BY <1>2
<1>5. \A k \in 1 .. n : fold[1 .. k] = WriteEvent(format, fold[1 .. k - 1], events[k])
  <2> TAKE k \in 1 .. n
  <2>1. Max(1 .. k) = k /\ (1 .. k) \ {k} = 1 .. k - 1 /\ 1 .. k \in SUBSET (1 .. n) /\ 1 .. k # {}
    BY UpToGreatest
  <2>2. fold[1 .. k] = Folding(fold, 1 .. k)
    <3> HIDE DEF Folding
    <3> QED
      BY <1>4, <2>1
  <2> QED
    BY <2>1, <2>2
<1>6. fold[1 .. 0] = w
  <2>1. {} \in SUBSET (1 .. n) /\ 1 .. 0 = {}
    OBVIOUS
  <2> QED
    BY <1>4, <2>1
<1> DEFINE g == [k \in 0 .. n |-> fold[1 .. k]]
<1>7. \A k \in 0 .. n : g[k] = fold[1 .. k]
  OBVIOUS
<1> HIDE DEF g
<1>8. /\ g[0] = w /\ WriteAll(format, w, events) = g[n]
      /\ \A k \in 1 .. n : g[k] = WriteEvent(format, g[k - 1], events[k])
  <2>1. 0 \in 0 .. n /\ n \in 0 .. n /\ \A k \in 1 .. n : k \in 0 .. n /\ k - 1 \in 0 .. n
    OBVIOUS
  <2>2. \A k \in 1 .. n : g[k] = fold[1 .. k] /\ g[k - 1] = fold[1 .. k - 1]
    BY <1>7, <2>1
  <2>3. g[0] = fold[1 .. 0] /\ g[n] = fold[1 .. n]
    BY <1>7, <2>1
  <2> HIDE DEF Folding
  <2> QED
    BY <1>3, <1>5, <1>6, <2>2, <2>3
<1> QED
  BY <1>8 DEF WrittenInSteps

(* All of a sequence of events is written, one after the other.            *)
LEMMA WriteAllKeepsShape ==
  ASSUME NEW format \in Formats, NEW w, WriterOK(w), NEW n \in Nat, NEW events, DOMAIN events = 1 .. n
  PROVE  /\ WriterOK(WriteAll(format, w, events))
         /\ n > 0 => \E before : WriterOK(before) /\ WriteAll(format, w, events) = WriteEvent(format, before, events[n])
<1>1. PICK g : /\ g[0] = w /\ WriteAll(format, w, events) = g[n]
               /\ \A k \in 1 .. n : g[k] = WriteEvent(format, g[k - 1], events[k])
  <2>1. WrittenInSteps(format, w, events, n)
    BY WrittenSteps
  <2> QED
    BY <2>1 DEF WrittenInSteps
<1> DEFINE Fine == {k \in 0 .. n : WriterOK(g[k])}
<1>2. 0 .. n \subseteq Fine
  <2>1. 0 \in Fine
    BY <1>1
  <2>2. ASSUME NEW k \in 1 .. n, k - 1 \in Fine PROVE k \in Fine
    <3>1. WriterOK(g[k - 1]) /\ g[k] = WriteEvent(format, g[k - 1], events[k])
      BY <1>1, <2>2
    <3> HIDE DEF Fine
    <3>2. WriterOK(g[k])
      BY <3>1, WriteKeepsShape
    <3> QED
      BY <3>2 DEF Fine
  <2> HIDE DEF Fine
  <2> QED
    BY <2>1, <2>2, UpTo
<1>3. \A k \in 0 .. n : WriterOK(g[k])
  BY <1>2
<1>4. n \in 0 .. n /\ (n > 0 => n - 1 \in 0 .. n /\ n \in 1 .. n)
  OBVIOUS
<1> QED
  BY <1>1, <1>3, <1>4

(* ... so is what is collected of them, *)
CollectedInSteps(items, events, n) ==
  \E g : /\ g[0] = items /\ CollectAll(items, events) = g[n]
        /\ \A k \in 1 .. n : g[k] = Collect(g[k - 1], events[k])

LEMMA CollectedSteps ==
  ASSUME NEW items, NEW n \in Nat, NEW events, DOMAIN events = 1 .. n
  PROVE  CollectedInSteps(items, events, n)
<1> DEFINE Folding(f, s) == IF s = {} THEN items ELSE Collect(f[s \ {Max(s)}], events[Max(s)])
           Folded(f, k) == f = [s \in SUBSET (1 .. k) |-> Folding(f, s)]
           T == {k \in 0 .. n : \E f : Folded(f, k)}
<1>1. n \in T
  <2>1. 0 \in T
    <3> DEFINE f == [s \in SUBSET (1 .. 0) |-> items]
    <3>1. \A s \in SUBSET (1 .. 0) : s = {}
      OBVIOUS
    <3>2. Folded(f, 0)
      BY <3>1
    <3> HIDE DEF Folded, f
    <3> QED
      BY <3>2
  <2>2. ASSUME NEW k \in 1 .. n, k - 1 \in T PROVE k \in T
    <3>1. PICK f : Folded(f, k - 1)
      <4> HIDE DEF Folded
      <4> QED
        BY <2>2
    <3> DEFINE longer == [s \in SUBSET (1 .. k) |->
                            IF k \in s THEN Collect(f[s \ {k}], events[k]) ELSE f[s]]
    <3>2. ASSUME NEW s \in SUBSET (1 .. k) PROVE longer[s] = Folding(longer, s)
      <4>1. CASE k \in s
        <5>1. Max(s) = k
          BY <4>1, MaxOfFirst
        <5>2. s \ {k} \in SUBSET (1 .. k) /\ k \notin s \ {k}
          OBVIOUS
        <5>3. longer[s \ {k}] = f[s \ {k}]
          BY <5>2
        <5> QED
          BY <4>1, <5>1, <5>3
      <4>2. CASE k \notin s
        <5>1. s \in SUBSET (1 .. (k - 1))
          BY <4>2
        <5>2. longer[s] = f[s] /\ f[s] = Folding(f, s)
          BY <3>1, <4>2, <5>1
        <5>3. longer[s \ {Max(s)}] = f[s \ {Max(s)}]
          <6>1. s \ {Max(s)} \in SUBSET (1 .. k) /\ k \notin s \ {Max(s)}
            BY <4>2
          <6> QED
            BY <6>1
        <5> HIDE DEF longer
        <5> QED
          BY <5>2, <5>3
      <4> QED
        BY <4>1, <4>2
    <3>3. Folded(longer, k)
      <4> HIDE DEF Folding
      <4> QED
        BY <3>2
    <3> HIDE DEF Folded
    <3> QED
      BY <3>3
  <2> HIDE DEF T
  <2>3. 0 .. n \subseteq T
    BY <2>1, <2>2, UpTo
  <2> QED
    BY <2>3
<1> DEFINE fold == CHOOSE f : Folded(f, n)
<1>2. Folded(fold, n)
  <2> HIDE DEF Folded
  <2> QED
    BY <1>1
<1>3. CollectAll(items, events) = fold[1 .. n]
  BY DEF CollectAll, FoldLeft, MapThenFoldSet
<1> HIDE DEF fold
<1>4. \A s \in SUBSET (1 .. n) : fold[s] = Folding(fold, s)
  BY <1>2
<1>5. \A k \in 1 .. n : fold[1 .. k] = Collect(fold[1 .. k - 1], events[k])
  <2> TAKE k \in 1 .. n
  <2>1. Max(1 .. k) = k /\ (1 .. k) \ {k} = 1 .. k - 1 /\ 1 .. k \in SUBSET (1 .. n) /\ 1 .. k # {}
    BY UpToGreatest
  <2>2. fold[1 .. k] = Folding(fold, 1 .. k)
    <3> HIDE DEF Folding
    <3> QED
      BY <1>4, <2>1
  <2> QED
    BY <2>1, <2>2
<1>6. fold[1 .. 0] = items
  <2>1. {} \in SUBSET (1 .. n) /\ 1 .. 0 = {}
    OBVIOUS
  <2> QED
    BY <1>4, <2>1
<1> DEFINE g == [k \in 0 .. n |-> fold[1 .. k]]
<1>7. \A k \in 0 .. n : g[k] = fold[1 .. k]
  OBVIOUS
<1> HIDE DEF g
<1>8. /\ g[0] = items /\ CollectAll(items, events) = g[n]
      /\ \A k \in 1 .. n : g[k] = Collect(g[k - 1], events[k])
  <2>1. 0 \in 0 .. n /\ n \in 0 .. n /\ \A k \in 1 .. n : k \in 0 .. n /\ k - 1 \in 0 .. n
    OBVIOUS
  <2>2. \A k \in 1 .. n : g[k] = fold[1 .. k] /\ g[k - 1] = fold[1 .. k - 1]
    BY <1>7, <2>1
  <2>3. g[0] = fold[1 .. 0] /\ g[n] = fold[1 .. n]
    BY <1>7, <2>1
  <2> HIDE DEF Folding
  <2> QED
    BY <1>3, <1>5, <1>6, <2>2, <2>3
<1> QED
  BY <1>8 DEF CollectedInSteps

(* All of a sequence of events is collected, one after the other.          *)
LEMMA CollectAllKeepsShape ==
  ASSUME NEW items, ContentsOK(items), NEW n \in Nat, NEW events, DOMAIN events = 1 .. n
  PROVE  /\ ContentsOK(CollectAll(items, events))
         /\ n > 0 => \E before : ContentsOK(before) /\ CollectAll(items, events) = Collect(before, events[n])
<1>1. PICK g : /\ g[0] = items /\ CollectAll(items, events) = g[n]
               /\ \A k \in 1 .. n : g[k] = Collect(g[k - 1], events[k])
  BY CollectedSteps DEF CollectedInSteps
<1> DEFINE Fine == {k \in 0 .. n : ContentsOK(g[k])}
<1>2. 0 .. n \subseteq Fine
  <2>1. 0 \in Fine
    BY <1>1
  <2>2. ASSUME NEW k \in 1 .. n, k - 1 \in Fine PROVE k \in Fine
    <3>1. ContentsOK(g[k - 1]) /\ g[k] = Collect(g[k - 1], events[k])
      BY <1>1, <2>2
    <3> HIDE DEF Fine
    <3>2. ContentsOK(g[k])
      BY <3>1, CollectKeepsShape
    <3> QED
      BY <3>2 DEF Fine
  <2> HIDE DEF Fine
  <2> QED
    BY <2>1, <2>2, UpTo
<1>3. \A k \in 0 .. n : ContentsOK(g[k])
  BY <1>2
<1>4. n \in 0 .. n /\ (n > 0 => n - 1 \in 0 .. n /\ n \in 1 .. n)
  OBVIOUS
<1> QED
  BY <1>1, <1>3, <1>4

(* ... and heard of frames. *)
HeardInSteps(format, events, n) ==
  \E g : /\ g[0] = Silence /\ HeardFrom(format, events) = g[n]
        /\ \A k \in 1 .. n : g[k] = Read(format, g[k - 1], events[k])

LEMMA HeardSteps ==
  ASSUME NEW format, NEW n \in Nat, NEW events, DOMAIN events = 1 .. n
  PROVE  HeardInSteps(format, events, n)
<1> DEFINE Folding(f, s) == IF s = {} THEN Silence ELSE Read(format, f[s \ {Max(s)}], events[Max(s)])
           Folded(f, k) == f = [s \in SUBSET (1 .. k) |-> Folding(f, s)]
           T == {k \in 0 .. n : \E f : Folded(f, k)}
<1>1. n \in T
  <2>1. 0 \in T
    <3> DEFINE f == [s \in SUBSET (1 .. 0) |-> Silence]
    <3>1. \A s \in SUBSET (1 .. 0) : s = {}
      OBVIOUS
    <3>2. Folded(f, 0)
      BY <3>1
    <3> HIDE DEF Folded, f
    <3> QED
      BY <3>2
  <2>2. ASSUME NEW k \in 1 .. n, k - 1 \in T PROVE k \in T
    <3>1. PICK f : Folded(f, k - 1)
      <4> HIDE DEF Folded
      <4> QED
        BY <2>2
    <3> DEFINE longer == [s \in SUBSET (1 .. k) |->
                            IF k \in s THEN Read(format, f[s \ {k}], events[k]) ELSE f[s]]
    <3>2. ASSUME NEW s \in SUBSET (1 .. k) PROVE longer[s] = Folding(longer, s)
      <4>1. CASE k \in s
        <5>1. Max(s) = k
          BY <4>1, MaxOfFirst
        <5>2. s \ {k} \in SUBSET (1 .. k) /\ k \notin s \ {k}
          OBVIOUS
        <5>3. longer[s \ {k}] = f[s \ {k}]
          BY <5>2
        <5> QED
          BY <4>1, <5>1, <5>3
      <4>2. CASE k \notin s
        <5>1. s \in SUBSET (1 .. (k - 1))
          BY <4>2
        <5>2. longer[s] = f[s] /\ f[s] = Folding(f, s)
          BY <3>1, <4>2, <5>1
        <5>3. longer[s \ {Max(s)}] = f[s \ {Max(s)}]
          <6>1. s \ {Max(s)} \in SUBSET (1 .. k) /\ k \notin s \ {Max(s)}
            BY <4>2
          <6> QED
            BY <6>1
        <5> HIDE DEF longer
        <5> QED
          BY <5>2, <5>3
      <4> QED
        BY <4>1, <4>2
    <3>3. Folded(longer, k)
      <4> HIDE DEF Folding
      <4> QED
        BY <3>2
    <3> HIDE DEF Folded
    <3> QED
      BY <3>3
  <2> HIDE DEF T
  <2>3. 0 .. n \subseteq T
    BY <2>1, <2>2, UpTo
  <2> QED
    BY <2>3
<1> DEFINE fold == CHOOSE f : Folded(f, n)
<1>2. Folded(fold, n)
  <2> HIDE DEF Folded
  <2> QED
    BY <1>1
<1>3. HeardFrom(format, events) = fold[1 .. n]
  BY DEF HeardFrom, FoldLeft, MapThenFoldSet
<1> HIDE DEF fold
<1>4. \A s \in SUBSET (1 .. n) : fold[s] = Folding(fold, s)
  BY <1>2
<1>5. \A k \in 1 .. n : fold[1 .. k] = Read(format, fold[1 .. k - 1], events[k])
  <2> TAKE k \in 1 .. n
  <2>1. Max(1 .. k) = k /\ (1 .. k) \ {k} = 1 .. k - 1 /\ 1 .. k \in SUBSET (1 .. n) /\ 1 .. k # {}
    BY UpToGreatest
  <2>2. fold[1 .. k] = Folding(fold, 1 .. k)
    <3> HIDE DEF Folding
    <3> QED
      BY <1>4, <2>1
  <2> QED
    BY <2>1, <2>2
<1>6. fold[1 .. 0] = Silence
  <2>1. {} \in SUBSET (1 .. n) /\ 1 .. 0 = {}
    OBVIOUS
  <2> QED
    BY <1>4, <2>1
<1> DEFINE g == [k \in 0 .. n |-> fold[1 .. k]]
<1>7. \A k \in 0 .. n : g[k] = fold[1 .. k]
  OBVIOUS
<1> HIDE DEF g
<1>8. /\ g[0] = Silence /\ HeardFrom(format, events) = g[n]
      /\ \A k \in 1 .. n : g[k] = Read(format, g[k - 1], events[k])
  <2>1. 0 \in 0 .. n /\ n \in 0 .. n /\ \A k \in 1 .. n : k \in 0 .. n /\ k - 1 \in 0 .. n
    OBVIOUS
  <2>2. \A k \in 1 .. n : g[k] = fold[1 .. k] /\ g[k - 1] = fold[1 .. k - 1]
    BY <1>7, <2>1
  <2>3. g[0] = fold[1 .. 0] /\ g[n] = fold[1 .. n]
    BY <1>7, <2>1
  <2> HIDE DEF Folding
  <2> QED
    BY <1>3, <1>5, <1>6, <2>2, <2>3
<1> QED
  BY <1>8 DEF HeardInSteps

(* What a client makes of a stream is what it makes of its last frame,     *)
(* after those before it.                                                  *)
LEMMA HeardToTheEnd ==
  ASSUME NEW format, NEW n \in Nat, NEW events, DOMAIN events = 1 .. n,
         \A i \in 1 .. n : events[i].type \in FrameTypes
  PROVE  /\ DOMAIN HeardFrom(format, events) = Hearing
         /\ n > 0 => \E before : DOMAIN before = Hearing /\ HeardFrom(format, events) = Read(format, before, events[n])
<1>1. PICK g : /\ g[0] = Silence /\ HeardFrom(format, events) = g[n]
               /\ \A k \in 1 .. n : g[k] = Read(format, g[k - 1], events[k])
  BY HeardSteps DEF HeardInSteps
<1> DEFINE Fine == {k \in 0 .. n : DOMAIN g[k] = Hearing}
<1>2. 0 .. n \subseteq Fine
  <2>1. 0 \in Fine
    BY <1>1 DEF Silence, Hearing
  <2>2. ASSUME NEW k \in 1 .. n, k - 1 \in Fine PROVE k \in Fine
    <3>1. DOMAIN g[k - 1] = Hearing /\ g[k] = Read(format, g[k - 1], events[k])
      BY <1>1, <2>2
    <3> HIDE DEF Fine
    <3>2. DOMAIN g[k] = Hearing
      BY <3>1, ReadKeepsShape
    <3> QED
      BY <3>2 DEF Fine
  <2> HIDE DEF Fine
  <2> QED
    BY <2>1, <2>2, UpTo
<1>3. \A k \in 0 .. n : DOMAIN g[k] = Hearing
  BY <1>2
<1>4. n \in 0 .. n /\ (n > 0 => n - 1 \in 0 .. n /\ n \in 1 .. n)
  OBVIOUS
<1> QED
  BY <1>1, <1>3, <1>4

-----------------------------------------------------------------------------
(* What is remembered of an answer under way: what its type says, and that *)
(* what was said, collected and written has the shape the code gives it.   *)
Shaped ==
  /\ AnswerTypeOK
  /\ ContentsOK(said) /\ ContentsOK(contents)
  /\ IsSeq(decoder.tools) /\ DOMAIN decoder = {"tools", "stop"}
  /\ WriterOK(writer)

(* The stream of an answer that ended has its end as its last frame, unless *)
(* the client was given an error in its place.                             *)
LastFrame == writer.frames[Len(writer.frames)]
Closed ==
  asked = "stream" /\ ended # "none" =>
    \/ ended = "broken" /\ body = Answer(<<>>, <<>>, <<>>, "failed")
    \/ /\ body = NoBody
       /\ Len(writer.frames) > 0
       /\ LastFrame.type = "end"
       /\ (LastFrame.kind = "failed") = (ended \in {"failed", "broken"})
       /\ ended = "max_tokens" /\ to # "responses" => LastFrame.kind = "max_tokens"

(* The items of an answer are numbered from nothing.                       *)
LEMMA NumberBounded ==
  ASSUME NEW items, NEW i \in 1 .. MaxItems
  PROVE  NumberOf(items, i) \in 0 .. MaxItems
<1> USE TranslationAssumption
<1> DEFINE calls == {j \in 1 .. i - 1 : items[j].kind = "tool"}
<1>1. IsFiniteSet(1 .. i - 1) /\ Cardinality(1 .. i - 1) = i - 1
  BY FS_Interval
<1>2. calls \in SUBSET (1 .. i - 1)
  OBVIOUS
<1> HIDE DEF calls
<1>3. IsFiniteSet(calls) /\ Cardinality(calls) <= i - 1
  BY <1>1, <1>2, FS_Subset
<1>4. Cardinality(calls) \in Nat
  BY <1>3, FS_CardinalityType
<1> QED
  BY <1>3, <1>4 DEF NumberOf, calls

LEMMA PiecesCounted ==
  ASSUME NEW items, ContentsOK(items)
  PROVE  Len(PiecesOf(items)) \in Nat
<1> DEFINE all == [i \in DOMAIN items |-> items[i].pieces]
<1>1. DOMAIN items = 1 .. Len(items) /\ Len(items) \in Nat
  BY SeqShape DEF ContentsOK
<1>2. IsSeq(all)
  BY <1>1, SeqShape
<1>3. \A i \in DOMAIN all : IsSeq(all[i])
  BY DEF ContentsOK
<1> HIDE DEF all
<1>4. IsSeq(FlattenSeq(all))
  BY <1>2, <1>3, FlattenShape
<1> QED
  BY <1>4, SeqShape DEF PiecesOf, all

(* One frame of the upstream keeps what is remembered of the answer.       *)
LEMMA RelayKeeps ==
  ASSUME Shaped, NEW frame, frame.at \in 0 .. MaxItems, frame.type \in {"open", "piece", "whole"},
         Relay(frame)
  PROVE  /\ ContentsOK(contents') /\ WriterOK(writer')
         /\ IsSeq(decoder'.tools) /\ DOMAIN decoder' = {"tools", "stop"}
         /\ IsInjective(decoder'.tools) /\ Range(decoder'.tools) \subseteq 0 .. MaxItems
<1> DEFINE events == DecodeFrame(from, decoder, frame)
<1>1. events = <<>> \/ \E e : events = <<e>>
  BY DEF DecodeFrame
<1>2. DOMAIN events = 1 .. 0 \/ DOMAIN events = 1 .. 1
  <2> HIDE DEF events
  <2>1. 1 .. 0 = {}
    OBVIOUS
  <2> QED
    BY <1>1, <2>1, ShortShape
<1>3. PICK n \in Nat : DOMAIN events = 1 .. n
  <2> HIDE DEF events
  <2> QED
    BY <1>2
<1> HIDE DEF events
<1>4. ContentsOK(contents') /\ WriterOK(writer')
  <2>1. ContentsOK(CollectAll(contents, events))
    BY <1>3, CollectAllKeepsShape DEF Shaped
  <2>2. to \in Formats
    BY DEF Shaped, AnswerTypeOK
  <2>3. WriterOK(WriteAll(to, writer, events))
    BY <1>3, <2>2, WriteAllKeepsShape DEF Shaped
  <2> QED
    BY <2>1, <2>3 DEF Relay, Shaped, events, CollectAll
<1>5. CASE decoder' = decoder
  BY <1>4, <1>5 DEF Shaped, AnswerTypeOK
<1>6. CASE decoder' # decoder
  <2>1. decoder' = Decoded(from, decoder, frame)
    BY <1>6 DEF Relay
  <2>2. ~ Contains(decoder.tools, frame.at) /\ DOMAIN decoder' = {"tools", "stop"}
        /\ decoder'.tools = Append(decoder.tools, frame.at)
    BY <1>6, <2>1 DEF Decoded
  <2> DEFINE tools == decoder.tools
  <2>3. IsSeq(tools) /\ DOMAIN tools = 1 .. Len(tools) /\ Len(tools) \in Nat
    BY SeqShape DEF Shaped
  <2>4. \A a, b \in DOMAIN tools : tools[a] = tools[b] => a = b
    BY DEF Shaped, AnswerTypeOK, IsInjective
  <2>5. \A a \in DOMAIN tools : tools[a] # frame.at /\ tools[a] \in 0 .. MaxItems
    BY <2>2, <2>3 DEF Contains, Shaped, AnswerTypeOK, Range
  <2> HIDE DEF tools
  <2> DEFINE more == Append(tools, frame.at)
  <2>6. /\ IsSeq(more) /\ DOMAIN more = 1 .. Len(tools) + 1
        /\ \A a \in DOMAIN tools : more[a] = tools[a]
        /\ more[Len(tools) + 1] = frame.at
    BY <2>3, AppendShape
  <2> HIDE DEF more
  <2>7. \A a \in DOMAIN more : a \in DOMAIN tools \/ a = Len(tools) + 1
    BY <2>3, <2>6
  <2>8. \A a, b \in DOMAIN more : more[a] = more[b] => a = b
    BY <2>4, <2>5, <2>6, <2>7
  <2>9. \A a \in DOMAIN more : more[a] \in 0 .. MaxItems
    BY <2>5, <2>6, <2>7
  <2> QED
    BY <1>4, <2>2, <2>6, <2>8, <2>9 DEF IsInjective, Range, tools, more
<1> QED
  BY <1>5, <1>6

(* What is common to the steps in which the upstream goes on: nothing of   *)
(* how it ended is touched.                                                *)
LEMMA GoesOn ==
  ASSUME Shaped, NEW frame, frame.at \in 0 .. MaxItems, frame.type \in {"open", "piece", "whole"},
         Relay(frame), ended = "none",
         ContentsOK(said'), Len(said') <= MaxItems, latest' \in 0 .. Len(said'), crossed' \in BOOLEAN,
         \A i \in DOMAIN said' : said'[i].kind \in Kinds /\ Range(said'[i].pieces) \subseteq 1 .. MaxPieces,
         UNCHANGED <<way, ended, body>>
  PROVE  Shaped' /\ Closed'
<1>1. UNCHANGED <<from, to, streamed, asked, ended, body>>
  BY DEF way
<1>2. AnswerTypeOK'
  BY <1>1, RelayKeeps DEF AnswerTypeOK, Shaped, Relayed, NoBody
<1>3. Shaped'
  BY <1>2, RelayKeeps DEF Shaped
<1>4. Closed'
  BY <1>1 DEF Closed
<1> QED
  BY <1>3, <1>4

LEMMA BeginsKeeps ==
  ASSUME Shaped, NEW kind \in Kinds, Begins(kind)
  PROVE  Shaped' /\ Closed'
<1> DEFINE items == Append(said, Content(kind, 0, Len(said) + 1, <<>>))
           frame == Frame("open", NumberOf(items, Len(items)), kind, Len(items), NoPiece)
<1>1. /\ said' = items /\ Relay(frame) /\ ended = "none" /\ Len(said) < MaxItems
      /\ latest' = (IF kind = "tool" THEN Len(items) ELSE latest)
      /\ UNCHANGED <<way, crossed, ended, body>>
  BY DEF Begins
<1>2. IsSeq(said) /\ DOMAIN said = 1 .. Len(said) /\ Len(said) \in Nat
  BY SeqShape DEF Shaped, ContentsOK
<1>3. ContentsOK(items)
  BY ShortShape, AppendContent DEF Shaped
<1>4. /\ Len(items) = Len(said) + 1 /\ DOMAIN items = 1 .. Len(said) + 1
      /\ \A i \in DOMAIN said : items[i] = said[i]
      /\ items[Len(said) + 1] = Content(kind, 0, Len(said) + 1, <<>>)
  BY <1>2, AppendShape
<1> HIDE DEF items
<1>5. \A i \in DOMAIN items : items[i].kind \in Kinds /\ Range(items[i].pieces) \subseteq 1 .. MaxPieces
  <2> TAKE i \in DOMAIN items
  <2>1. CASE i \in DOMAIN said
    BY <1>4, <2>1 DEF Shaped, AnswerTypeOK
  <2>2. CASE i = Len(said) + 1
    BY <1>4, <2>2, ShortShape DEF Content, Range
  <2> QED
    BY <1>2, <1>4, <2>1, <2>2
<1>6. Len(items) \in 1 .. MaxItems
  BY <1>1, <1>2, <1>4, TranslationAssumption
<1>7. NumberOf(items, Len(items)) \in 0 .. MaxItems
  BY <1>6, NumberBounded
<1>8. frame.at \in 0 .. MaxItems /\ frame.type \in {"open", "piece", "whole"}
  BY <1>7 DEF Frame
<1> HIDE DEF frame
<1>9. latest' \in 0 .. Len(items) /\ crossed' \in BOOLEAN
  BY <1>1, <1>2, <1>4, <1>6 DEF Shaped, AnswerTypeOK
<1> QED
  BY <1>1, <1>3, <1>5, <1>6, <1>8, <1>9, GoesOn

LEMMA SaysWholeKeeps ==
  ASSUME Shaped, SaysWhole
  PROVE  Shaped' /\ Closed'
<1> DEFINE items == Append(said, Content("tool", 0, Len(said) + 1, <<NextPiece>>))
           frame == Frame("whole", NumberOf(items, Len(items)), "tool", Len(items), NextPiece)
<1>1. /\ said' = items /\ Relay(frame) /\ ended = "none" /\ Len(said) < MaxItems
      /\ NextPiece <= MaxPieces /\ latest' = Len(items)
      /\ UNCHANGED <<way, crossed, ended, body>>
  BY DEF SaysWhole
<1>2. IsSeq(said) /\ DOMAIN said = 1 .. Len(said) /\ Len(said) \in Nat
  BY SeqShape DEF Shaped, ContentsOK
<1>3. ContentsOK(items)
  BY ShortShape, AppendContent DEF Shaped
<1>4. /\ Len(items) = Len(said) + 1 /\ DOMAIN items = 1 .. Len(said) + 1
      /\ \A i \in DOMAIN said : items[i] = said[i]
      /\ items[Len(said) + 1] = Content("tool", 0, Len(said) + 1, <<NextPiece>>)
  BY <1>2, AppendShape
<1> HIDE DEF items
<1>0. NextPiece \in 1 .. MaxPieces
  BY <1>1, PiecesCounted, TranslationAssumption DEF NextPiece, Pieces, Shaped
<1>5. \A i \in DOMAIN items : items[i].kind \in Kinds /\ Range(items[i].pieces) \subseteq 1 .. MaxPieces
  <2> TAKE i \in DOMAIN items
  <2>1. CASE i \in DOMAIN said
    BY <1>4, <2>1 DEF Shaped, AnswerTypeOK
  <2>2. CASE i = Len(said) + 1
    <3>1. items[i].kind = "tool" /\ items[i].pieces = <<NextPiece>>
      BY <1>4, <2>2 DEF Content
    <3>2. Range(<<NextPiece>>) = {NextPiece}
      BY ShortShape DEF Range
    <3> QED
      BY <1>0, <3>1, <3>2 DEF Kinds
  <2> QED
    BY <1>2, <1>4, <2>1, <2>2
<1>6. Len(items) \in 1 .. MaxItems
  BY <1>1, <1>2, <1>4, TranslationAssumption
<1>7. NumberOf(items, Len(items)) \in 0 .. MaxItems
  BY <1>6, NumberBounded
<1>8. frame.at \in 0 .. MaxItems /\ frame.type \in {"open", "piece", "whole"}
  BY <1>7 DEF Frame
<1> HIDE DEF frame
<1>9. latest' \in 0 .. Len(items) /\ crossed' \in BOOLEAN
  BY <1>1, <1>6 DEF Shaped, AnswerTypeOK
<1> QED
  BY <1>1, <1>3, <1>5, <1>6, <1>8, <1>9, GoesOn

(* Of an item that was said before, its place and its number.              *)
LEMMA SaidNumber ==
  ASSUME Shaped, NEW i \in DOMAIN said
  PROVE  /\ DOMAIN said = 1 .. Len(said) /\ Len(said) \in Nat /\ Len(said) <= MaxItems
         /\ i \in 1 .. Len(said) /\ NumberOf(said, i) \in 0 .. MaxItems
<1>1. DOMAIN said = 1 .. Len(said) /\ Len(said) \in Nat /\ Len(said) <= MaxItems
  BY SeqShape DEF Shaped, ContentsOK, AnswerTypeOK
<1>2. i \in 1 .. MaxItems
  BY <1>1, TranslationAssumption
<1> QED
  BY <1>1, <1>2, NumberBounded

LEMMA FinishesKeeps ==
  ASSUME Shaped, NEW i \in DOMAIN said, Finishes(i)
  PROVE  Shaped' /\ Closed'
<1> DEFINE frame == Frame("whole", NumberOf(said, i), "tool", said[i].name, Last(said[i].pieces))
<1>1. /\ Relay(frame) /\ ended = "none" /\ UNCHANGED <<said, latest, crossed>>
      /\ UNCHANGED <<way, ended, body>>
  BY DEF Finishes
<1>2. frame.at \in 0 .. MaxItems /\ frame.type \in {"open", "piece", "whole"}
  BY SaidNumber DEF Frame
<1> HIDE DEF frame
<1>3. /\ ContentsOK(said') /\ Len(said') <= MaxItems /\ latest' \in 0 .. Len(said') /\ crossed' \in BOOLEAN
      /\ \A j \in DOMAIN said' : said'[j].kind \in Kinds /\ Range(said'[j].pieces) \subseteq 1 .. MaxPieces
  BY <1>1 DEF Shaped, AnswerTypeOK
<1> QED
  BY <1>1, <1>2, <1>3, GoesOn

LEMMA SaysKeeps ==
  ASSUME Shaped, NEW i \in DOMAIN said, Says(i)
  PROVE  Shaped' /\ Closed'
<1> DEFINE items == [said EXCEPT ![i].pieces = Append(@, NextPiece)]
           frame == Frame("piece", NumberOf(said, i), said[i].kind, Unnamed, NextPiece)
<1>1. /\ said' = items /\ Relay(frame) /\ ended = "none" /\ NextPiece <= MaxPieces
      /\ latest' = i /\ crossed' = (crossed \/ (said[i].kind = "tool" /\ latest # i))
      /\ UNCHANGED <<way, ended, body>>
  BY DEF Says
<1>2. /\ DOMAIN said = 1 .. Len(said) /\ Len(said) \in Nat /\ Len(said) <= MaxItems
      /\ i \in 1 .. Len(said) /\ NumberOf(said, i) \in 0 .. MaxItems
  BY SaidNumber
<1>3. ContentsOK(items)
  BY ChangeContent DEF Shaped
<1>4. NextPiece \in 1 .. MaxPieces
  BY <1>1, PiecesCounted, TranslationAssumption DEF NextPiece, Pieces, Shaped
<1>5. Len(items) = Len(said)
  BY <1>2
<1>6. ASSUME NEW j \in DOMAIN items
      PROVE  items[j].kind \in Kinds /\ Range(items[j].pieces) \subseteq 1 .. MaxPieces
  <2>1. /\ j \in DOMAIN said /\ IsSeq(said[j].pieces) /\ said[j].kind \in Kinds
        /\ Range(said[j].pieces) \subseteq 1 .. MaxPieces
        /\ DOMAIN said[j] = {"kind", "tool", "name", "pieces"}
    BY DEF Shaped, AnswerTypeOK, ContentsOK
  <2> DEFINE pieces == Append(said[j].pieces, NextPiece)
  <2>2. Range(pieces) \subseteq 1 .. MaxPieces
    <3>1. /\ DOMAIN said[j].pieces = 1 .. Len(said[j].pieces) /\ Len(said[j].pieces) \in Nat
          /\ DOMAIN pieces = 1 .. Len(said[j].pieces) + 1
          /\ \A k \in DOMAIN said[j].pieces : pieces[k] = said[j].pieces[k]
          /\ pieces[Len(said[j].pieces) + 1] = NextPiece
      BY <2>1, AppendShape
    <3> HIDE DEF pieces
    <3>2. \A k \in DOMAIN pieces : k \in DOMAIN said[j].pieces \/ k = Len(said[j].pieces) + 1
      BY <3>1
    <3> QED
      BY <1>4, <2>1, <3>1, <3>2 DEF Range
  <2>3. items[j].kind = said[j].kind /\ (items[j].pieces = pieces \/ items[j].pieces = said[j].pieces)
    BY <2>1
  <2> HIDE DEF items, pieces
  <2> QED
    BY <2>1, <2>2, <2>3
<1> HIDE DEF items
<1>7. frame.at \in 0 .. MaxItems /\ frame.type \in {"open", "piece", "whole"}
  BY <1>2 DEF Frame
<1> HIDE DEF frame
<1>8. latest' \in 0 .. Len(items) /\ crossed' \in BOOLEAN
  BY <1>1, <1>2, <1>5 DEF Shaped, AnswerTypeOK
<1> QED
  BY <1>1, <1>2, <1>3, <1>5, <1>6, <1>7, <1>8, GoesOn

(* A stream is closed with its end, which says how.                        *)
LEMMA CloseShape ==
  ASSUME NEW format \in Formats, NEW w, WriterOK(w)
  PROVE  LET stream == Close(format, w) IN
         /\ WriterOK(stream) /\ Len(stream.frames) > 0
         /\ stream.frames[Len(stream.frames)].type = "end"
         /\ stream.frames[Len(stream.frames)].kind = Ending(format, w.stop, w.failed)
<1> DEFINE shut == IF format = "anthropic" THEN StopBlock(w) ELSE w
           whole == SentWhole(format, w)
           final == Frame("end", 0, Ending(format, w.stop, w.failed), Unnamed, NoPiece)
           before == shut.frames \o whole
           frames == before \o <<final>>
<1>1. WriterOK(shut)
  BY StopBlockKeepsShape
<1>2. FramesOK(whole)
  <2>1. CASE format \in {"responses", "gemini"}
    <3>1. DOMAIN w.items = 1 .. Len(w.items) /\ Len(w.items) \in Nat
      BY SeqShape DEF WriterOK
    <3>2. DOMAIN whole = 1 .. Len(w.items) /\ whole = [i \in 1 .. Len(w.items) |-> whole[i]]
      BY <2>1, <3>1 DEF SentWhole
    <3>3. \A i \in DOMAIN whole : whole[i].type \in FrameTypes
      BY <2>1, <3>1 DEF SentWhole, FrameTypes
    <3> HIDE DEF whole
    <3>4. IsSeq(whole)
      BY <3>1, <3>2, SeqShape
    <3> QED
      BY <3>3, <3>4 DEF FramesOK
  <2>2. CASE format \notin {"responses", "gemini"}
    BY <2>2, ShortShape DEF SentWhole, FramesOK
  <2> QED
    BY <2>1, <2>2
<1>3. \A s, t : FramesOK(s) /\ FramesOK(t) => FramesOK(s \o t)
  <2> SUFFICES ASSUME NEW s, NEW t, FramesOK(s), FramesOK(t) PROVE FramesOK(s \o t)
    OBVIOUS
  <2>1. IsSeq(s) /\ IsSeq(t) /\ \A i \in DOMAIN s : s[i].type \in FrameTypes
    BY DEF FramesOK
  <2>2. IsSeq(s \o t)
    BY <2>1, ConcatShape
  <2>3. \A i \in DOMAIN (s \o t) :
          ((i \in DOMAIN s /\ (s \o t)[i] = s[i])
             \/ (i - Len(s) \in DOMAIN t /\ (s \o t)[i] = t[i - Len(s)]))
    BY <2>1, ConcatShape
  <2>4. \A i \in DOMAIN (s \o t) : (s \o t)[i].type \in FrameTypes
    BY <2>1, <2>3 DEF FramesOK
  <2> QED
    BY <2>2, <2>4 DEF FramesOK
<1>4. FramesOK(<<final>>)
  BY ShortShape DEF FramesOK, Frame, FrameTypes
<1>5. FramesOK(shut.frames)
  BY <1>1 DEF WriterOK
<1> HIDE DEF shut, whole, final
<1>6. FramesOK(before)
  BY <1>2, <1>3, <1>5
<1>7. FramesOK(frames)
  <2> HIDE DEF before
  <2> QED
    BY <1>3, <1>4, <1>6
<1>8. Len(frames) > 0 /\ frames[Len(frames)] = final
  <2> HIDE DEF before
  <2>1. IsSeq(before) /\ IsSeq(<<final>>) /\ Len(before) \in Nat
    BY <1>4, <1>6, SeqShape DEF FramesOK
  <2>2. Len(<<final>>) = 1 /\ <<final>>[1] = final /\ 1 \in DOMAIN <<final>>
    BY ShortShape
  <2>3. Len(frames) = Len(before) + 1 /\ DOMAIN frames = 1 .. Len(frames)
    BY <2>1, <2>2, ConcatShape
  <2>4. \A i \in DOMAIN frames : i \in DOMAIN before \/ frames[i] = <<final>>[i - Len(before)]
    BY <2>1, ConcatShape
  <2>5. DOMAIN before = 1 .. Len(before)
    BY <2>1, SeqShape
  <2> HIDE DEF frames
  <2>6. Len(frames) \in DOMAIN frames /\ Len(frames) \notin DOMAIN before /\ Len(frames) - Len(before) = 1
    BY <2>1, <2>3, <2>5
  <2> QED
    BY <2>1, <2>2, <2>3, <2>4, <2>6
<1>9. Close(format, w) = [shut EXCEPT !.frames = frames]
  BY DEF Close, shut, whole, final
<1>10. final.type = "end" /\ final.kind = Ending(format, w.stop, w.failed)
  BY DEF Frame, final
<1> HIDE DEF frames
<1>11. DOMAIN shut = Writing /\ IsSeq(shut.items)
  BY <1>1 DEF WriterOK
<1> QED
  BY <1>7, <1>8, <1>9, <1>10, <1>11 DEF WriterOK, Writing

(* An ending is told as failed only where it is, and as cut short where it *)
(* is and there is a word for it.                                          *)
LEMMA EndingTells ==
  ASSUME NEW format, NEW stop, NEW failed \in BOOLEAN
  PROVE  /\ (Ending(format, stop, failed) = "failed") = failed
         /\ ~ failed /\ stop = "max_tokens" /\ format # "responses" =>
              Ending(format, stop, failed) = "max_tokens"
BY DEF Ending, Spelled

(* A body read in one piece is written whole, with the end it is given.    *)
LEMMA EventsShape ==
  ASSUME NEW items, ContentsOK(items), NEW i \in DOMAIN items
  PROVE  IsSeq(EventsOf(items, i))
<1> DEFINE tool == IF items[i].kind # "tool" THEN 0
                   ELSE Cardinality({j \in 1 .. i - 1 : items[j].kind = "tool"})
           first == IF items[i].kind = "tool" THEN <<ToolEvent(tool, items[i].name, NoPiece)>> ELSE <<>>
           rest == [p \in DOMAIN items[i].pieces |-> Event(items[i].kind, tool, Unnamed, items[i].pieces[p])]
<1>1. EventsOf(items, i) = first \o rest
  BY DEF EventsOf
<1> HIDE DEF tool
<1>2. IsSeq(first)
  BY ShortShape
<1>3. DOMAIN items[i].pieces = 1 .. Len(items[i].pieces) /\ Len(items[i].pieces) \in Nat
  BY SeqShape DEF ContentsOK
<1>4. DOMAIN rest = 1 .. Len(items[i].pieces) /\ rest = [p \in 1 .. Len(items[i].pieces) |-> rest[p]]
  BY <1>3
<1> HIDE DEF first, rest
<1>5. IsSeq(rest)
  BY <1>3, <1>4, SeqShape
<1> QED
  BY <1>1, <1>2, <1>5, ConcatShape

LEMMA WriteStreamShape ==
  ASSUME NEW format \in Formats, NEW items, ContentsOK(items), NEW stop, NEW failed
  PROVE  LET stream == WriteStream(format, items, stop, failed) IN
         /\ WriterOK(stream) /\ Len(stream.frames) > 0
         /\ stream.frames[Len(stream.frames)].type = "end"
         /\ stream.frames[Len(stream.frames)].kind = Ending(format, stop, failed)
<1> DEFINE turns == [i \in DOMAIN items |-> EventsOf(items, i)]
           events == FlattenSeq(turns)
           written == WriteAll(format, Fresh, events)
           ready == [written EXCEPT !.stop = stop, !.failed = failed]
<1>1. DOMAIN items = 1 .. Len(items) /\ Len(items) \in Nat
  BY SeqShape DEF ContentsOK
<1>2. IsSeq(turns)
  <2>1. DOMAIN turns = 1 .. Len(items) /\ turns = [i \in 1 .. Len(items) |-> turns[i]]
    BY <1>1
  <2> HIDE DEF turns
  <2> QED
    BY <1>1, <2>1, SeqShape
<1>3. \A i \in DOMAIN turns : IsSeq(turns[i])
  BY EventsShape
<1> HIDE DEF turns
<1>4. IsSeq(events)
  BY <1>2, <1>3, FlattenShape
<1> HIDE DEF events
<1>5. WriterOK(Fresh)
  BY ShortShape DEF WriterOK, Fresh, Writing, FramesOK
<1>6. WriterOK(written)
  BY <1>4, <1>5, SeqShape, WriteAllKeepsShape
<1> HIDE DEF written
<1>7. WriterOK(ready) /\ ready.stop = stop /\ ready.failed = failed
  BY <1>6 DEF WriterOK, Writing
<1>8. WriteStream(format, items, stop, failed) = Close(format, ready)
  BY DEF WriteStream, written, events, turns
<1> HIDE DEF ready
<1> QED
  BY <1>7, <1>8, CloseShape

(* What is picked out of an answer is an answer, and so are two in a row.  *)
LEMMA OfKindShape ==
  ASSUME NEW items, ContentsOK(items), NEW kind
  PROVE  ContentsOK(OfKind(items, kind))
<1> DEFINE chosen == [i \in DOMAIN items |-> IF items[i].kind = kind THEN <<items[i]>> ELSE <<>>]
<1>1. DOMAIN items = 1 .. Len(items) /\ Len(items) \in Nat
  BY SeqShape DEF ContentsOK
<1>2. IsSeq(chosen)
  <2>1. DOMAIN chosen = 1 .. Len(items) /\ chosen = [i \in 1 .. Len(items) |-> chosen[i]]
    BY <1>1
  <2> HIDE DEF chosen
  <2> QED
    BY <1>1, <2>1, SeqShape
<1>3. DOMAIN chosen = DOMAIN items
      /\ \A i \in DOMAIN items : chosen[i] = <<items[i]>> \/ chosen[i] = <<>>
  OBVIOUS
<1>4. OfKind(items, kind) = FlattenSeq(chosen)
  BY DEF OfKind
<1> HIDE DEF chosen
<1>5. \A i \in DOMAIN chosen : IsSeq(chosen[i]) /\ \A q \in DOMAIN chosen[i] : chosen[i][q] = items[i]
  BY <1>3, ShortShape
<1> DEFINE picked == FlattenSeq(chosen)
<1>6. IsSeq(picked) /\ \A p \in DOMAIN picked : \E i \in DOMAIN items : picked[p] = items[i]
  BY <1>2, <1>3, <1>5, FlattenShape
<1> HIDE DEF picked
<1>7. ContentsOK(picked)
  BY <1>6 DEF ContentsOK
<1> QED
  BY <1>4, <1>7 DEF picked

LEMMA ContentsConcat ==
  ASSUME NEW s, ContentsOK(s), NEW t, ContentsOK(t)
  PROVE  ContentsOK(s \o t)
<1>1. IsSeq(s) /\ IsSeq(t)
  BY DEF ContentsOK
<1>2. IsSeq(s \o t)
  BY <1>1, ConcatShape
<1>3. \A i \in DOMAIN (s \o t) :
        ((i \in DOMAIN s /\ (s \o t)[i] = s[i])
           \/ (i - Len(s) \in DOMAIN t /\ (s \o t)[i] = t[i - Len(s)]))
  BY <1>1, ConcatShape
<1>4. \A i \in DOMAIN (s \o t) : DOMAIN (s \o t)[i] = {"kind", "tool", "name", "pieces"}
                                 /\ IsSeq((s \o t)[i].pieces)
  BY <1>3 DEF ContentsOK
<1> QED
  BY <1>2, <1>4 DEF ContentsOK

LEMMA DecodedShape ==
  ASSUME Shaped
  PROVE  ContentsOK(DecodeResponse)
BY OfKindShape, ContentsConcat DEF DecodeResponse, Shaped

(* However the answer ends, the client is handed its end.                  *)
LEMMA HandKeeps ==
  ASSUME Shaped, ended = "none", NEW stop, NEW failed \in BOOLEAN, NEW broken \in BOOLEAN,
         Hand(stop, failed, broken),
         ended' \in Endings, broken <=> ended' = "broken", failed <=> ended' = "failed",
         ended' = "max_tokens" => stop = "max_tokens",
         UNCHANGED <<way, said, latest, crossed, decoder, contents>>
  PROVE  Shaped' /\ Closed'
<1>1. UNCHANGED <<from, to, streamed, asked>>
  BY DEF way
<1>2. to \in Formats /\ body = NoBody /\ ended' # "none"
  BY DEF Shaped, AnswerTypeOK, Endings, Stops
<1> DEFINE whole == IF streamed THEN contents ELSE DecodeResponse
           ready == [writer EXCEPT !.stop = stop, !.failed = failed \/ broken]
<1>3. ContentsOK(whole)
  BY DecodedShape DEF Shaped
<1>4. /\ body' # NoBody => ~ Relayed
      /\ WriterOK(writer')
      /\ Closed'
  <2>1. CASE Relayed
    <3>1. writer' = Close(to, ready) /\ body' = NoBody
      BY <1>2, <2>1 DEF Hand
    <3>2. WriterOK(ready) /\ ready.stop = stop /\ ready.failed = (failed \/ broken)
      BY DEF Shaped, WriterOK, Writing
    <3> HIDE DEF ready
    <3>3. /\ WriterOK(writer') /\ Len(writer'.frames) > 0
          /\ writer'.frames[Len(writer'.frames)].type = "end"
          /\ writer'.frames[Len(writer'.frames)].kind = Ending(to, stop, failed \/ broken)
      BY <1>2, <3>1, <3>2, CloseShape
    <3>4. /\ (Ending(to, stop, failed \/ broken) = "failed") = (failed \/ broken)
          /\ ~ (failed \/ broken) /\ stop = "max_tokens" /\ to # "responses" =>
               Ending(to, stop, failed \/ broken) = "max_tokens"
      BY EndingTells
    <3> QED
      BY <1>1, <1>2, <3>1, <3>3, <3>4 DEF Closed, LastFrame
  <2>2. CASE ~ Relayed /\ broken
    <3>1. body' = Answer(<<>>, <<>>, <<>>, "failed") /\ writer' = writer
      BY <2>2 DEF Hand, ErrorBody
    <3> QED
      BY <2>2, <3>1 DEF Closed, Shaped
  <2>3. CASE ~ Relayed /\ ~ broken /\ asked = "stream"
    <3>1. writer' = WriteStream(to, whole, stop, failed) /\ body' = NoBody
      BY <1>2, <2>3 DEF Hand
    <3> HIDE DEF whole
    <3>2. /\ WriterOK(writer') /\ Len(writer'.frames) > 0
          /\ writer'.frames[Len(writer'.frames)].type = "end"
          /\ writer'.frames[Len(writer'.frames)].kind = Ending(to, stop, failed)
      BY <1>2, <1>3, <3>1, WriteStreamShape
    <3>3. /\ (Ending(to, stop, failed) = "failed") = failed
          /\ ~ failed /\ stop = "max_tokens" /\ to # "responses" =>
               Ending(to, stop, failed) = "max_tokens"
      BY EndingTells
    <3> QED
      BY <1>1, <1>2, <2>3, <3>1, <3>2, <3>3 DEF Closed, LastFrame
  <2>4. CASE ~ Relayed /\ ~ broken /\ asked # "stream"
    BY <1>1, <2>4 DEF Hand, Closed, Shaped
  <2> QED
    BY <2>1, <2>2, <2>3, <2>4
<1>5. AnswerTypeOK'
  BY <1>1, <1>2, <1>4 DEF AnswerTypeOK, Shaped, Relayed
<1> QED
  BY <1>4, <1>5 DEF Shaped

LEMMA EndsKeeps ==
  ASSUME Shaped, NEW stop \in Stops, Ends(stop)
  PROVE  Shaped' /\ Closed'
<1> DEFINE said_stop == IF streamed THEN StopOf(from, decoder, stop) ELSE stop
<1>1. /\ ended = "none" /\ ended' = stop /\ Hand(said_stop, FALSE, FALSE)
      /\ UNCHANGED <<way, said, latest, crossed, decoder, contents>>
  BY DEF Ends
<1>2. ended' \in Endings /\ ended' # "broken" /\ ended' # "failed"
  BY <1>1 DEF Endings, Stops
<1>3. ended' = "max_tokens" => said_stop = "max_tokens"
  BY <1>1 DEF StopOf
<1> HIDE DEF said_stop
<1> QED
  BY <1>1, <1>2, <1>3, HandKeeps

LEMMA FailsKeeps ==
  ASSUME Shaped, Fails
  PROVE  Shaped' /\ Closed'
<1>1. /\ ended = "none" /\ ended' = "failed" /\ Hand("", TRUE, FALSE)
      /\ UNCHANGED <<way, said, latest, crossed, decoder, contents>>
  BY DEF Fails
<1> QED
  BY <1>1, HandKeeps DEF Endings

LEMMA BreaksKeeps ==
  ASSUME Shaped, Breaks
  PROVE  Shaped' /\ Closed'
<1>1. /\ ended = "none" /\ ended' = "broken" /\ Hand("", FALSE, TRUE)
      /\ UNCHANGED <<way, said, latest, crossed, decoder, contents>>
  BY DEF Breaks
<1> QED
  BY <1>1, HandKeeps DEF Endings

LEMMA AnswerInitHolds == AnswerInit => Shaped /\ Closed
<1> SUFFICES ASSUME AnswerInit PROVE Shaped /\ Closed
  OBVIOUS
<1> USE TranslationAssumption
<1>1. /\ from \in Upstreams /\ to \in Formats \ {from} /\ streamed \in BOOLEAN
      /\ asked \in {"stream", "body"} /\ said = <<>> /\ latest = 0 /\ crossed = FALSE
      /\ decoder = [tools |-> <<>>, stop |-> ""] /\ writer = Fresh /\ contents = <<>>
      /\ ended = "none" /\ body = NoBody
  BY DEF AnswerInit
<1>2. ContentsOK(<<>>) /\ WriterOK(Fresh)
  BY ShortShape DEF ContentsOK, WriterOK, Fresh, Writing, FramesOK
<1>3. IsInjective(<<>>) /\ Range(<<>>) = {}
  BY ShortShape DEF IsInjective, Range
<1>4. AnswerTypeOK
  <2>1. DOMAIN said = {} /\ Len(said) = 0 /\ latest \in 0 .. Len(said)
    <3>1. DOMAIN <<>> = {} /\ Len(<<>>) = 0
      BY ShortShape
    <3>2. DOMAIN said = {} /\ Len(said) = 0
      BY <1>1, <3>1, Zenon
    <3>3. latest = 0
      BY <1>1
    <3> QED
      BY <3>2, <3>3
  <2>2. IsInjective(decoder.tools) /\ Range(decoder.tools) \subseteq 0 .. MaxItems
    BY <1>1, <1>3
  <2>3. Len(said) <= MaxItems
    BY <2>1
  <2>4. ended \in Endings \cup {"none"} /\ (body # NoBody => ~ Relayed /\ ended # "none")
    BY <1>1
  <2> HIDE TranslationAssumption
  <2> QED
    BY <1>1, <2>1, <2>2, <2>3, <2>4 DEF AnswerTypeOK
<1>5. Shaped
  BY <1>1, <1>2, <1>4, ShortShape DEF Shaped
<1> QED
  BY <1>1, <1>5 DEF Closed

LEMMA AnswerNextKeeps == Shaped /\ Closed /\ [AnswerNext]_answerVars => Shaped' /\ Closed'
<1> SUFFICES ASSUME Shaped, Closed, [AnswerNext]_answerVars PROVE Shaped' /\ Closed'
  OBVIOUS
<1>1. CASE \E kind \in Kinds : Begins(kind)
  BY <1>1, BeginsKeeps
<1>2. CASE SaysWhole
  BY <1>2, SaysWholeKeeps
<1>3. CASE \E i \in DOMAIN said : Says(i) \/ Finishes(i)
  BY <1>3, SaysKeeps, FinishesKeeps
<1>4. CASE \E stop \in Stops : Ends(stop)
  BY <1>4, EndsKeeps
<1>5. CASE Fails
  BY <1>5, FailsKeeps
<1>6. CASE Breaks
  BY <1>6, BreaksKeeps
<1>7. CASE UNCHANGED answerVars
  <2>1. UNCHANGED <<from, to, streamed, asked, said, latest, crossed, decoder, writer, contents, ended, body>>
    BY <1>7 DEF answerVars, way
  <2>2. Shaped'
    BY <2>1 DEF Shaped, AnswerTypeOK, Relayed
  <2>3. Closed'
    BY <2>1 DEF Closed, LastFrame
  <2> QED
    BY <2>2, <2>3
<1> QED
  BY <1>1, <1>2, <1>3, <1>4, <1>5, <1>6, <1>7 DEF AnswerNext

LEMMA AnswerHolds == AnswerSpec => [](Shaped /\ Closed)
<1>1. AnswerInit => Shaped /\ Closed
  BY AnswerInitHolds
<1>2. (Shaped /\ Closed) /\ [AnswerNext]_answerVars => (Shaped /\ Closed)'
  BY AnswerNextKeeps
<1> QED
  BY <1>1, <1>2, PTL DEF AnswerSpec

(* What was said of an answer stays within its bounds and no call is       *)
(* numbered twice, whatever is read, translated and written.               *)
THEOREM AnswerTyped == AnswerSpec => []AnswerTypeOK
<1>1. Shaped /\ Closed => AnswerTypeOK
  BY DEF Shaped
<1> QED
  BY <1>1, AnswerHolds, PTL

(* What the last frame says is what the client hears.                      *)
LEMMA ClosedIsTold == Shaped /\ Closed => EndingTold
<1> SUFFICES ASSUME Shaped, Closed, asked = "stream", ended # "none"
             PROVE  /\ (Told.ending = "failed") = (ended \in {"failed", "broken"})
                    /\ ended = "max_tokens" /\ to # "responses" => Told.ending = "max_tokens"
  BY DEF EndingTold
<1>1. CASE ended = "broken" /\ body = Answer(<<>>, <<>>, <<>>, "failed")
  <2>1. body # NoBody /\ body.ending = "failed"
    BY <1>1 DEF Answer, NoBody
  <2>2. Told = body
    BY <2>1 DEF Told
  <2> QED
    BY <1>1, <2>1, <2>2
<1>2. CASE /\ body = NoBody /\ Len(writer.frames) > 0 /\ LastFrame.type = "end"
           /\ (LastFrame.kind = "failed") = (ended \in {"failed", "broken"})
           /\ ended = "max_tokens" /\ to # "responses" => LastFrame.kind = "max_tokens"
  <2> DEFINE n == Len(writer.frames)
  <2>1. DOMAIN writer.frames = 1 .. n /\ n \in Nat /\ \A i \in 1 .. n : writer.frames[i].type \in FrameTypes
    BY SeqShape DEF Shaped, WriterOK, FramesOK
  <2>2. PICK before : DOMAIN before = Hearing /\ Heard = Read(to, before, writer.frames[n])
    <3>1. Heard = HeardFrom(to, writer.frames)
      BY DEF Heard
    <3> QED
      BY <1>2, <2>1, <3>1, HeardToTheEnd
  <2>3. Heard.ending = LastFrame.kind
    BY <1>2, <2>2 DEF Read, LastFrame, Hearing
  <2>4. Told.ending = Heard.ending
    <3>1. Told = Answer(Heard.text, Heard.thinking, CallsOf(Heard.calls), Heard.ending)
      BY <1>2 DEF Told
    <3> QED
      BY <3>1 DEF Answer
  <2> QED
    BY <1>2, <2>3, <2>4
<1> QED
  BY <1>1, <1>2 DEF Closed

(* However long the answer, from whichever format into whichever, streamed *)
(* or not: a stream the client reads ends in what became of the answer.    *)
THEOREM EndIsTold == AnswerSpec => []EndingTold
BY AnswerHolds, ClosedIsTold, PTL

-----------------------------------------------------------------------------
(* What a client is told of an answer is all that was said.  First, more   *)
(* of sequences: how they start, and when two are the same.                *)

(* The first k elements of a sequence.  What holds of none of them, and of *)
(* one more when it does of those before, holds of the whole.              *)
Start(s, k) == [i \in 1 .. k |-> s[i]]

LEMMA EmptyIs ==
  /\ \A s : IsSeq(s) /\ Len(s) = 0 => s = <<>>
  /\ \A s : s = <<>> => IsSeq(s) /\ Len(s) = 0 /\ DOMAIN s = {}
<1>1. ASSUME NEW s, IsSeq(s), Len(s) = 0 PROVE s = <<>>
  <2>1. s \in Seq({s[i] : i \in DOMAIN s})
    BY <1>1 DEF IsSeq
  <2> QED
    BY <1>1, <2>1
<1> QED
  BY <1>1, ShortShape

(* Sequences of one length that agree everywhere are one.                  *)
LEMMA SameSeq ==
  ASSUME NEW s, IsSeq(s), NEW t, IsSeq(t), Len(s) = Len(t), \A i \in DOMAIN s : s[i] = t[i]
  PROVE  s = t
<1> DEFINE S == {s[i] : i \in DOMAIN s} \cup {t[i] : i \in DOMAIN t}
<1>1. s \in Seq(S) /\ t \in Seq(S)
  BY DEF IsSeq
<1>2. s \in [1 .. Len(s) -> S] /\ t \in [1 .. Len(t) -> S]
  BY <1>1
<1> QED
  BY <1>2

LEMMA StartIs ==
  ASSUME NEW s, IsSeq(s)
  PROVE  /\ Start(s, 0) = <<>>
         /\ Start(s, Len(s)) = s
         /\ \A k \in 0 .. Len(s) : IsSeq(Start(s, k)) /\ Len(Start(s, k)) = k
                                   /\ DOMAIN Start(s, k) = 1 .. k
         /\ \A k \in 1 .. Len(s) : Start(s, k) = Append(Start(s, k - 1), s[k]) /\ k \in DOMAIN s
<1>0. DOMAIN s = 1 .. Len(s) /\ Len(s) \in Nat
  BY SeqShape
<1>1. \A k \in 0 .. Len(s) : IsSeq(Start(s, k)) /\ Len(Start(s, k)) = k
  <2> TAKE k \in 0 .. Len(s)
  <2>1. DOMAIN Start(s, k) = 1 .. k /\ Start(s, k) = [i \in 1 .. k |-> Start(s, k)[i]]
    BY DEF Start
  <2>2. k \in Nat
    BY <1>0
  <2> QED
    BY <2>1, <2>2, SeqShape
<1>2. \A k \in 0 .. Len(s) : DOMAIN Start(s, k) = 1 .. k
  BY DEF Start
<1>3. Start(s, 0) = <<>>
  <2>1. 0 \in 0 .. Len(s)
    BY <1>0
  <2> QED
    BY <1>1, <2>1, EmptyIs
<1>4. Start(s, Len(s)) = s
  <2>1. Len(s) \in 0 .. Len(s)
    BY <1>0
  <2>2. \A i \in DOMAIN s : s[i] = Start(s, Len(s))[i]
    BY <1>0 DEF Start
  <2>3. IsSeq(Start(s, Len(s))) /\ Len(Start(s, Len(s))) = Len(s)
    BY <1>1, <2>1
  <2> QED
    BY <2>2, <2>3, SameSeq
<1>5. ASSUME NEW k \in 1 .. Len(s)
      PROVE  Start(s, k) = Append(Start(s, k - 1), s[k])
  <2> DEFINE before == Start(s, k - 1)
             more == Append(before, s[k])
  <2>1. k - 1 \in 0 .. Len(s) /\ k \in 0 .. Len(s)
    BY <1>0
  <2>2. IsSeq(before) /\ Len(before) = k - 1
    BY <1>1, <2>1
  <2>3. \A i \in 1 .. k - 1 : before[i] = s[i]
    BY <1>0 DEF Start
  <2> HIDE DEF before
  <2>4. /\ IsSeq(more) /\ Len(more) = k
        /\ \A i \in 1 .. k - 1 : more[i] = s[i]
        /\ more[k] = s[k]
    <3>1. /\ IsSeq(more) /\ Len(more) = Len(before) + 1
          /\ DOMAIN before = 1 .. Len(before)
          /\ \A i \in DOMAIN before : more[i] = before[i]
          /\ more[Len(before) + 1] = s[k]
      BY <2>2, AppendShape
    <3> HIDE DEF more
    <3> QED
      BY <2>1, <2>2, <2>3, <3>1
  <2> HIDE DEF more
  <2>5. \A i \in 1 .. k : more[i] = s[i]
    BY <2>4
  <2>6. \A i \in DOMAIN Start(s, k) : Start(s, k)[i] = more[i]
    BY <2>5 DEF Start
  <2>7. IsSeq(Start(s, k)) /\ Len(Start(s, k)) = k
    BY <1>1, <2>1
  <2>8. Start(s, k) = more
    BY <2>4, <2>6, <2>7, SameSeq
  <2> QED
    BY <2>8 DEF more, before
<1> QED
  BY <1>0, <1>1, <1>2, <1>3, <1>4, <1>5

LEMMA StartOfAppend ==
  ASSUME NEW s, IsSeq(s), NEW e
  PROVE  \A k \in 0 .. Len(s) : Start(Append(s, e), k) = Start(s, k)
<1>1. /\ DOMAIN s = 1 .. Len(s) /\ Len(s) \in Nat
      /\ \A i \in DOMAIN s : Append(s, e)[i] = s[i]
  BY AppendShape
<1> QED
  BY <1>1 DEF Start

(* Behind one another.                                                     *)
LEMMA ConcatIs ==
  ASSUME NEW s, IsSeq(s)
  PROVE  /\ s \o <<>> = s /\ <<>> \o s = s
         /\ \A e : s \o <<e>> = Append(s, e)
         /\ \A t, e : IsSeq(t) => s \o Append(t, e) = Append(s \o t, e)
         /\ \A t, u : IsSeq(t) /\ IsSeq(u) => (s \o t) \o u = s \o (t \o u)
<1>1. s \o <<>> = s /\ <<>> \o s = s
  <2>1. s \in Seq({s[i] : i \in DOMAIN s})
    BY DEF IsSeq
  <2> QED
    BY <2>1
<1>2. ASSUME NEW e PROVE s \o <<e>> = Append(s, e)
  <2>1. s \in Seq({s[i] : i \in DOMAIN s} \cup {e})
    BY DEF IsSeq
  <2> QED
    BY <2>1
<1>3. ASSUME NEW t, NEW e, IsSeq(t) PROVE s \o Append(t, e) = Append(s \o t, e)
  <2> DEFINE S == {s[i] : i \in DOMAIN s} \cup {t[i] : i \in DOMAIN t} \cup {e}
  <2>1. s \in Seq(S) /\ t \in Seq(S) /\ e \in S
    BY <1>3 DEF IsSeq
  <2> HIDE DEF S
  <2> QED
    BY <2>1
<1>4. ASSUME NEW t, NEW u, IsSeq(t), IsSeq(u) PROVE (s \o t) \o u = s \o (t \o u)
  <2> DEFINE S == {s[i] : i \in DOMAIN s} \cup {t[i] : i \in DOMAIN t} \cup {u[i] : i \in DOMAIN u}
  <2>1. s \in Seq(S) /\ t \in Seq(S) /\ u \in Seq(S)
    BY <1>4 DEF IsSeq
  <2> HIDE DEF S
  <2> QED
    BY <2>1
<1> QED
  BY <1>1, <1>2, <1>3, <1>4

-----------------------------------------------------------------------------
(* What is flattened, written, collected and heard of one element more.    *)

(* Nothing flattened is nothing, and one sequence more comes last.         *)
LEMMA FlattenAppend ==
  /\ FlattenSeq(<<>>) = <<>>
  /\ \A ss, e : IsSeq(ss) /\ IsSeq(e) /\ (\A i \in DOMAIN ss : IsSeq(ss[i])) =>
       FlattenSeq(Append(ss, e)) = FlattenSeq(ss) \o e
<1>1. FlattenSeq(<<>>) = <<>>
  BY EmptyIs DEF FlattenSeq
<1>2. ASSUME NEW ss, IsSeq(ss), \A i \in DOMAIN ss : IsSeq(ss[i]), NEW e, IsSeq(e)
      PROVE  FlattenSeq(Append(ss, e)) = FlattenSeq(ss) \o e
  <2> DEFINE more == Append(ss, e)
             n == Len(ss)
  <2>1. /\ IsSeq(more) /\ Len(more) = n + 1 /\ n \in Nat /\ DOMAIN ss = 1 .. n
        /\ \A i \in 1 .. n : more[i] = ss[i]
        /\ more[n + 1] = e
    BY <1>2, AppendShape
  <2> HIDE DEF more
  <2>2. PICK g : /\ FlattenSeq(more) = g[n + 1]
                 /\ \A i \in 1 .. n + 1 : g[i] = IF i = 1 THEN more[i] ELSE g[i - 1] \o more[i]
    <3>1. Len(more) # 0
      BY <2>1
    <3> QED
      BY <2>1, <3>1, FlattenSteps
  <2>3. CASE n = 0
    <3>1. ss = <<>> /\ FlattenSeq(ss) = <<>>
      BY <1>1, <1>2, <2>3, EmptyIs
    <3>2. g[1] = e
      BY <2>1, <2>2, <2>3
    <3>3. FlattenSeq(more) = e
      BY <2>2, <2>3, <3>2
    <3>4. <<>> \o e = e
      BY <1>2, ConcatIs
    <3> QED
      BY <3>1, <3>3, <3>4 DEF more
  <2>4. CASE n # 0
    <3>1. PICK f : /\ FlattenSeq(ss) = f[n]
                   /\ \A i \in 1 .. n : f[i] = IF i = 1 THEN ss[i] ELSE f[i - 1] \o ss[i]
      BY <1>2, <2>4, FlattenSteps
    <3> DEFINE Same == {k \in 0 .. n : k = 0 \/ f[k] = g[k]}
    <3>2. 0 \in Same
      BY <2>1
    <3>3. ASSUME NEW k \in 1 .. n, k - 1 \in Same PROVE k \in Same
      <4>1. CASE k = 1
        BY <2>1, <2>2, <3>1, <4>1
      <4>2. CASE k # 1
        <5>1. k - 1 \in 1 .. n /\ k \in 1 .. n + 1 /\ f[k - 1] = g[k - 1]
          BY <2>1, <3>3, <4>2
        <5>2. f[k] = f[k - 1] \o ss[k] /\ g[k] = g[k - 1] \o more[k] /\ more[k] = ss[k]
          BY <2>1, <2>2, <3>1, <4>2, <5>1
        <5>3. f[k] = g[k] /\ k \in 0 .. n
          BY <2>1, <5>1, <5>2
        <5> QED
          BY <5>3
      <4> QED
        BY <4>1, <4>2
    <3> HIDE DEF Same
    <3>4. 0 .. n \subseteq Same
      BY <2>1, <3>2, <3>3, UpTo
    <3>5. f[n] = g[n]
      <4>1. n \in Same
        BY <2>1, <3>4
      <4> QED
        BY <2>4, <4>1 DEF Same
    <3>6. g[n + 1] = g[n] \o e
      <4>1. n + 1 \in 1 .. n + 1 /\ n + 1 # 1 /\ (n + 1) - 1 = n
        BY <2>1, <2>4
      <4> QED
        BY <2>1, <2>2, <4>1
    <3> QED
      BY <2>2, <3>1, <3>5, <3>6 DEF more
  <2> QED
    BY <2>3, <2>4
<1> QED
  BY <1>1, <1>2

(* Of no events nothing is written, and of one more it is written last; so *)
(* with what is collected and with what is heard.                          *)
LEMMA WriteAllAppend ==
  ASSUME NEW format, NEW w, NEW s, IsSeq(s)
  PROVE  /\ WriteAll(format, w, <<>>) = w
         /\ \A e : WriteAll(format, w, Append(s, e)) = WriteEvent(format, WriteAll(format, w, s), e)
<1>1. WriteAll(format, w, <<>>) = w
  <2>1. DOMAIN <<>> = 1 .. 0 /\ 0 \in Nat
    OBVIOUS
  <2>2. WrittenInSteps(format, w, <<>>, 0)
    BY <2>1, WrittenSteps
  <2> QED
    BY <2>2 DEF WrittenInSteps
<1>2. ASSUME NEW e PROVE WriteAll(format, w, Append(s, e)) = WriteEvent(format, WriteAll(format, w, s), e)
  <2> DEFINE more == Append(s, e)
             n == Len(s)
  <2>1. /\ DOMAIN more = 1 .. n + 1 /\ n \in Nat /\ DOMAIN s = 1 .. n /\ n + 1 \in Nat
        /\ \A i \in 1 .. n : more[i] = s[i]
        /\ more[n + 1] = e
    BY AppendShape
  <2> HIDE DEF more
  <2>2. PICK f : /\ f[0] = w /\ WriteAll(format, w, s) = f[n]
                 /\ \A k \in 1 .. n : f[k] = WriteEvent(format, f[k - 1], s[k])
    <3>1. WrittenInSteps(format, w, s, n)
      BY <2>1, WrittenSteps
    <3> QED
      BY <3>1 DEF WrittenInSteps
  <2>3. PICK g : /\ g[0] = w /\ WriteAll(format, w, more) = g[n + 1]
                 /\ \A k \in 1 .. n + 1 : g[k] = WriteEvent(format, g[k - 1], more[k])
    <3>1. WrittenInSteps(format, w, more, n + 1)
      BY <2>1, WrittenSteps
    <3> QED
      BY <3>1 DEF WrittenInSteps
  <2> DEFINE Same == {k \in 0 .. n : f[k] = g[k]}
  <2>4. 0 \in Same
    BY <2>1, <2>2, <2>3
  <2>5. ASSUME NEW k \in 1 .. n, k - 1 \in Same PROVE k \in Same
    <3>1. k \in 1 .. n + 1 /\ f[k - 1] = g[k - 1] /\ more[k] = s[k]
      BY <2>1, <2>5
    <3> QED
      BY <2>2, <2>3, <3>1
  <2> HIDE DEF Same
  <2>6. 0 .. n \subseteq Same
    BY <2>1, <2>4, <2>5, UpTo
  <2>7. f[n] = g[n]
    BY <2>1, <2>6 DEF Same
  <2>8. g[n + 1] = WriteEvent(format, g[n], e)
    <3>1. n + 1 \in 1 .. n + 1 /\ (n + 1) - 1 = n
      BY <2>1
    <3> QED
      BY <2>1, <2>3, <3>1
  <2> QED
    BY <2>2, <2>3, <2>7, <2>8 DEF more
<1> QED
  BY <1>1, <1>2

LEMMA CollectAllAppend ==
  ASSUME NEW w
  PROVE  /\ CollectAll(w, <<>>) = w
         /\ \A e : CollectAll(w, <<e>>) = Collect(w, e)
<1>1. CollectAll(w, <<>>) = w
  <2>1. DOMAIN <<>> = 1 .. 0 /\ 0 \in Nat
    OBVIOUS
  <2>2. CollectedInSteps(w, <<>>, 0)
    BY <2>1, CollectedSteps
  <2> QED
    BY <2>2 DEF CollectedInSteps
<1>2. ASSUME NEW e PROVE CollectAll(w, <<e>>) = Collect(w, e)
  <2>1. DOMAIN <<e>> = 1 .. 1 /\ 1 \in Nat /\ <<e>>[1] = e
    OBVIOUS
  <2>2. PICK g : /\ g[0] = w /\ CollectAll(w, <<e>>) = g[1]
                 /\ \A k \in 1 .. 1 : g[k] = Collect(g[k - 1], <<e>>[k])
    <3>1. CollectedInSteps(w, <<e>>, 1)
      BY <2>1, CollectedSteps
    <3> QED
      BY <3>1 DEF CollectedInSteps
  <2>3. g[1] = Collect(g[0], e)
    BY <2>1, <2>2
  <2> QED
    BY <2>2, <2>3
<1> QED
  BY <1>1, <1>2

LEMMA HeardAppend ==
  ASSUME NEW format, NEW s, IsSeq(s), NEW e
  PROVE  /\ HeardFrom(format, <<>>) = Silence
         /\ HeardFrom(format, Append(s, e)) = Read(format, HeardFrom(format, s), e)
<1>1. HeardFrom(format, <<>>) = Silence
  <2>1. DOMAIN <<>> = 1 .. 0 /\ 0 \in Nat
    OBVIOUS
  <2>2. \E g : g[0] = Silence /\ HeardFrom(format, <<>>) = g[0]
    <3>1. HeardInSteps(format, <<>>, 0)
      BY <2>1, HeardSteps
    <3> QED
      BY <3>1 DEF HeardInSteps
  <2> QED
    BY <2>2
<1>2. HeardFrom(format, Append(s, e)) = Read(format, HeardFrom(format, s), e)
  <2> DEFINE more == Append(s, e)
             n == Len(s)
  <2>1. /\ DOMAIN more = 1 .. n + 1 /\ n \in Nat /\ DOMAIN s = 1 .. n /\ n + 1 \in Nat
        /\ \A i \in 1 .. n : more[i] = s[i]
        /\ more[n + 1] = e
    BY AppendShape
  <2> HIDE DEF more
  <2>2. PICK f : /\ f[0] = Silence /\ HeardFrom(format, s) = f[n]
                 /\ \A k \in 1 .. n : f[k] = Read(format, f[k - 1], s[k])
    <3>1. HeardInSteps(format, s, n)
      BY <2>1, HeardSteps
    <3> QED
      BY <3>1 DEF HeardInSteps
  <2>3. PICK g : /\ g[0] = Silence /\ HeardFrom(format, more) = g[n + 1]
                 /\ \A k \in 1 .. n + 1 : g[k] = Read(format, g[k - 1], more[k])
    <3>1. HeardInSteps(format, more, n + 1)
      BY <2>1, HeardSteps
    <3> QED
      BY <3>1 DEF HeardInSteps
  <2> DEFINE Same == {k \in 0 .. n : f[k] = g[k]}
  <2>4. 0 \in Same
    BY <2>1, <2>2, <2>3
  <2>5. ASSUME NEW k \in 1 .. n, k - 1 \in Same PROVE k \in Same
    <3>1. k \in 1 .. n + 1 /\ f[k - 1] = g[k - 1] /\ more[k] = s[k]
      BY <2>1, <2>5
    <3> QED
      BY <2>2, <2>3, <3>1
  <2> HIDE DEF Same
  <2>6. 0 .. n \subseteq Same
    BY <2>1, <2>4, <2>5, UpTo
  <2>7. f[n] = g[n]
    BY <2>1, <2>6 DEF Same
  <2>8. g[n + 1] = Read(format, g[n], e)
    <3>1. n + 1 \in 1 .. n + 1 /\ (n + 1) - 1 = n
      BY <2>1
    <3> QED
      BY <2>1, <2>3, <3>1
  <2> QED
    BY <2>2, <2>3, <2>7, <2>8 DEF more
<1> QED
  BY <1>1, <1>2

-----------------------------------------------------------------------------
(* The contents of an answer: of one kind, and what they come to.          *)

ContentOK(item) == DOMAIN item = {"kind", "tool", "name", "pieces"} /\ IsSeq(item.pieces)

LEMMA ContentsAre ==
  /\ ContentsOK(<<>>)
  /\ \A items : ContentsOK(items) <=> IsSeq(items) /\ \A i \in DOMAIN items : ContentOK(items[i])
  /\ \A kind, tool, name, pieces : IsSeq(pieces) => ContentOK(Content(kind, tool, name, pieces))
  /\ \A items, item : ContentsOK(items) /\ ContentOK(item) => ContentsOK(Append(items, item))
<1>1. ContentsOK(<<>>)
  BY ShortShape DEF ContentsOK
<1>2. \A items : ContentsOK(items) <=> IsSeq(items) /\ \A i \in DOMAIN items : ContentOK(items[i])
  BY DEF ContentsOK, ContentOK
<1>3. \A kind, tool, name, pieces : IsSeq(pieces) => ContentOK(Content(kind, tool, name, pieces))
  BY DEF ContentOK, Content
<1>4. ASSUME NEW items, NEW item, ContentsOK(items), ContentOK(item)
      PROVE  ContentsOK(Append(items, item))
  <2> DEFINE more == Append(items, item)
  <2>1. /\ IsSeq(more) /\ DOMAIN items = 1 .. Len(items) /\ Len(items) \in Nat
        /\ DOMAIN more = 1 .. Len(items) + 1
        /\ \A i \in DOMAIN items : more[i] = items[i]
        /\ more[Len(items) + 1] = item
    BY <1>2, <1>4, AppendShape
  <2> HIDE DEF more
  <2>2. \A i \in DOMAIN more : i \in DOMAIN items \/ i = Len(items) + 1
    BY <2>1
  <2>3. \A i \in DOMAIN more : ContentOK(more[i])
    BY <1>2, <1>4, <2>1, <2>2
  <2> QED
    BY <1>2, <2>1, <2>3 DEF more
<1> QED
  BY <1>1, <1>2, <1>3, <1>4

LEMMA StartContents ==
  ASSUME NEW items, ContentsOK(items)
  PROVE  /\ \A k \in 0 .. Len(items) : ContentsOK(Start(items, k))
         /\ \A k \in 1 .. Len(items) :
              /\ ContentsOK(Start(items, k - 1)) /\ IsSeq(Start(items, k - 1))
              /\ Start(items, k) = Append(Start(items, k - 1), items[k])
              /\ k - 1 \in 0 .. Len(items) /\ k \in 0 .. Len(items)
              /\ k \in DOMAIN items /\ ContentOK(items[k]) /\ 1 .. k = (1 .. k - 1) \cup {k}
<1>0. IsSeq(items) /\ DOMAIN items = 1 .. Len(items) /\ Len(items) \in Nat
  BY SeqShape, ContentsAre
<1>1. ASSUME NEW k \in 0 .. Len(items) PROVE ContentsOK(Start(items, k))
  <2>1. IsSeq(Start(items, k)) /\ DOMAIN Start(items, k) = 1 .. k
    BY <1>0, StartIs
  <2>2. \A i \in 1 .. k : Start(items, k)[i] = items[i] /\ i \in DOMAIN items
    BY <1>0 DEF Start
  <2> QED
    BY <2>1, <2>2, ContentsAre
<1>2. \A k \in 1 .. Len(items) :
        k - 1 \in 0 .. Len(items) /\ k \in 0 .. Len(items) /\ k \in DOMAIN items /\ 1 .. k = (1 .. k - 1) \cup {k}
  BY <1>0
<1>3. \A k \in 1 .. Len(items) : Start(items, k) = Append(Start(items, k - 1), items[k])
  BY <1>0, StartIs
<1>4. \A i \in DOMAIN items : ContentOK(items[i])
  BY ContentsAre
<1> QED
  BY <1>1, <1>2, <1>3, <1>4, ContentsAre

(* The pieces of an answer's items, and of one item more.                  *)
LEMMA PiecesAppend ==
  /\ PiecesOf(<<>>) = <<>>
  /\ \A items : ContentsOK(items) => IsSeq(PiecesOf(items))
  /\ \A items, item : ContentsOK(items) /\ ContentOK(item) =>
       PiecesOf(Append(items, item)) = PiecesOf(items) \o item.pieces
<1> DEFINE All(items) == [i \in DOMAIN items |-> items[i].pieces]
<1>1. PiecesOf(<<>>) = <<>>
  <2>1. All(<<>>) = <<>>
    OBVIOUS
  <2> QED
    BY <2>1, FlattenAppend DEF PiecesOf
<1>2. ASSUME NEW items, ContentsOK(items)
      PROVE  IsSeq(All(items)) /\ Len(All(items)) = Len(items) /\ \A i \in DOMAIN All(items) : IsSeq(All(items)[i])
  <2>1. DOMAIN items = 1 .. Len(items) /\ Len(items) \in Nat
    BY <1>2, SeqShape DEF ContentsOK
  <2>2. DOMAIN All(items) = 1 .. Len(items) /\ All(items) = [i \in 1 .. Len(items) |-> All(items)[i]]
    BY <2>1
  <2>3. \A i \in DOMAIN All(items) : IsSeq(All(items)[i])
    BY <1>2 DEF ContentsOK
  <2> HIDE DEF All
  <2> QED
    BY <2>1, <2>2, <2>3, SeqShape
<1>3. ASSUME NEW items, ContentsOK(items) PROVE IsSeq(PiecesOf(items))
  <2>1. PiecesOf(items) = FlattenSeq(All(items))
    BY DEF PiecesOf
  <2> HIDE DEF All
  <2>2. IsSeq(FlattenSeq(All(items)))
    BY <1>2, <1>3, FlattenShape
  <2> QED
    BY <2>1, <2>2
<1>4. ASSUME NEW items, NEW item, ContentsOK(items), ContentOK(item)
      PROVE  PiecesOf(Append(items, item)) = PiecesOf(items) \o item.pieces
  <2> DEFINE more == Append(items, item)
  <2>1. /\ IsSeq(more) /\ DOMAIN items = 1 .. Len(items) /\ Len(items) \in Nat
        /\ DOMAIN more = 1 .. Len(items) + 1 /\ Len(more) = Len(items) + 1
        /\ \A i \in DOMAIN items : more[i] = items[i]
        /\ more[Len(items) + 1] = item
    BY <1>4, ContentsAre, AppendShape
  <2>2. ContentsOK(more) /\ IsSeq(item.pieces)
    BY <1>4, ContentsAre DEF ContentOK
  <2>3. IsSeq(All(items)) /\ Len(All(items)) = Len(items) /\ IsSeq(All(more)) /\ Len(All(more)) = Len(items) + 1
        /\ \A i \in DOMAIN All(items) : IsSeq(All(items)[i])
    <3> HIDE DEF All, more
    <3> QED
      BY <1>2, <1>4, <2>1, <2>2
  <2> DEFINE longer == Append(All(items), item.pieces)
  <2>4. /\ IsSeq(longer) /\ Len(longer) = Len(items) + 1
        /\ \A i \in 1 .. Len(items) : longer[i] = All(items)[i]
        /\ longer[Len(items) + 1] = item.pieces
        /\ DOMAIN longer = 1 .. Len(items) + 1
    <3> HIDE DEF All
    <3>1. DOMAIN All(items) = 1 .. Len(items)
      BY <2>3, SeqShape
    <3> QED
      BY <2>3, <3>1, AppendShape
  <2>5. All(more) = longer
    <3>1. \A i \in DOMAIN longer : longer[i] = All(more)[i]
      <4>1. \A i \in 1 .. Len(items) : All(more)[i] = items[i].pieces /\ All(items)[i] = items[i].pieces
        <5> HIDE DEF more
        <5> QED
          BY <2>1
      <4>2. All(more)[Len(items) + 1] = item.pieces
        <5> HIDE DEF more
        <5> QED
          BY <2>1
      <4>3. \A i \in DOMAIN longer : i \in 1 .. Len(items) \/ i = Len(items) + 1
        <5> HIDE DEF longer
        <5> QED
          BY <2>1, <2>4
      <4> HIDE DEF longer, All, more
      <4> QED
        BY <2>4, <4>1, <4>2, <4>3
    <3> HIDE DEF longer, All, more
    <3> QED
      BY <2>3, <2>4, <3>1, SameSeq
  <2>6. FlattenSeq(longer) = FlattenSeq(All(items)) \o item.pieces
    <3> HIDE DEF All
    <3> QED
      BY <2>2, <2>3, FlattenAppend
  <2>7. PiecesOf(more) = FlattenSeq(All(more)) /\ PiecesOf(items) = FlattenSeq(All(items))
    <3> HIDE DEF more
    <3> QED
      BY DEF PiecesOf
  <2> HIDE DEF All, longer
  <2> QED
    BY <2>5, <2>6, <2>7
<1> QED
  BY <1>1, <1>3, <1>4

(* The items of one kind, and with one item more.                          *)
LEMMA OfKindAppend ==
  ASSUME NEW kind
  PROVE  /\ OfKind(<<>>, kind) = <<>>
         /\ \A items, item : ContentsOK(items) =>
              OfKind(Append(items, item), kind) =
                IF item.kind = kind THEN Append(OfKind(items, kind), item) ELSE OfKind(items, kind)
<1> DEFINE One(item) == IF item.kind = kind THEN <<item>> ELSE <<>>
           All(items) == [i \in DOMAIN items |-> One(items[i])]
<1>1. OfKind(<<>>, kind) = <<>>
  <2>1. All(<<>>) = <<>>
    OBVIOUS
  <2> QED
    BY <2>1, FlattenAppend DEF OfKind
<1>0. \A item : IsSeq(One(item))
  BY ShortShape
<1>2. ASSUME NEW items, IsSeq(items)
      PROVE  IsSeq(All(items)) /\ Len(All(items)) = Len(items) /\ \A i \in DOMAIN All(items) : IsSeq(All(items)[i])
  <2>1. DOMAIN items = 1 .. Len(items) /\ Len(items) \in Nat
    BY <1>2, SeqShape
  <2> HIDE DEF One
  <2>2. DOMAIN All(items) = 1 .. Len(items) /\ All(items) = [i \in 1 .. Len(items) |-> All(items)[i]]
    BY <2>1
  <2>3. \A i \in DOMAIN All(items) : IsSeq(All(items)[i])
    BY <1>0
  <2> HIDE DEF All
  <2> QED
    BY <2>1, <2>2, <2>3, SeqShape
<1>4. ASSUME NEW items, NEW item, ContentsOK(items)
      PROVE  OfKind(Append(items, item), kind) = OfKind(items, kind) \o One(item)
  <2> HIDE DEF One
  <2> DEFINE more == Append(items, item)
  <2>1. /\ IsSeq(more) /\ DOMAIN items = 1 .. Len(items) /\ Len(items) \in Nat /\ IsSeq(items)
        /\ DOMAIN more = 1 .. Len(items) + 1 /\ Len(more) = Len(items) + 1
        /\ \A i \in DOMAIN items : more[i] = items[i]
        /\ more[Len(items) + 1] = item
    BY <1>4, ContentsAre, AppendShape
  <2>3. IsSeq(All(items)) /\ Len(All(items)) = Len(items) /\ IsSeq(All(more)) /\ Len(All(more)) = Len(items) + 1
        /\ \A i \in DOMAIN All(items) : IsSeq(All(items)[i])
    <3> HIDE DEF All, more
    <3> QED
      BY <1>2, <2>1
  <2> DEFINE longer == Append(All(items), One(item))
  <2>4. /\ IsSeq(longer) /\ Len(longer) = Len(items) + 1
        /\ \A i \in 1 .. Len(items) : longer[i] = All(items)[i]
        /\ longer[Len(items) + 1] = One(item)
        /\ DOMAIN longer = 1 .. Len(items) + 1
    <3> HIDE DEF All
    <3>1. DOMAIN All(items) = 1 .. Len(items)
      BY <2>3, SeqShape
    <3> QED
      BY <2>3, <3>1, AppendShape
  <2>5. All(more) = longer
    <3>1. \A i \in DOMAIN longer : longer[i] = All(more)[i]
      <4>1. \A i \in 1 .. Len(items) : All(more)[i] = One(items[i]) /\ All(items)[i] = One(items[i])
        <5> HIDE DEF more
        <5> QED
          BY <2>1
      <4>2. All(more)[Len(items) + 1] = One(item)
        <5> HIDE DEF more
        <5> QED
          BY <2>1
      <4>3. \A i \in DOMAIN longer : i \in 1 .. Len(items) \/ i = Len(items) + 1
        <5> HIDE DEF longer
        <5> QED
          BY <2>1, <2>4
      <4> HIDE DEF longer, All, more
      <4> QED
        BY <2>4, <4>1, <4>2, <4>3
    <3> HIDE DEF longer, All, more
    <3> QED
      BY <2>3, <2>4, <3>1, SameSeq
  <2>6. FlattenSeq(longer) = FlattenSeq(All(items)) \o One(item)
    <3> HIDE DEF All
    <3> QED
      BY <1>0, <2>3, FlattenAppend
  <2>7. OfKind(more, kind) = FlattenSeq(All(more)) /\ OfKind(items, kind) = FlattenSeq(All(items))
    <3> HIDE DEF more
    <3> QED
      BY DEF OfKind, One
  <2> HIDE DEF All, longer
  <2> QED
    BY <2>5, <2>6, <2>7
<1>5. \A items : ContentsOK(items) => IsSeq(OfKind(items, kind))
  BY OfKindShape, ContentsAre
<1>6. ASSUME NEW items, NEW item, ContentsOK(items)
      PROVE  OfKind(Append(items, item), kind) =
               IF item.kind = kind THEN Append(OfKind(items, kind), item) ELSE OfKind(items, kind)
  <2> DEFINE s == OfKind(items, kind)
  <2>1. IsSeq(s) /\ OfKind(Append(items, item), kind) = s \o One(item)
    BY <1>4, <1>5, <1>6
  <2> HIDE DEF s
  <2>2. s \o <<>> = s /\ s \o <<item>> = Append(s, item)
    BY <2>1, ConcatIs
  <2> QED
    BY <2>1, <2>2 DEF s
<1> QED
  BY <1>1, <1>6

(* A sequence with another element at one place.                           *)
Replaced(s, j, y) == [s EXCEPT ![j] = y]

(* One element of a sequence replaced, before and after one more is added. *)
LEMMA ReplaceShape ==
  ASSUME NEW s, IsSeq(s), NEW j, NEW y
  PROVE  /\ IsSeq(Replaced(s, j, y)) /\ Len(Replaced(s, j, y)) = Len(s)
         /\ DOMAIN Replaced(s, j, y) = DOMAIN s
         /\ \A i \in DOMAIN s : Replaced(s, j, y)[i] = IF i = j THEN y ELSE s[i]
<1> DEFINE t == Replaced(s, j, y)
<1>0. DOMAIN s = 1 .. Len(s) /\ Len(s) \in Nat
  BY SeqShape
<1>1. /\ DOMAIN t = 1 .. Len(s) /\ t = [i \in 1 .. Len(s) |-> t[i]]
      /\ \A i \in DOMAIN s : t[i] = IF i = j THEN y ELSE s[i]
  BY <1>0 DEF Replaced
<1> HIDE DEF t
<1>2. IsSeq(t) /\ Len(t) = Len(s)
  BY <1>0, <1>1, SeqShape
<1> QED
  BY <1>0, <1>1, <1>2 DEF t

LEMMA ReplaceLast ==
  ASSUME NEW s, IsSeq(s), NEW x, NEW y
  PROVE  Replaced(Append(s, x), Len(s) + 1, y) = Append(s, y)
<1>0. /\ DOMAIN s = 1 .. Len(s) /\ Len(s) \in Nat
      /\ IsSeq(Append(s, x)) /\ Len(Append(s, x)) = Len(s) + 1 /\ DOMAIN Append(s, x) = 1 .. Len(s) + 1
      /\ \A i \in DOMAIN s : Append(s, x)[i] = s[i]
      /\ Append(s, x)[Len(s) + 1] = x
  BY AppendShape
<1>1. Replaced(Append(s, x), Len(s) + 1, y) = Append(s, y)
  <2> DEFINE l == Append(s, x)
             t == Replaced(l, Len(s) + 1, y)
             r == Append(s, y)
  <2>1. /\ IsSeq(r) /\ Len(r) = Len(s) + 1
        /\ \A i \in DOMAIN s : r[i] = s[i]
        /\ r[Len(s) + 1] = y
    BY AppendShape
  <2>2. /\ IsSeq(t) /\ Len(t) = Len(s) + 1 /\ DOMAIN t = 1 .. Len(s) + 1
        /\ \A i \in 1 .. Len(s) + 1 : t[i] = IF i = Len(s) + 1 THEN y ELSE l[i]
    <3>1. IsSeq(l) /\ Len(l) = Len(s) + 1 /\ DOMAIN l = 1 .. Len(s) + 1
      BY <1>0
    <3> HIDE DEF l
    <3>2. /\ IsSeq(t) /\ Len(t) = Len(l) /\ DOMAIN t = DOMAIN l
          /\ \A i \in DOMAIN l : t[i] = IF i = Len(s) + 1 THEN y ELSE l[i]
      BY <3>1, ReplaceShape
    <3> HIDE DEF t
    <3> QED
      BY <3>1, <3>2
  <2>3. \A i \in DOMAIN t : t[i] = r[i]
    <3> HIDE DEF r, t
    <3> QED
      BY <1>0, <2>1, <2>2
  <2> HIDE DEF t, r
  <2>4. t = r
    BY <2>1, <2>2, <2>3, SameSeq
  <2> QED
    BY <2>4 DEF t, r
<1> QED
  BY <1>1

LEMMA ReplaceBefore ==
  ASSUME NEW s, IsSeq(s), NEW j \in DOMAIN s, NEW x, NEW y
  PROVE  /\ Replaced(Append(s, x), j, y) = Append(Replaced(s, j, y), x)
         /\ j \in DOMAIN Append(s, x) /\ Append(s, x)[j] = s[j]
<1>0. /\ DOMAIN s = 1 .. Len(s) /\ Len(s) \in Nat
      /\ IsSeq(Append(s, x)) /\ Len(Append(s, x)) = Len(s) + 1 /\ DOMAIN Append(s, x) = 1 .. Len(s) + 1
      /\ \A i \in DOMAIN s : Append(s, x)[i] = s[i]
      /\ Append(s, x)[Len(s) + 1] = x
  BY AppendShape
<1>1. Replaced(Append(s, x), j, y) = Append(Replaced(s, j, y), x)
  <2> DEFINE l == Append(s, x)
             t == Replaced(l, j, y)
             u == Replaced(s, j, y)
             r == Append(u, x)
  <2>0. IsSeq(u) /\ Len(u) = Len(s) /\ DOMAIN u = DOMAIN s /\ \A i \in DOMAIN s : u[i] = IF i = j THEN y ELSE s[i]
    BY ReplaceShape
  <2>1. /\ IsSeq(r) /\ Len(r) = Len(s) + 1
        /\ \A i \in DOMAIN s : r[i] = u[i]
        /\ r[Len(s) + 1] = x
    <3> HIDE DEF u
    <3> QED
      BY <2>0, AppendShape
  <2>2. /\ IsSeq(t) /\ Len(t) = Len(s) + 1 /\ DOMAIN t = 1 .. Len(s) + 1
        /\ \A i \in 1 .. Len(s) + 1 : t[i] = IF i = j THEN y ELSE l[i]
    <3>1. IsSeq(l) /\ Len(l) = Len(s) + 1 /\ DOMAIN l = 1 .. Len(s) + 1
      BY <1>0
    <3> HIDE DEF l
    <3>2. /\ IsSeq(t) /\ Len(t) = Len(l) /\ DOMAIN t = DOMAIN l
          /\ \A i \in DOMAIN l : t[i] = IF i = j THEN y ELSE l[i]
      BY <3>1, ReplaceShape
    <3> HIDE DEF t
    <3> QED
      BY <3>1, <3>2
  <2>3. \A i \in DOMAIN t : t[i] = r[i]
    <3> HIDE DEF r, t, u
    <3>1. j # Len(s) + 1
      BY <1>0
    <3> QED
      BY <1>0, <2>0, <2>1, <2>2, <3>1
  <2> HIDE DEF t, r
  <2>4. t = r
    BY <2>1, <2>2, <2>3, SameSeq
  <2> QED
    BY <2>4 DEF t, r
<1> QED
  BY <1>0, <1>1

(* The place of an item among those of its kind.                           *)
Place(items, at) == Len(OfKind(Start(items, at - 1), items[at].kind)) + 1

(* An item of a kind is among those of the kind, where it is replaced when *)
(* it is by another of the kind; of what else there is nothing changes.    *)
LEMMA ReplaceOfKind ==
  ASSUME NEW items, ContentsOK(items), NEW at \in DOMAIN items,
         NEW y, ContentOK(y), y.kind = items[at].kind, NEW kind
  PROVE  LET changed == Replaced(items, at, y) IN
         /\ ContentsOK(changed)
         /\ kind # y.kind => OfKind(changed, kind) = OfKind(items, kind)
         /\ kind = y.kind =>
              /\ Place(items, at) \in DOMAIN OfKind(items, kind)
              /\ OfKind(items, kind)[Place(items, at)] = items[at]
              /\ OfKind(changed, kind) = Replaced(OfKind(items, kind), Place(items, at), y)
              /\ at = Len(items) => Place(items, at) = Len(OfKind(items, kind))
<1> DEFINE changed == Replaced(items, at, y)
           n == Len(items)
           s(k) == OfKind(Start(items, k), kind)
           t(k) == OfKind(Start(changed, k), kind)
<1>0. IsSeq(items) /\ DOMAIN items = 1 .. n /\ n \in Nat
  BY SeqShape, ContentsAre
<1>1. /\ IsSeq(changed) /\ Len(changed) = n /\ DOMAIN changed = 1 .. n
      /\ \A i \in 1 .. n : changed[i] = IF i = at THEN y ELSE items[i]
  BY <1>0, ReplaceShape
<1> HIDE DEF changed
<1>2. ContentsOK(changed)
  <2>1. \A i \in DOMAIN items : ContentOK(items[i])
    BY ContentsAre
  <2>2. \A i \in DOMAIN changed : ContentOK(changed[i])
    BY <1>0, <1>1, <2>1
  <2> QED
    BY <1>1, <2>2, ContentsAre
<1>3. /\ s(0) = <<>> /\ t(0) = <<>>
      /\ s(n) = OfKind(items, kind) /\ t(n) = OfKind(changed, kind)
      /\ \A k \in 0 .. n : IsSeq(s(k)) /\ IsSeq(t(k))
      /\ \A k \in 1 .. n : /\ s(k) = IF items[k].kind = kind THEN Append(s(k - 1), items[k]) ELSE s(k - 1)
                           /\ t(k) = IF changed[k].kind = kind THEN Append(t(k - 1), changed[k]) ELSE t(k - 1)
  <2>1. Start(items, 0) = <<>> /\ Start(changed, 0) = <<>> /\ Start(items, n) = items /\ Start(changed, n) = changed
    BY <1>0, <1>1, StartIs
  <2>2. \A k \in 0 .. n : ContentsOK(Start(items, k)) /\ ContentsOK(Start(changed, k))
    BY <1>1, <1>2, StartContents
  <2>3. \A k \in 0 .. n : IsSeq(s(k)) /\ IsSeq(t(k))
    BY <2>2, OfKindShape, ContentsAre
  <2>4. ASSUME NEW k \in 1 .. n
        PROVE  /\ s(k) = IF items[k].kind = kind THEN Append(s(k - 1), items[k]) ELSE s(k - 1)
               /\ t(k) = IF changed[k].kind = kind THEN Append(t(k - 1), changed[k]) ELSE t(k - 1)
    <3>1. Start(items, k) = Append(Start(items, k - 1), items[k])
          /\ Start(changed, k) = Append(Start(changed, k - 1), changed[k])
      BY <1>0, <1>1, StartIs
    <3>2. ContentsOK(Start(items, k - 1)) /\ ContentsOK(Start(changed, k - 1))
      <4>1. k - 1 \in 0 .. n
        BY <1>0
      <4> QED
        BY <2>2, <4>1
    <3>3. /\ OfKind(Append(Start(items, k - 1), items[k]), kind) =
               IF items[k].kind = kind THEN Append(OfKind(Start(items, k - 1), kind), items[k])
               ELSE OfKind(Start(items, k - 1), kind)
          /\ OfKind(Append(Start(changed, k - 1), changed[k]), kind) =
               IF changed[k].kind = kind THEN Append(OfKind(Start(changed, k - 1), kind), changed[k])
               ELSE OfKind(Start(changed, k - 1), kind)
      BY <3>2, OfKindAppend
    <3> QED
      BY <3>1, <3>3
  <2> QED
    BY <2>1, <2>3, <2>4, OfKindAppend
<1> HIDE DEF s, t
<1>4. \A k \in 0 .. at - 1 : s(k) = t(k)
  <2> DEFINE Same == {k \in 0 .. n : k < at => s(k) = t(k)}
  <2>1. 0 \in Same
    BY <1>0, <1>3
  <2>2. ASSUME NEW k \in 1 .. n, k - 1 \in Same PROVE k \in Same
    <3>1. k \in 0 .. n /\ (k < at => k - 1 < at /\ k # at)
      BY <1>0
    <3>2. k < at => s(k) = t(k)
      BY <1>0, <1>1, <1>3, <2>2, <3>1
    <3> QED
      BY <3>1, <3>2
  <2> HIDE DEF Same
  <2>3. 0 .. n \subseteq Same
    BY <1>0, <2>1, <2>2, UpTo
  <2> QED
    BY <1>0, <2>3 DEF Same
<1>5. kind # y.kind => OfKind(changed, kind) = OfKind(items, kind)
  <2> HAVE kind # y.kind
  <2> DEFINE Same == {k \in 0 .. n : s(k) = t(k)}
  <2>1. 0 \in Same
    BY <1>0, <1>3
  <2>2. ASSUME NEW k \in 1 .. n, k - 1 \in Same PROVE k \in Same
    <3>1. s(k) = t(k)
      BY <1>1, <1>3, <2>2
    <3> QED
      BY <3>1
  <2> HIDE DEF Same
  <2>3. 0 .. n \subseteq Same
    BY <1>0, <2>1, <2>2, UpTo
  <2>4. s(n) = t(n)
    BY <1>0, <2>3 DEF Same
  <2> QED
    BY <1>3, <2>4
<1>6. kind = y.kind =>
        /\ Place(items, at) \in DOMAIN OfKind(items, kind)
        /\ OfKind(items, kind)[Place(items, at)] = items[at]
        /\ OfKind(changed, kind) = Replaced(OfKind(items, kind), Place(items, at), y)
        /\ at = n => Place(items, at) = Len(OfKind(items, kind))
  <2> HAVE kind = y.kind
  <2> DEFINE before == s(at - 1)
             j == Len(before) + 1
             Fine(k) == /\ j \in DOMAIN s(k) /\ s(k)[j] = items[at]
                        /\ t(k) = Replaced(s(k), j, y)
             T == {k \in 0 .. n : k >= at => Fine(k)}
  <2>1. at \in 1 .. n /\ at - 1 \in 0 .. n /\ at - 1 \in 0 .. at - 1
    BY <1>0
  <2>2. IsSeq(before) /\ t(at - 1) = before
    BY <1>3, <1>4, <2>1
  <2>3. s(at) = Append(before, items[at]) /\ t(at) = Append(before, y)
    BY <1>1, <1>3, <2>1, <2>2
  <2>0. Place(items, at) = j
    BY DEF Place, s
  <2> HIDE DEF before
  <2>4. /\ DOMAIN s(at) = 1 .. Len(before) + 1 /\ Len(before) \in Nat
        /\ s(at)[Len(before) + 1] = items[at] /\ Len(s(at)) = Len(before) + 1
        /\ Replaced(s(at), Len(before) + 1, y) = Append(before, y)
    BY <2>2, <2>3, AppendShape, ReplaceLast
  <2>5. Fine(at)
    BY <2>3, <2>4
  <2> HIDE DEF j
  <2>6. 0 \in T
    BY <1>0, <2>1
  <2>7. ASSUME NEW k \in 1 .. n, k - 1 \in T PROVE k \in T
    <3>1. CASE k < at
      BY <1>0, <3>1
    <3>2. CASE k = at
      BY <2>1, <2>5, <3>2
    <3>3. CASE k > at
      <4>1. k - 1 >= at /\ k - 1 \in 0 .. n /\ k # at
        BY <1>0, <3>3
      <4>2. Fine(k - 1)
        BY <2>7, <4>1
      <4>3. IsSeq(s(k - 1)) /\ changed[k] = items[k]
        BY <1>1, <1>3, <4>1
      <4>4. CASE items[k].kind = kind
        <5>1. s(k) = Append(s(k - 1), items[k]) /\ t(k) = Append(t(k - 1), items[k])
          BY <1>3, <4>3, <4>4
        <5> DEFINE u == s(k - 1)
        <5>2. IsSeq(u) /\ j \in DOMAIN u
          BY <4>2, <4>3
        <5> HIDE DEF u
        <5> DEFINE z == items[k]
        <5> HIDE DEF z
        <5>4. /\ Replaced(Append(u, z), j, y) = Append(Replaced(u, j, y), z)
              /\ j \in DOMAIN Append(u, z) /\ Append(u, z)[j] = u[j]
          BY <5>2, ReplaceBefore
        <5>6. Fine(k)
          BY <4>2, <5>1, <5>4 DEF u, z
        <5> QED
          BY <5>6
      <4>5. CASE items[k].kind # kind
        <5>1. s(k) = s(k - 1) /\ t(k) = t(k - 1)
          BY <1>3, <4>3, <4>5
        <5> QED
          BY <4>2, <5>1
      <4> QED
        BY <4>4, <4>5
    <3> QED
      BY <1>0, <2>1, <3>1, <3>2, <3>3
  <2> HIDE DEF T
  <2>8. 0 .. n \subseteq T
    BY <1>0, <2>6, <2>7, UpTo
  <2>9. Fine(n)
    BY <1>0, <2>1, <2>8 DEF T
  <2>10. at = n => j = Len(s(n))
    BY <2>4 DEF j
  <2> QED
    BY <1>3, <2>0, <2>9, <2>10
<1> QED
  BY <1>2, <1>5, <1>6 DEF changed

(* ... and for the pieces of a sequence whose last item is replaced.       *)
LEMMA ReplaceLastPieces ==
  ASSUME NEW items, ContentsOK(items), Len(items) > 0, NEW y, ContentOK(y), NEW piece,
         y.pieces = Append(items[Len(items)].pieces, piece)
  PROVE  PiecesOf(Replaced(items, Len(items), y)) = Append(PiecesOf(items), piece)
<1> DEFINE n == Len(items)
           before == Start(items, n - 1)
           x == items[n]
<1>0. IsSeq(items) /\ DOMAIN items = 1 .. n /\ n \in Nat /\ n \in 1 .. n /\ n - 1 \in 0 .. n
  BY SeqShape, ContentsAre
<1>1. items = Append(before, x) /\ ContentsOK(before) /\ IsSeq(before) /\ Len(before) = n - 1
  BY <1>0, StartIs, StartContents
<1>2. ContentOK(x)
  BY <1>0, ContentsAre
<1> HIDE DEF before
<1>3. Replaced(items, n, y) = Append(before, y)
  <2>1. Len(before) + 1 = n
    BY <1>0, <1>1
  <2>2. Replaced(Append(before, x), Len(before) + 1, y) = Append(before, y)
    BY <1>1, ReplaceLast
  <2> HIDE DEF n, x
  <2> QED
    BY <1>1, <2>1, <2>2
<1>4. PiecesOf(items) = PiecesOf(before) \o x.pieces /\ PiecesOf(Append(before, y)) = PiecesOf(before) \o y.pieces
  BY <1>1, <1>2, PiecesAppend
<1>5. PiecesOf(before) \o Append(x.pieces, piece) = Append(PiecesOf(before) \o x.pieces, piece)
  <2>1. IsSeq(PiecesOf(before)) /\ IsSeq(x.pieces)
    BY <1>1, <1>2, PiecesAppend DEF ContentOK
  <2> HIDE DEF x
  <2> QED
    BY <2>1, ConcatIs
<1> QED
  BY <1>3, <1>4, <1>5

(* The items of a kind are those items, and only those.                    *)
LEMMA OfKindMembers ==
  ASSUME NEW items, ContentsOK(items), NEW kind
  PROVE  /\ \A p \in DOMAIN OfKind(items, kind) :
              OfKind(items, kind)[p].kind = kind /\ \E i \in DOMAIN items : OfKind(items, kind)[p] = items[i]
         /\ \A i \in DOMAIN items : items[i].kind = kind =>
              \E p \in DOMAIN OfKind(items, kind) : OfKind(items, kind)[p] = items[i]
<1> DEFINE n == Len(items)
           s(k) == OfKind(Start(items, k), kind)
           Fine(k) == /\ \A p \in DOMAIN s(k) : s(k)[p].kind = kind /\ \E i \in 1 .. k : s(k)[p] = items[i]
                      /\ \A i \in 1 .. k : items[i].kind = kind => \E p \in DOMAIN s(k) : s(k)[p] = items[i]
           T == {k \in 0 .. n : Fine(k)}
<1>0. IsSeq(items) /\ DOMAIN items = 1 .. n /\ n \in Nat
  BY SeqShape, ContentsAre
<1>1. s(0) = <<>> /\ s(n) = OfKind(items, kind)
  BY <1>0, StartIs, OfKindAppend
<1>2. 0 \in T
  <2>1. Fine(0)
    <3> HIDE DEF s
    <3> QED
      BY <1>1
  <2> QED
    BY <1>0, <2>1
<1>3. ASSUME NEW k \in 1 .. n, k - 1 \in T PROVE k \in T
  <2>1. ContentsOK(Start(items, k - 1)) /\ Start(items, k) = Append(Start(items, k - 1), items[k])
        /\ k - 1 \in 0 .. n /\ k \in 0 .. n /\ 1 .. k = (1 .. k - 1) \cup {k}
    BY StartContents
  <2>2. OfKind(Append(Start(items, k - 1), items[k]), kind) =
          IF items[k].kind = kind THEN Append(s(k - 1), items[k]) ELSE s(k - 1)
    BY <2>1, OfKindAppend
  <2>3. s(k) = IF items[k].kind = kind THEN Append(s(k - 1), items[k]) ELSE s(k - 1)
    BY <2>1, <2>2
  <2>4. IsSeq(s(k - 1))
    BY <2>1, OfKindShape, ContentsAre
  <2>5. Fine(k - 1)
    BY <1>3
  <2> HIDE DEF s
  <2>6. CASE items[k].kind # kind
    BY <2>1, <2>3, <2>5, <2>6
  <2>7. CASE items[k].kind = kind
    <3> DEFINE u == s(k - 1)
               v == Append(u, items[k])
    <3>1. s(k) = v /\ IsSeq(u)
      BY <2>3, <2>4, <2>7
    <3>2. /\ \A p \in DOMAIN u : u[p].kind = kind /\ \E i \in 1 .. k - 1 : u[p] = items[i]
          /\ \A i \in 1 .. k - 1 : items[i].kind = kind => \E p \in DOMAIN u : u[p] = items[i]
      BY <2>5
    <3> HIDE DEF u
    <3>3. /\ DOMAIN u = 1 .. Len(u) /\ Len(u) \in Nat /\ DOMAIN v = 1 .. Len(u) + 1
          /\ \A p \in DOMAIN u : v[p] = u[p]
          /\ v[Len(u) + 1] = items[k]
      BY <3>1, AppendShape
    <3> HIDE DEF v
    <3>4. ASSUME NEW p \in DOMAIN v PROVE v[p].kind = kind /\ \E i \in 1 .. k : v[p] = items[i]
      <4>1. p \in DOMAIN u \/ p = Len(u) + 1
        BY <3>3
      <4>2. CASE p \in DOMAIN u
        <5>1. v[p] = u[p] /\ u[p].kind = kind /\ \E i \in 1 .. k - 1 : u[p] = items[i]
          BY <3>2, <3>3, <4>2
        <5> QED
          BY <2>1, <5>1
      <4>3. CASE p = Len(u) + 1
        BY <2>1, <2>7, <3>3, <4>3
      <4> QED
        BY <4>1, <4>2, <4>3
    <3>5. ASSUME NEW i \in 1 .. k, items[i].kind = kind PROVE \E p \in DOMAIN v : v[p] = items[i]
      <4>1. CASE i \in 1 .. k - 1
        <5>1. PICK p \in DOMAIN u : u[p] = items[i]
          BY <3>2, <3>5, <4>1
        <5>2. p \in DOMAIN v /\ v[p] = items[i]
          BY <3>3, <5>1
        <5> QED
          BY <5>2
      <4>2. CASE i = k
        <5>1. Len(u) + 1 \in DOMAIN v
          BY <3>3
        <5> QED
          BY <3>3, <4>2, <5>1
      <4> QED
        BY <2>1, <4>1, <4>2
    <3>6. Fine(k)
      BY <3>1, <3>4, <3>5
    <3> HIDE DEF Fine
    <3> QED
      BY <2>1, <3>6
  <2> QED
    BY <2>6, <2>7
<1> HIDE DEF T
<1>4. 0 .. n \subseteq T
  BY <1>0, <1>2, <1>3, UpTo
<1>5. Fine(n)
  <2> HIDE DEF Fine
  <2> QED
    BY <1>0, <1>4 DEF T
<1> HIDE DEF s
<1> QED
  BY <1>0, <1>1, <1>5

(* Items that are all of a kind, or none of them, ...                      *)
LEMMA OfKindAllOrNone ==
  ASSUME NEW items, ContentsOK(items), NEW kind
  PROVE  /\ (\A i \in DOMAIN items : items[i].kind = kind) => OfKind(items, kind) = items
         /\ (\A i \in DOMAIN items : items[i].kind # kind) => OfKind(items, kind) = <<>>
<1> DEFINE n == Len(items)
           s(k) == OfKind(Start(items, k), kind)
           Fine(k) == /\ (\A i \in DOMAIN items : items[i].kind = kind) => s(k) = Start(items, k)
                      /\ (\A i \in DOMAIN items : items[i].kind # kind) => s(k) = <<>>
           T == {k \in 0 .. n : Fine(k)}
<1>0. IsSeq(items) /\ DOMAIN items = 1 .. n /\ n \in Nat
  BY SeqShape, ContentsAre
<1>1. s(0) = <<>> /\ s(n) = OfKind(items, kind) /\ Start(items, 0) = <<>> /\ Start(items, n) = items
  BY <1>0, StartIs, OfKindAppend
<1>2. 0 \in T
  BY <1>0, <1>1
<1>3. ASSUME NEW k \in 1 .. n, k - 1 \in T PROVE k \in T
  <2>1. ContentsOK(Start(items, k - 1)) /\ Start(items, k) = Append(Start(items, k - 1), items[k])
        /\ k - 1 \in 0 .. n /\ k \in DOMAIN items /\ k \in 0 .. n
    BY StartContents
  <2>2. OfKind(Append(Start(items, k - 1), items[k]), kind) =
          IF items[k].kind = kind THEN Append(s(k - 1), items[k]) ELSE s(k - 1)
    BY <2>1, OfKindAppend
  <2>3. s(k) = IF items[k].kind = kind THEN Append(s(k - 1), items[k]) ELSE s(k - 1)
    BY <2>1, <2>2
  <2>5. Fine(k - 1)
    BY <1>3
  <2> HIDE DEF s
  <2>6. Fine(k)
    BY <2>1, <2>3, <2>5
  <2> QED
    BY <2>1, <2>6
<1> HIDE DEF T
<1>4. 0 .. n \subseteq T
  BY <1>0, <1>2, <1>3, UpTo
<1>5. Fine(n)
  <2> HIDE DEF Fine
  <2> QED
    BY <1>0, <1>4 DEF T
<1> HIDE DEF s
<1> QED
  BY <1>0, <1>1, <1>5

(* ... and two answers in a row.                                           *)
LEMMA OfKindConcat ==
  ASSUME NEW s, ContentsOK(s), NEW t, ContentsOK(t), NEW kind
  PROVE  OfKind(s \o t, kind) = OfKind(s, kind) \o OfKind(t, kind)
<1> DEFINE n == Len(t)
           Fine(k) == OfKind(s \o Start(t, k), kind) = OfKind(s, kind) \o OfKind(Start(t, k), kind)
           T == {k \in 0 .. n : Fine(k)}
<1>0. IsSeq(t) /\ DOMAIN t = 1 .. n /\ n \in Nat /\ IsSeq(s)
  BY SeqShape, ContentsAre
<1>1. Start(t, 0) = <<>> /\ Start(t, n) = t
  BY <1>0, StartIs
<1>2. IsSeq(OfKind(s, kind))
  BY OfKindShape, ContentsAre
<1>3. 0 \in T
  <2>1. s \o <<>> = s /\ OfKind(s, kind) \o <<>> = OfKind(s, kind) /\ OfKind(<<>>, kind) = <<>>
    BY <1>0, <1>2, ConcatIs, OfKindAppend
  <2>2. Fine(0)
    BY <1>1, <2>1
  <2> QED
    BY <1>0, <2>2
<1>4. ASSUME NEW k \in 1 .. n, k - 1 \in T PROVE k \in T
  <2> DEFINE u == Start(t, k - 1)
             x == t[k]
  <2>1. ContentsOK(u) /\ Start(t, k) = Append(u, x) /\ IsSeq(u)
        /\ k - 1 \in 0 .. n /\ k \in 0 .. n
    BY StartContents
  <2>2. OfKind(s \o u, kind) = OfKind(s, kind) \o OfKind(u, kind)
    BY <1>4
  <2> HIDE DEF u, x
  <2>3. s \o Append(u, x) = Append(s \o u, x)
    <3>1. IsSeq(s) /\ IsSeq(u)
      BY <1>0, <2>1
    <3> QED
      BY <3>1, ConcatIs
  <2>4. ContentsOK(s \o u) /\ IsSeq(OfKind(u, kind))
    BY <2>1, ContentsConcat, OfKindShape, ContentsAre
  <2>5. /\ OfKind(Append(u, x), kind) =
             IF x.kind = kind THEN Append(OfKind(u, kind), x) ELSE OfKind(u, kind)
        /\ OfKind(Append(s \o u, x), kind) =
             IF x.kind = kind THEN Append(OfKind(s \o u, kind), x) ELSE OfKind(s \o u, kind)
    BY <2>1, <2>4, OfKindAppend
  <2>6. OfKind(s, kind) \o Append(OfKind(u, kind), x) = Append(OfKind(s, kind) \o OfKind(u, kind), x)
    BY <1>2, <2>4, ConcatIs
  <2>7. OfKind(s \o Append(u, x), kind) = OfKind(s, kind) \o OfKind(Append(u, x), kind)
    BY <2>2, <2>3, <2>5, <2>6
  <2> QED
    BY <2>1, <2>7
<1> HIDE DEF T
<1>5. 0 .. n \subseteq T
  BY <1>0, <1>3, <1>4, UpTo
<1>6. Fine(n)
  <2> HIDE DEF Fine
  <2> QED
    BY <1>0, <1>5 DEF T
<1> QED
  BY <1>1, <1>6

(* In whichever order items are taken, they have the same pieces.          *)
LEMMA PiecesRange ==
  ASSUME NEW items, ContentsOK(items)
  PROVE  Range(PiecesOf(items)) = UNION {Range(items[i].pieces) : i \in DOMAIN items}
<1> DEFINE n == Len(items)
           Fine(k) == Range(PiecesOf(Start(items, k))) = UNION {Range(items[i].pieces) : i \in 1 .. k}
           T == {k \in 0 .. n : Fine(k)}
<1>0. IsSeq(items) /\ DOMAIN items = 1 .. n /\ n \in Nat
  BY SeqShape, ContentsAre
<1>1. Start(items, 0) = <<>> /\ Start(items, n) = items
  BY <1>0, StartIs
<1>2. 0 \in T
  <2>1. Range(<<>>) = {}
    BY ShortShape DEF Range
  <2>2. Fine(0)
    BY <1>1, <2>1, PiecesAppend
  <2> QED
    BY <1>0, <2>2
<1>3. ASSUME NEW k \in 1 .. n, k - 1 \in T PROVE k \in T
  <2> DEFINE u == Start(items, k - 1)
             x == items[k]
  <2>1. ContentsOK(u) /\ Start(items, k) = Append(u, x) /\ ContentOK(x)
        /\ k - 1 \in 0 .. n /\ k \in 0 .. n /\ 1 .. k = (1 .. k - 1) \cup {k}
    BY StartContents
  <2>2. Range(PiecesOf(u)) = UNION {Range(items[i].pieces) : i \in 1 .. k - 1}
    BY <1>3
  <2> HIDE DEF u
  <2>3. PiecesOf(Append(u, x)) = PiecesOf(u) \o x.pieces /\ IsSeq(PiecesOf(u)) /\ IsSeq(x.pieces)
    BY <2>1, PiecesAppend DEF ContentOK
  <2>4. \A s, t : IsSeq(s) /\ IsSeq(t) => Range(s \o t) = Range(s) \cup Range(t)
    <3> SUFFICES ASSUME NEW s, NEW t, IsSeq(s), IsSeq(t) PROVE Range(s \o t) = Range(s) \cup Range(t)
      OBVIOUS
    <3> DEFINE S == {s[i] : i \in DOMAIN s} \cup {t[i] : i \in DOMAIN t}
    <3>1. s \in Seq(S) /\ t \in Seq(S)
      BY DEF IsSeq
    <3> HIDE DEF S
    <3>2. /\ DOMAIN (s \o t) = 1 .. Len(s) + Len(t) /\ Len(s) \in Nat /\ Len(t) \in Nat
          /\ DOMAIN s = 1 .. Len(s) /\ DOMAIN t = 1 .. Len(t)
          /\ \A i \in DOMAIN (s \o t) : (s \o t)[i] = IF i <= Len(s) THEN s[i] ELSE t[i - Len(s)]
      BY <3>1
    <3> DEFINE v == s \o t
    <3> HIDE DEF v
    <3>3. \A i \in 1 .. Len(s) : i \in DOMAIN v /\ v[i] = s[i]
      BY <3>2 DEF v
    <3>4. \A i \in 1 .. Len(t) : i + Len(s) \in DOMAIN v /\ v[i + Len(s)] = t[i]
      <4> TAKE i \in 1 .. Len(t)
      <4>1. i + Len(s) \in 1 .. Len(s) + Len(t) /\ ~ (i + Len(s) <= Len(s)) /\ (i + Len(s)) - Len(s) = i
        BY <3>2
      <4> QED
        BY <3>2, <4>1 DEF v
    <3>5. \A i \in DOMAIN v : i \in 1 .. Len(s) \/ i - Len(s) \in 1 .. Len(t)
      BY <3>2 DEF v
    <3>6. \A i \in DOMAIN v : (i \in DOMAIN s /\ v[i] = s[i]) \/ (i - Len(s) \in DOMAIN t /\ v[i] = t[i - Len(s)])
      BY <3>2, <3>5 DEF v
    <3>7. Range(v) \subseteq Range(s) \cup Range(t)
      BY <3>6 DEF Range
    <3>8. Range(s) \cup Range(t) \subseteq Range(v)
      BY <3>2, <3>3, <3>4 DEF Range
    <3> QED
      BY <3>7, <3>8 DEF v
  <2>5. Range(PiecesOf(Append(u, x))) = Range(PiecesOf(u)) \cup Range(x.pieces)
    BY <2>3, <2>4
  <2>6. UNION {Range(items[i].pieces) : i \in 1 .. k} = (UNION {Range(items[i].pieces) : i \in 1 .. k - 1}) \cup Range(x.pieces)
    BY <2>1
  <2> HIDE DEF x
  <2>7. Fine(k)
    BY <2>1, <2>2, <2>5, <2>6
  <2> QED
    BY <2>1, <2>7
<1> HIDE DEF T
<1>5. 0 .. n \subseteq T
  BY <1>0, <1>2, <1>3, UpTo
<1>6. Fine(n)
  <2> HIDE DEF Fine
  <2> QED
    BY <1>0, <1>5 DEF T
<1> QED
  BY <1>0, <1>1, <1>6

LEMMA ReversedPieces ==
  ASSUME NEW items, ContentsOK(items)
  PROVE  Range(PiecesOf(Reverse(items))) = Range(PiecesOf(items))
<1> DEFINE n == Len(items)
           back == Reverse(items)
<1>0. IsSeq(items) /\ DOMAIN items = 1 .. n /\ n \in Nat
  BY SeqShape, ContentsAre
<1>1. DOMAIN back = 1 .. n /\ back = [i \in 1 .. n |-> back[i]]
      /\ \A i \in 1 .. n : back[i] = items[(n - i) + 1] /\ (n - i) + 1 \in 1 .. n
  BY <1>0 DEF Reverse
<1> HIDE DEF back
<1>2. ContentsOK(back)
  <2>1. IsSeq(back)
    BY <1>0, <1>1, SeqShape
  <2>2. \A i \in DOMAIN back : ContentOK(back[i])
    BY <1>0, <1>1, ContentsAre
  <2> QED
    BY <2>1, <2>2, ContentsAre
<1>3. \A i \in 1 .. n : (n - i) + 1 \in 1 .. n /\ items[i] = back[(n - i) + 1]
  <2> TAKE i \in 1 .. n
  <2>1. (n - i) + 1 \in 1 .. n /\ (n - ((n - i) + 1)) + 1 = i
    BY <1>0
  <2> QED
    BY <1>1, <2>1
<1>4. {Range(back[i].pieces) : i \in 1 .. n} = {Range(items[i].pieces) : i \in 1 .. n}
  <2>1. {Range(back[i].pieces) : i \in 1 .. n} \subseteq {Range(items[i].pieces) : i \in 1 .. n}
    BY <1>1
  <2>2. {Range(items[i].pieces) : i \in 1 .. n} \subseteq {Range(back[i].pieces) : i \in 1 .. n}
    BY <1>3
  <2> QED
    BY <2>1, <2>2
<1> QED
  BY <1>0, <1>1, <1>2, <1>4, PiecesRange DEF back

-----------------------------------------------------------------------------
(* The calls of an answer, each under a number of its own.                 *)

(* Calls, no two of which have one number; and a call with a piece more.   *)
Apart(calls) == \A j, k \in DOMAIN calls : calls[j].tool = calls[k].tool => j = k
CallsOK(calls) ==
  ContentsOK(calls) /\ Apart(calls) /\ \A j \in DOMAIN calls : calls[j].kind = "tool"
With(item, piece) == [item EXCEPT !.pieces = Append(@, piece)]

\* An event the decoders make: a delta of a call that is known has no name
\* and one piece.
Proper(calls, event) ==
  /\ event.kind \in Kinds
  /\ event.kind # "tool" => event.piece # NoPiece
  /\ event.kind = "tool" =>
       \/ \A j \in DOMAIN calls : calls[j].tool # event.tool
       \/ event.name = Unnamed /\ event.piece # NoPiece

LEMMA WithIs ==
  ASSUME NEW item, ContentOK(item), NEW piece
  PROVE  /\ ContentOK(With(item, piece))
         /\ With(item, piece).kind = item.kind /\ With(item, piece).tool = item.tool
         /\ With(item, piece).name = item.name
         /\ With(item, piece).pieces = Append(item.pieces, piece)
BY WithPieceShape DEF With, ContentOK

LEMMA ContentIs ==
  ASSUME NEW kind, NEW tool, NEW name, NEW pieces
  PROVE  LET c == Content(kind, tool, name, pieces) IN
         c.kind = kind /\ c.tool = tool /\ c.name = name /\ c.pieces = pieces
BY DEF Content

LEMMA FirstPiece ==
  /\ \A piece : IsSeq(WithPiece(<<>>, piece))
  /\ WithPiece(<<>>, NoPiece) = <<>>
  /\ \A piece : piece # NoPiece => WithPiece(<<>>, piece) = <<piece>>
BY ShortShape, WithPieceShape DEF WithPiece

LEMMA CallAtIs ==
  ASSUME NEW items, IsSeq(items), NEW tool
  PROVE  \/ /\ CallAt(items, tool) = 0
            /\ \A i \in DOMAIN items : ~ (items[i].kind = "tool" /\ items[i].tool = tool)
         \/ /\ CallAt(items, tool) \in DOMAIN items /\ CallAt(items, tool) # 0
            /\ items[CallAt(items, tool)].kind = "tool" /\ items[CallAt(items, tool)].tool = tool
<1> DEFINE I == {i \in 1 .. Len(items) : items[i].kind = "tool" /\ items[i].tool = tool}
<1>0. DOMAIN items = 1 .. Len(items) /\ Len(items) \in Nat
  BY SeqShape
<1>1. CallAt(items, tool) = IF I # {} THEN Min(I) ELSE 0
  BY DEF CallAt, SelectInSeq
<1>2. CASE I = {}
  BY <1>0, <1>1, <1>2
<1>3. CASE I # {}
  <2>1. I \subseteq Nat
    BY <1>0
  <2> HIDE DEF I
  <2>2. \E m \in I : \A i \in I : m <= i
    BY <1>3, <2>1, LeastNatural
  <2>3. Min(I) \in I
    BY <2>2 DEF Min
  <2>4. CallAt(items, tool) \in I
    BY <1>1, <1>3, <2>3
  <2> QED
    BY <1>0, <2>4 DEF I
<1> QED
  BY <1>2, <1>3

LEMMA CallAtApart ==
  ASSUME NEW calls, CallsOK(calls)
  PROVE  /\ \A j \in DOMAIN calls : CallAt(calls, calls[j].tool) = j /\ j # 0
         /\ \A tool : (\A j \in DOMAIN calls : calls[j].tool # tool) <=> CallAt(calls, tool) = 0
<1>0. IsSeq(calls) /\ DOMAIN calls = 1 .. Len(calls) /\ Len(calls) \in Nat
  BY SeqShape DEF CallsOK, ContentsOK
<1>1. \A j \in DOMAIN calls : CallAt(calls, calls[j].tool) = j /\ j # 0
  <2> TAKE j \in DOMAIN calls
  <2>1. calls[j].kind = "tool"
    BY DEF CallsOK
  <2>2. CallAt(calls, calls[j].tool) \in DOMAIN calls /\ calls[CallAt(calls, calls[j].tool)].tool = calls[j].tool
    BY <1>0, <2>1, CallAtIs
  <2> QED
    BY <1>0, <2>2 DEF CallsOK, Apart
<1>2. ASSUME NEW tool PROVE (\A j \in DOMAIN calls : calls[j].tool # tool) <=> CallAt(calls, tool) = 0
  <2>1. CallAt(calls, tool) = 0 => \A j \in DOMAIN calls : calls[j].tool # tool
    BY <1>1
  <2>2. CallAt(calls, tool) # 0 => CallAt(calls, tool) \in DOMAIN calls /\ calls[CallAt(calls, tool)].tool = tool
    BY <1>0, CallAtIs
  <2> QED
    BY <2>1, <2>2
<1> QED
  BY <1>1, <1>2

(* A call more, or a piece more of one.                                    *)
LEMMA CallBegun ==
  ASSUME NEW calls, CallsOK(calls), NEW tool, NEW name, NEW pieces, IsSeq(pieces),
         \A j \in DOMAIN calls : calls[j].tool # tool
  PROVE  CallsOK(Append(calls, Content("tool", tool, name, pieces)))
<1> DEFINE call == Content("tool", tool, name, pieces)
           more == Append(calls, call)
<1>0. IsSeq(calls) /\ DOMAIN calls = 1 .. Len(calls) /\ Len(calls) \in Nat
  BY SeqShape, ContentsAre DEF CallsOK
<1>1. ContentOK(call) /\ call.kind = "tool" /\ call.tool = tool
  BY ContentsAre, ContentIs
<1> HIDE DEF call
<1>2. ContentsOK(more)
  BY <1>1, ContentsAre DEF CallsOK
<1>3. /\ DOMAIN more = 1 .. Len(calls) + 1 /\ \A j \in DOMAIN calls : more[j] = calls[j]
      /\ more[Len(calls) + 1] = call
  BY <1>0, AppendShape
<1> HIDE DEF more
<1>4. \A j \in DOMAIN more : j \in DOMAIN calls \/ j = Len(calls) + 1
  BY <1>0, <1>3
<1>5. Apart(more)
  BY <1>1, <1>3, <1>4 DEF Apart, CallsOK
<1>6. \A j \in DOMAIN more : more[j].kind = "tool"
  BY <1>1, <1>3, <1>4 DEF CallsOK
<1> QED
  BY <1>2, <1>5, <1>6 DEF CallsOK, more, call

LEMMA CallGoesOn ==
  ASSUME NEW calls, CallsOK(calls), NEW j \in DOMAIN calls, NEW piece
  PROVE  CallsOK(Replaced(calls, j, With(calls[j], piece)))
<1> DEFINE call == With(calls[j], piece)
           more == Replaced(calls, j, call)
<1>0. IsSeq(calls) /\ \A i \in DOMAIN calls : ContentOK(calls[i])
  BY ContentsAre DEF CallsOK
<1>1. ContentOK(call) /\ call.kind = "tool" /\ call.tool = calls[j].tool
  BY <1>0, WithIs DEF CallsOK
<1> HIDE DEF call
<1>2. IsSeq(more) /\ DOMAIN more = DOMAIN calls /\ \A i \in DOMAIN calls : more[i] = IF i = j THEN call ELSE calls[i]
  BY <1>0, ReplaceShape
<1> HIDE DEF more
<1>3. \A i \in DOMAIN more : ContentOK(more[i]) /\ more[i].tool = calls[i].tool /\ more[i].kind = "tool"
  BY <1>0, <1>1, <1>2 DEF CallsOK
<1>4. Apart(more)
  BY <1>2, <1>3 DEF Apart, CallsOK
<1> QED
  BY <1>2, <1>3, <1>4, ContentsAre DEF CallsOK, more, call

(* What is collected of a call's delta, ...                                *)
LEMMA CollectFirst ==
  ASSUME NEW calls, CallsOK(calls), NEW event, \A j \in DOMAIN calls : calls[j].tool # event.tool
  PROVE  CollectTool(calls, event) =
           Append(calls, Content("tool", event.tool, event.name, WithPiece(<<>>, event.piece)))
BY CallAtApart DEF CollectTool

LEMMA PieceAdded ==
  ASSUME NEW calls, CallsOK(calls), NEW j \in DOMAIN calls, NEW piece, piece # NoPiece
  PROVE  /\ [calls EXCEPT ![j].pieces = WithPiece(@, piece)] = Replaced(calls, j, With(calls[j], piece))
         /\ [calls EXCEPT ![j].pieces = WithPiece(@, piece), ![j].name = @] = Replaced(calls, j, With(calls[j], piece))
<1>1. \A i \in DOMAIN calls : ContentOK(calls[i])
  BY ContentsAre DEF CallsOK
<1> QED
  BY <1>1 DEF With, WithPiece, ContentOK, Replaced

LEMMA CollectMore ==
  ASSUME NEW calls, CallsOK(calls), NEW event, NEW j \in DOMAIN calls, calls[j].tool = event.tool,
         event.name = Unnamed, event.piece # NoPiece
  PROVE  CollectTool(calls, event) = Replaced(calls, j, With(calls[j], event.piece))
<1>1. CallAt(calls, event.tool) = j /\ j # 0
  BY CallAtApart
<1>2. CollectTool(calls, event) = [calls EXCEPT ![j].pieces = WithPiece(@, event.piece), ![j].name = @]
  BY <1>1 DEF CollectTool
<1> QED
  BY <1>2, PieceAdded

(* ... and what is heard of its frame.                                     *)
LEMMA HearFirst ==
  ASSUME NEW calls, CallsOK(calls), NEW frame, \A j \in DOMAIN calls : calls[j].tool # frame.at
  PROVE  HearCall(calls, frame) =
           Append(calls, Content("tool", frame.at, frame.name, WithPiece(<<>>, frame.piece)))
BY CallAtApart DEF HearCall

LEMMA HearMore ==
  ASSUME NEW calls, CallsOK(calls), NEW frame, NEW j \in DOMAIN calls, calls[j].tool = frame.at,
         frame.piece # NoPiece
  PROVE  HearCall(calls, frame) = Replaced(calls, j, With(calls[j], frame.piece))
<1>1. CallAt(calls, frame.at) = j /\ j # 0
  BY CallAtApart
<1>2. HearCall(calls, frame) = [calls EXCEPT ![j].pieces = WithPiece(@, frame.piece)]
  BY <1>1 DEF HearCall
<1> QED
  BY <1>2, PieceAdded

-----------------------------------------------------------------------------
(* What one step says, and what the Collector makes of it.                 *)

(* A text that goes on where it is last, or the only one of its kind, has  *)
(* its piece last.                                                         *)
LEMMA TextGoesOn ==
  ASSUME NEW items, ContentsOK(items), NEW at \in DOMAIN items, NEW piece, NEW kind, kind = items[at].kind,
         at = Len(items) \/ Len(OfKind(items, kind)) <= 1
  PROVE  LET changed == Replaced(items, at, With(items[at], piece)) IN
         PiecesOf(OfKind(changed, kind)) = Append(PiecesOf(OfKind(items, kind)), piece)
<1> DEFINE y == With(items[at], piece)
           changed == Replaced(items, at, y)
           s == OfKind(items, kind)
<1>1. ContentOK(items[at])
  BY ContentsAre
<1>2. ContentOK(y) /\ y.kind = kind /\ y.pieces = Append(items[at].pieces, piece)
  BY <1>1, WithIs
<1> HIDE DEF y
<1> DEFINE j == Place(items, at)
<1>3. /\ j \in DOMAIN s /\ s[j] = items[at]
      /\ OfKind(changed, kind) = Replaced(s, j, y)
      /\ at = Len(items) => j = Len(s)
  BY <1>2, ReplaceOfKind
<1> HIDE DEF j
<1>4. ContentsOK(s) /\ IsSeq(s) /\ DOMAIN s = 1 .. Len(s) /\ Len(s) \in Nat
  <2>1. ContentsOK(s)
    BY OfKindShape
  <2> HIDE DEF s
  <2> QED
    BY <2>1, SeqShape, ContentsAre
<1>5. j = Len(s) /\ Len(s) > 0
  <2>1. at = Len(items) \/ Len(s) <= 1
    OBVIOUS
  <2> HIDE DEF s
  <2> QED
    BY <1>3, <1>4, <2>1
<1>6. y.pieces = Append(s[Len(s)].pieces, piece)
  BY <1>2, <1>3, <1>5
<1>7. PiecesOf(Replaced(s, Len(s), y)) = Append(PiecesOf(s), piece)
  <2> HIDE DEF s
  <2> QED
    BY <1>2, <1>4, <1>5, <1>6, ReplaceLastPieces
<1> HIDE DEF s, changed
<1>8. PiecesOf(OfKind(changed, kind)) = Append(PiecesOf(s), piece)
  BY <1>3, <1>5, <1>7
<1> QED
  BY <1>8 DEF s, changed, y

(* One more item has its pieces last.                                      *)
LEMMA ItemBegun ==
  ASSUME NEW items, ContentsOK(items), NEW item, ContentOK(item), NEW kind
  PROVE  /\ item.kind # kind => OfKind(Append(items, item), kind) = OfKind(items, kind)
         /\ item.kind = kind =>
              /\ OfKind(Append(items, item), kind) = Append(OfKind(items, kind), item)
              /\ PiecesOf(OfKind(Append(items, item), kind)) = PiecesOf(OfKind(items, kind)) \o item.pieces
<1>1. OfKind(Append(items, item), kind) =
        IF item.kind = kind THEN Append(OfKind(items, kind), item) ELSE OfKind(items, kind)
  BY OfKindAppend
<1>2. ContentsOK(OfKind(items, kind))
  BY OfKindShape
<1>3. PiecesOf(Append(OfKind(items, kind), item)) = PiecesOf(OfKind(items, kind)) \o item.pieces
  BY <1>2, PiecesAppend
<1> QED
  BY <1>1, <1>3

(* An event more is collected as it is told: a text's piece last of its    *)
(* kind, a call's delta at the call, and nothing else changes.             *)
LEMMA CollectKinds ==
  ASSUME NEW items, ContentsOK(items), CallsOK(OfKind(items, "tool")),
         NEW event, Proper(OfKind(items, "tool"), event)
  PROVE  LET c == Collect(items, event) IN
         /\ ContentsOK(c)
         /\ OfKind(c, "tool") = IF event.kind = "tool" THEN CollectTool(OfKind(items, "tool"), event)
                                ELSE OfKind(items, "tool")
         /\ \A kind \in {"text", "thinking"} :
              PiecesOf(OfKind(c, kind)) = IF kind = event.kind THEN Append(PiecesOf(OfKind(items, kind)), event.piece)
                                          ELSE PiecesOf(OfKind(items, kind))
<1> DEFINE calls == OfKind(items, "tool")
           c == Collect(items, event)
<1>0. /\ IsSeq(items) /\ DOMAIN items = 1 .. Len(items) /\ Len(items) \in Nat
      /\ \A i \in DOMAIN items : ContentOK(items[i])
  BY SeqShape, ContentsAre
<1>1. ContentsOK(c)
  BY CollectKeepsShape
<1>2. CASE event.kind # "tool"
  <2>0. c = CollectText(items, event)
    BY <1>2 DEF Collect
  <2>1. CASE items # <<>> /\ Last(items).kind = event.kind
    <3> DEFINE at == Len(items)
               y == With(items[at], event.piece)
    <3>1. at \in DOMAIN items /\ items[at].kind = event.kind
      <4>1. Len(items) # 0
        BY <1>0, <2>1, EmptyIs
      <4> QED
        BY <1>0, <2>1, <4>1 DEF Last
    <3>2. c = Replaced(items, at, y)
      <4>1. c = [items EXCEPT ![at].pieces = Append(@, event.piece)]
        BY <2>0, <2>1 DEF CollectText
      <4> QED
        BY <4>1 DEF With, Replaced
    <3>3. ContentOK(y) /\ y.kind = event.kind
      BY <1>0, <3>1, WithIs
    <3>4. PiecesOf(OfKind(c, event.kind)) = Append(PiecesOf(OfKind(items, event.kind)), event.piece)
      BY <3>1, <3>2, TextGoesOn
    <3> HIDE DEF y
    <3>5. \A kind : kind # event.kind => OfKind(c, kind) = OfKind(items, kind)
      BY <3>1, <3>2, <3>3, ReplaceOfKind
    <3> HIDE DEF c
    <3> QED
      BY <1>1, <1>2, <3>4, <3>5 DEF c
  <2>2. CASE ~ (items # <<>> /\ Last(items).kind = event.kind)
    <3> DEFINE item == Content(event.kind, 0, Unnamed, <<event.piece>>)
    <3>1. c = Append(items, item)
      BY <2>0, <2>2 DEF CollectText
    <3>2. ContentOK(item) /\ item.kind = event.kind /\ item.pieces = <<event.piece>>
      BY ContentsAre, ContentIs, ShortShape
    <3> HIDE DEF item, c
    <3>3. PiecesOf(OfKind(c, event.kind)) = PiecesOf(OfKind(items, event.kind)) \o <<event.piece>>
      <4> DEFINE kind == event.kind
      <4>1. item.kind = kind
        BY <3>2
      <4> HIDE DEF kind
      <4>2. PiecesOf(OfKind(Append(items, item), kind)) = PiecesOf(OfKind(items, kind)) \o item.pieces
        BY <3>2, <4>1, ItemBegun
      <4> QED
        BY <3>1, <3>2, <4>2 DEF kind
    <3>4. IsSeq(PiecesOf(OfKind(items, event.kind)))
      BY OfKindShape, PiecesAppend
    <3>5. PiecesOf(OfKind(c, event.kind)) = Append(PiecesOf(OfKind(items, event.kind)), event.piece)
      BY <3>3, <3>4, ConcatIs
    <3>6. \A kind : kind # event.kind => OfKind(c, kind) = OfKind(items, kind)
      BY <3>1, <3>2, ItemBegun
    <3> QED
      BY <1>1, <1>2, <3>5, <3>6 DEF c
  <2> QED
    BY <2>1, <2>2
<1>3. CASE event.kind = "tool"
  <2>0. c = CollectTool(items, event)
    BY <1>3 DEF Collect
  <2>1. /\ \A p \in DOMAIN calls : calls[p].kind = "tool" /\ \E i \in DOMAIN items : calls[p] = items[i]
        /\ \A i \in DOMAIN items : items[i].kind = "tool" => \E p \in DOMAIN calls : calls[p] = items[i]
    BY OfKindMembers
  <2>2. CallsOK(calls) /\ Proper(calls, event)
    OBVIOUS
  <2>3. CASE \A j \in DOMAIN calls : calls[j].tool # event.tool
    <3> DEFINE item == Content("tool", event.tool, event.name, WithPiece(<<>>, event.piece))
    <3>1. CallAt(items, event.tool) = 0
      <4> HIDE DEF calls
      <4> QED
        BY <1>0, <2>1, <2>3, CallAtIs
    <3>2. c = Append(items, item)
      BY <2>0, <3>1 DEF CollectTool
    <3>3. CollectTool(calls, event) = Append(calls, item)
      <4> HIDE DEF calls
      <4> QED
        BY <2>2, <2>3, CollectFirst
    <3>4. ContentOK(item) /\ item.kind = "tool"
      BY ContentsAre, ContentIs, FirstPiece
    <3> HIDE DEF item, c
    <3>5. OfKind(c, "tool") = Append(calls, item) /\ \A kind : kind # "tool" => OfKind(c, kind) = OfKind(items, kind)
      BY <3>2, <3>4, ItemBegun
    <3> QED
      BY <1>1, <1>3, <3>3, <3>5 DEF c
  <2>4. CASE ~ \A j \in DOMAIN calls : calls[j].tool # event.tool
    <3> DEFINE at == CallAt(items, event.tool)
               y == With(items[at], event.piece)
    <3>0. event.name = Unnamed /\ event.piece # NoPiece
      BY <1>3, <2>4 DEF Proper
    <3>1. at \in DOMAIN items /\ at # 0 /\ items[at].kind = "tool" /\ items[at].tool = event.tool
      <4>1. PICK j \in DOMAIN calls : calls[j].tool = event.tool
        BY <2>4
      <4>2. \E i \in DOMAIN items : items[i].kind = "tool" /\ items[i].tool = event.tool
        BY <2>1, <4>1
      <4> QED
        BY <1>0, <4>2, CallAtIs
    <3>2. c = [items EXCEPT ![at].pieces = WithPiece(@, event.piece), ![at].name = @]
      <4> HIDE DEF c
      <4> QED
        BY <2>0, <3>0, <3>1 DEF CollectTool
    <3> HIDE DEF at
    <3>3. c = Replaced(items, at, y)
      <4>1. ContentOK(items[at])
        BY <1>0, <3>1
      <4> HIDE DEF c
      <4> QED
        BY <3>0, <3>1, <3>2, <4>1 DEF With, WithPiece, ContentOK, Replaced
    <3>4. ContentOK(y) /\ y.kind = "tool" /\ y.kind = items[at].kind
      BY <1>0, <3>1, WithIs
    <3> HIDE DEF y, c
    <3>5. \A kind : kind # "tool" => OfKind(c, kind) = OfKind(items, kind)
      BY <3>1, <3>3, <3>4, ReplaceOfKind
    <3> DEFINE j == Place(items, at)
    <3>6. j \in DOMAIN calls /\ calls[j] = items[at] /\ OfKind(c, "tool") = Replaced(calls, j, y)
      BY <3>1, <3>3, <3>4, ReplaceOfKind
    <3> HIDE DEF j
    <3>7. CollectTool(calls, event) = Replaced(calls, j, With(calls[j], event.piece))
      <4> HIDE DEF calls
      <4> QED
        BY <2>2, <3>0, <3>1, <3>6, CollectMore
    <3>8. OfKind(c, "tool") = CollectTool(calls, event)
      BY <3>6, <3>7 DEF y
    <3> QED
      BY <1>1, <1>3, <3>5, <3>8 DEF c
  <2> QED
    BY <2>3, <2>4
<1> QED
  BY <1>2, <1>3

(* The calls among some items, numbered as an upstream of a format has     *)
(* them told: by the items, or by the calls.                               *)
CallsAs(format, items) ==
  LET calls == OfKind(items, "tool")
  IN  [j \in DOMAIN calls |->
         Content("tool", IF format = "responses" THEN calls[j].name - 1 ELSE j - 1,
                 calls[j].name, calls[j].pieces)]

\* What an event adds to the pieces of a kind, and to the calls.
PiecesAfter(kind, pieces, event) == IF event.kind = kind THEN Append(pieces, event.piece) ELSE pieces
CallsAfter(calls, event) == IF event.kind = "tool" THEN CollectTool(calls, event) ELSE calls

LEMMA WithContent ==
  ASSUME NEW kind, NEW tool, NEW name, NEW pieces, NEW piece
  PROVE  With(Content(kind, tool, name, pieces), piece) = Content(kind, tool, name, Append(pieces, piece))
BY DEF With, Content

LEMMA CallsAsShape ==
  ASSUME NEW format, NEW items, ContentsOK(items)
  PROVE  LET c == CallsAs(format, items)
             calls == OfKind(items, "tool") IN
         /\ ContentsOK(c) /\ IsSeq(c) /\ Len(c) = Len(calls) /\ DOMAIN c = DOMAIN calls
         /\ IsSeq(calls) /\ DOMAIN calls = 1 .. Len(calls) /\ Len(calls) \in Nat
         /\ \A j \in DOMAIN c :
              /\ c[j] = Content("tool", IF format = "responses" THEN calls[j].name - 1 ELSE j - 1,
                                calls[j].name, calls[j].pieces)
              /\ c[j].kind = "tool" /\ c[j].name = calls[j].name /\ c[j].pieces = calls[j].pieces
              /\ c[j].tool = IF format = "responses" THEN calls[j].name - 1 ELSE j - 1
         /\ Apart(c) => CallsOK(c)
         /\ format # "responses" => CallsOK(c)
<1> DEFINE c == CallsAs(format, items)
           calls == OfKind(items, "tool")
           n == Len(calls)
<1>1. ContentsOK(calls)
  BY OfKindShape
<1>2. c = [j \in DOMAIN calls |-> Content("tool", IF format = "responses" THEN calls[j].name - 1 ELSE j - 1,
                                          calls[j].name, calls[j].pieces)]
  BY DEF CallsAs
<1> HIDE DEF calls, c
<1>3. IsSeq(calls) /\ DOMAIN calls = 1 .. n /\ n \in Nat /\ \A j \in DOMAIN calls : ContentOK(calls[j])
  BY <1>1, SeqShape, ContentsAre
<1>4. DOMAIN c = 1 .. n /\ c = [j \in 1 .. n |-> c[j]]
  BY <1>2, <1>3
<1>5. IsSeq(c) /\ Len(c) = n
  BY <1>3, <1>4, SeqShape
<1>6. ASSUME NEW j \in DOMAIN c
      PROVE  /\ c[j] = Content("tool", IF format = "responses" THEN calls[j].name - 1 ELSE j - 1,
                                calls[j].name, calls[j].pieces)
             /\ ContentOK(c[j]) /\ c[j].kind = "tool" /\ c[j].name = calls[j].name /\ c[j].pieces = calls[j].pieces
             /\ c[j].tool = IF format = "responses" THEN calls[j].name - 1 ELSE j - 1
  <2>1. c[j] = Content("tool", IF format = "responses" THEN calls[j].name - 1 ELSE j - 1,
                       calls[j].name, calls[j].pieces)
    BY <1>2
  <2>2. IsSeq(calls[j].pieces)
    BY <1>2, <1>3 DEF ContentOK
  <2> QED
    BY <2>1, <2>2, ContentIs, ContentsAre
<1>7. ContentsOK(c)
  BY <1>5, <1>6, ContentsAre
<1>8. Apart(c) => CallsOK(c)
  BY <1>6, <1>7 DEF CallsOK
<1>9. format # "responses" => Apart(c)
  <2> HAVE format # "responses"
  <2>1. \A j \in DOMAIN c : c[j].tool = j - 1 /\ j \in Nat
    BY <1>3, <1>4, <1>6
  <2> QED
    BY <2>1 DEF Apart
<1> QED
  BY <1>3, <1>4, <1>5, <1>6, <1>7, <1>8, <1>9 DEF c, calls

(* A call more is numbered after the others.                               *)
NewNumber(format, items, item) ==
  IF format = "responses" THEN item.name - 1 ELSE Len(OfKind(items, "tool"))

LEMMA CallsAsBegun ==
  ASSUME NEW format, NEW items, ContentsOK(items), NEW item, ContentOK(item)
  PROVE  /\ item.kind # "tool" => CallsAs(format, Append(items, item)) = CallsAs(format, items)
         /\ item.kind = "tool" =>
              CallsAs(format, Append(items, item)) =
                Append(CallsAs(format, items),
                       Content("tool", NewNumber(format, items, item), item.name, item.pieces))
<1> DEFINE more == Append(items, item)
           c == CallsAs(format, items)
           d == CallsAs(format, more)
           calls == OfKind(items, "tool")
           n == Len(calls)
<1>1. ContentsOK(more)
  BY ContentsAre
<1>2. CASE item.kind # "tool"
  <2>1. OfKind(more, "tool") = calls
    BY <1>2, ItemBegun
  <2> QED
    BY <1>2, <2>1 DEF CallsAs
<1>3. CASE item.kind = "tool"
  <2> DEFINE new == Content("tool", NewNumber(format, items, item), item.name, item.pieces)
             e == Append(c, new)
             others == Append(calls, item)
  <2>1. OfKind(more, "tool") = others
    BY <1>3, ItemBegun
  <2>2. /\ IsSeq(c) /\ Len(c) = n /\ DOMAIN c = 1 .. n /\ n \in Nat /\ IsSeq(calls) /\ DOMAIN calls = 1 .. n
        /\ \A j \in DOMAIN c : c[j] = Content("tool", IF format = "responses" THEN calls[j].name - 1 ELSE j - 1,
                                              calls[j].name, calls[j].pieces)
    BY CallsAsShape
  <2>3. NewNumber(format, items, item) = IF format = "responses" THEN item.name - 1 ELSE n
    BY DEF NewNumber
  <2>4. d = [j \in DOMAIN others |-> Content("tool", IF format = "responses" THEN others[j].name - 1 ELSE j - 1,
                                             others[j].name, others[j].pieces)]
    <3> HIDE DEF others, more
    <3> QED
      BY <2>1 DEF CallsAs
  <2> HIDE DEF calls, c, d
  <2>5. /\ DOMAIN others = 1 .. n + 1 /\ \A j \in 1 .. n : others[j] = calls[j]
        /\ others[n + 1] = item
    BY <2>2, AppendShape
  <2> HIDE DEF new
  <2>6. /\ IsSeq(e) /\ Len(e) = n + 1 /\ DOMAIN e = 1 .. n + 1 /\ \A j \in 1 .. n : e[j] = c[j]
        /\ e[n + 1] = new
    BY <2>2, AppendShape
  <2> HIDE DEF others, e
  <2>7. DOMAIN d = 1 .. n + 1 /\ d = [j \in 1 .. n + 1 |-> d[j]]
    BY <2>4, <2>5
  <2>8. IsSeq(d) /\ Len(d) = n + 1
    <3>1. n + 1 \in Nat
      BY <2>2
    <3> QED
      BY <2>7, <3>1, SeqShape
  <2>9. ASSUME NEW j \in DOMAIN d PROVE d[j] = e[j]
    <3>1. d[j] = Content("tool", IF format = "responses" THEN others[j].name - 1 ELSE j - 1,
                         others[j].name, others[j].pieces)
      BY <2>4, <2>5, <2>7
    <3>2. CASE j \in 1 .. n
      BY <2>2, <2>5, <2>6, <3>1, <3>2
    <3>3. CASE j = n + 1
      <4>1. j - 1 = n
        BY <2>2, <3>3
      <4> QED
        BY <2>3, <2>5, <2>6, <3>1, <3>3, <4>1 DEF new
    <3> QED
      BY <2>2, <2>7, <3>2, <3>3
  <2>10. d = e
    BY <2>6, <2>8, <2>9, SameSeq
  <2> QED
    BY <1>3, <2>10 DEF d, e, c, new
<1> QED
  BY <1>2, <1>3

(* A call that goes on is the one it was.                                  *)
LEMMA CallsAsGoOn ==
  ASSUME NEW format, NEW items, ContentsOK(items), NEW at \in DOMAIN items, items[at].kind = "tool", NEW piece
  PROVE  LET c == CallsAs(format, items)
             j == Place(items, at) IN
         /\ j \in DOMAIN c /\ c[j].name = items[at].name
         /\ c[j].tool = IF format = "responses" THEN items[at].name - 1 ELSE j - 1
         /\ CallsAs(format, Replaced(items, at, With(items[at], piece))) = Replaced(c, j, With(c[j], piece))
         /\ at = Len(items) => j = Len(c)
<1> DEFINE y == With(items[at], piece)
           changed == Replaced(items, at, y)
           j == Place(items, at)
           c == CallsAs(format, items)
           d == CallsAs(format, changed)
           calls == OfKind(items, "tool")
           others == Replaced(calls, j, y)
           e == Replaced(c, j, With(c[j], piece))
           n == Len(calls)
<1>1. ContentOK(items[at])
  BY ContentsAre
<1>2. /\ ContentOK(y) /\ y.kind = "tool" /\ y.name = items[at].name /\ y.pieces = Append(items[at].pieces, piece)
  BY <1>1, WithIs
<1> HIDE DEF y
<1>3. /\ ContentsOK(changed)
      /\ j \in DOMAIN calls /\ calls[j] = items[at]
      /\ OfKind(changed, "tool") = others
      /\ at = Len(items) => j = n
  BY <1>2, ReplaceOfKind
<1>4. /\ ContentsOK(c) /\ IsSeq(c) /\ Len(c) = n /\ DOMAIN c = 1 .. n /\ n \in Nat /\ IsSeq(calls) /\ DOMAIN calls = 1 .. n
      /\ \A k \in DOMAIN c : /\ c[k] = Content("tool", IF format = "responses" THEN calls[k].name - 1 ELSE k - 1,
                                               calls[k].name, calls[k].pieces)
                             /\ c[k].name = calls[k].name
                             /\ c[k].tool = IF format = "responses" THEN calls[k].name - 1 ELSE k - 1
  BY CallsAsShape
<1>5. d = [k \in DOMAIN others |-> Content("tool", IF format = "responses" THEN others[k].name - 1 ELSE k - 1,
                                           others[k].name, others[k].pieces)]
  <2> HIDE DEF others, changed
  <2> QED
    BY <1>3 DEF CallsAs
<1> HIDE DEF calls, c, d, changed, j
<1>6. /\ DOMAIN others = 1 .. n /\ \A k \in 1 .. n : others[k] = IF k = j THEN y ELSE calls[k]
  BY <1>4, ReplaceShape
<1> DEFINE z == With(c[j], piece)
<1>7. /\ IsSeq(e) /\ Len(e) = n /\ DOMAIN e = 1 .. n /\ \A k \in 1 .. n : e[k] = IF k = j THEN z ELSE c[k]
  <2> HIDE DEF z
  <2> QED
    BY <1>4, ReplaceShape DEF z
<1>8. z = Content("tool", IF format = "responses" THEN y.name - 1 ELSE j - 1, y.name, y.pieces)
  <2>1. c[j] = Content("tool", IF format = "responses" THEN items[at].name - 1 ELSE j - 1, items[at].name, items[at].pieces)
    BY <1>3, <1>4
  <2> DEFINE number == IF format = "responses" THEN items[at].name - 1 ELSE j - 1
  <2>2. z = Content("tool", number, items[at].name, Append(items[at].pieces, piece))
    <3> HIDE DEF number
    <3> QED
      BY <2>1, WithContent DEF number
  <2> QED
    BY <1>2, <2>2
<1> HIDE DEF z, e, others
<1>9. DOMAIN d = 1 .. n /\ d = [k \in 1 .. n |-> d[k]]
  BY <1>5, <1>6
<1>10. IsSeq(d) /\ Len(d) = n
  BY <1>4, <1>9, SeqShape
<1>11. ASSUME NEW k \in DOMAIN d PROVE d[k] = e[k]
  <2>1. d[k] = Content("tool", IF format = "responses" THEN others[k].name - 1 ELSE k - 1,
                       others[k].name, others[k].pieces)
    BY <1>5, <1>6, <1>9
  <2>2. k \in 1 .. n
    BY <1>9
  <2>3. CASE k = j
    BY <1>6, <1>7, <1>8, <2>1, <2>2, <2>3
  <2>4. CASE k # j
    BY <1>4, <1>6, <1>7, <2>1, <2>2, <2>4
  <2> QED
    BY <2>3, <2>4
<1>12. d = e
  BY <1>7, <1>9, <1>10, <1>11, SameSeq
<1>13. j \in DOMAIN c /\ c[j].name = items[at].name /\ c[j].tool = IF format = "responses" THEN items[at].name - 1 ELSE j - 1
  BY <1>3, <1>4
<1> QED
  BY <1>3, <1>4, <1>12, <1>13 DEF d, e, c, z, j, y, changed

\* Some items and what an event made of them, told of in the numbers of a format.
Follows(format, items, changed, event) ==
  /\ \A kind \in {"text", "thinking"} :
       PiecesOf(OfKind(changed, kind)) = PiecesAfter(kind, PiecesOf(OfKind(items, kind)), event)
  /\ CallsAs(format, changed) = CallsAfter(CallsAs(format, items), event)
  /\ Proper(CallsAs(format, items), event)

\* The same is told of both.
SameTold(format, items, changed) ==
  /\ \A kind \in {"text", "thinking"} : PiecesOf(OfKind(changed, kind)) = PiecesOf(OfKind(items, kind))
  /\ CallsAs(format, changed) = CallsAs(format, items)

LEMMA EventIs ==
  ASSUME NEW kind, NEW tool, NEW name, NEW piece
  PROVE  LET e == Event(kind, tool, name, piece) IN
         e.kind = kind /\ e.tool = tool /\ e.name = name /\ e.piece = piece
BY DEF Event

(* An item that goes on with a piece.                                      *)
LEMMA FollowsPiece ==
  ASSUME NEW format, NEW items, ContentsOK(items), CallsOK(CallsAs(format, items)),
         NEW at \in DOMAIN items, items[at].kind \in Kinds, NEW piece, piece # NoPiece,
         items[at].kind # "tool" => at = Len(items) \/ Len(OfKind(items, items[at].kind)) <= 1,
         NEW tool, items[at].kind = "tool" => tool = CallsAs(format, items)[Place(items, at)].tool
  PROVE  Follows(format, items, Replaced(items, at, With(items[at], piece)),
                 Event(items[at].kind, tool, Unnamed, piece))
<1> DEFINE y == With(items[at], piece)
           changed == Replaced(items, at, y)
           own == items[at].kind
           event == Event(own, tool, Unnamed, piece)
           c == CallsAs(format, items)
           d == CallsAs(format, changed)
<1>0. event.kind = own /\ event.tool = tool /\ event.name = Unnamed /\ event.piece = piece
  BY EventIs
<1>1. ContentOK(y) /\ y.kind = own
  <2>1. ContentOK(items[at])
    BY ContentsAre
  <2> QED
    BY <2>1, WithIs
<1>2. \A kind : kind # own => OfKind(changed, kind) = OfKind(items, kind)
  <2> TAKE kind
  <2> HAVE kind # own
  <2> HIDE DEF y
  <2> QED
    BY <1>1, ReplaceOfKind
<1>3. CASE own # "tool"
  <2>1. PiecesOf(OfKind(changed, own)) = Append(PiecesOf(OfKind(items, own)), piece)
    BY <1>3, TextGoesOn
  <2>2. d = c
    <3>1. OfKind(changed, "tool") = OfKind(items, "tool")
      BY <1>2, <1>3
    <3> HIDE DEF changed
    <3> QED
      BY <3>1 DEF CallsAs
  <2> HIDE DEF changed, d, c, event
  <2>3. Proper(c, event)
    BY <1>0, <1>3 DEF Proper, Kinds
  <2> QED
    BY <1>0, <1>2, <1>3, <2>1, <2>2, <2>3 DEF Follows, PiecesAfter, CallsAfter, d, c, changed, event
<1>4. CASE own = "tool"
  <2> DEFINE j == Place(items, at)
  <2>1. j \in DOMAIN c /\ d = Replaced(c, j, With(c[j], piece))
    BY <1>4, CallsAsGoOn
  <2>2. c[j].tool = tool /\ CallsOK(c)
    BY <1>4
  <2> HIDE DEF changed, d, c, j, event
  <2>3. CollectTool(c, event) = Replaced(c, j, With(c[j], event.piece))
    BY <1>0, <2>1, <2>2, CollectMore
  <2>4. Proper(c, event)
    BY <1>0, <1>4, <2>1, <2>2 DEF Proper, Kinds
  <2>5. d = CallsAfter(c, event)
    BY <1>0, <1>4, <2>1, <2>3 DEF CallsAfter
  <2>6. \A kind \in {"text", "thinking"} :
          PiecesOf(OfKind(changed, kind)) = PiecesAfter(kind, PiecesOf(OfKind(items, kind)), event)
    BY <1>0, <1>2, <1>4 DEF PiecesAfter
  <2> QED
    BY <2>4, <2>5, <2>6 DEF Follows, d, c, changed, event
<1> QED
  BY <1>3, <1>4

(* A text or a thought that is begun says nothing yet.                     *)
LEMMA NothingBegun ==
  ASSUME NEW format, NEW items, ContentsOK(items), NEW item, ContentOK(item),
         item.kind # "tool", item.pieces = <<>>
  PROVE  SameTold(format, items, Append(items, item))
<1> DEFINE more == Append(items, item)
<1>1. CallsAs(format, more) = CallsAs(format, items)
  BY CallsAsBegun
<1>2. ASSUME NEW kind \in {"text", "thinking"}
      PROVE  PiecesOf(OfKind(more, kind)) = PiecesOf(OfKind(items, kind))
  <2>1. CASE item.kind # kind
    BY <2>1, ItemBegun
  <2>2. CASE item.kind = kind
    <3>1. PiecesOf(OfKind(more, kind)) = PiecesOf(OfKind(items, kind)) \o item.pieces
      BY <2>2, ItemBegun
    <3>2. IsSeq(PiecesOf(OfKind(items, kind)))
      BY OfKindShape, PiecesAppend
    <3> HIDE DEF more
    <3> QED
      BY <3>1, <3>2, ConcatIs
  <2> QED
    BY <2>1, <2>2
<1> QED
  BY <1>1, <1>2 DEF SameTold

(* A call is begun with its name, and may be told whole with it.           *)
LEMMA FollowsBegun ==
  ASSUME NEW format, NEW items, ContentsOK(items), CallsOK(CallsAs(format, items)),
         NEW item, ContentOK(item), item.kind = "tool", NEW piece, item.pieces = WithPiece(<<>>, piece),
         \A j \in DOMAIN CallsAs(format, items) : CallsAs(format, items)[j].tool # NewNumber(format, items, item)
  PROVE  Follows(format, items, Append(items, item),
                 Event("tool", NewNumber(format, items, item), item.name, piece))
<1> DEFINE more == Append(items, item)
           number == NewNumber(format, items, item)
           event == Event("tool", number, item.name, piece)
           c == CallsAs(format, items)
           d == CallsAs(format, more)
<1>0. event.kind = "tool" /\ event.tool = number /\ event.name = item.name /\ event.piece = piece
  BY EventIs
<1>1. d = Append(c, Content("tool", number, item.name, item.pieces))
  BY CallsAsBegun
<1>2. CallsOK(c) /\ \A j \in DOMAIN c : c[j].tool # number
  OBVIOUS
<1>3. \A kind : kind # "tool" => OfKind(more, kind) = OfKind(items, kind)
  BY ItemBegun
<1> HIDE DEF more, number, event, c, d
<1>4. CollectTool(c, event) = Append(c, Content("tool", event.tool, event.name, WithPiece(<<>>, event.piece)))
  BY <1>0, <1>2, CollectFirst
<1>5. d = CallsAfter(c, event)
  BY <1>0, <1>1, <1>4 DEF CallsAfter
<1>6. Proper(c, event)
  BY <1>0, <1>2 DEF Proper, Kinds
<1>7. \A kind \in {"text", "thinking"} :
        PiecesOf(OfKind(more, kind)) = PiecesAfter(kind, PiecesOf(OfKind(items, kind)), event)
  BY <1>0, <1>3 DEF PiecesAfter
<1> QED
  BY <1>5, <1>6, <1>7 DEF Follows, more, event, c, d, number

(* Calls numbered as they come have numbers below that of the next.        *)
LEMMA NewNumberApart ==
  ASSUME NEW format, format # "responses", NEW items, ContentsOK(items), NEW item
  PROVE  \A j \in DOMAIN CallsAs(format, items) : CallsAs(format, items)[j].tool # NewNumber(format, items, item)
<1> DEFINE c == CallsAs(format, items)
           n == Len(OfKind(items, "tool"))
<1>1. /\ DOMAIN c = 1 .. n /\ n \in Nat /\ \A j \in DOMAIN c : c[j].tool = j - 1
  BY CallsAsShape
<1>2. NewNumber(format, items, item) = n
  BY DEF NewNumber
<1> HIDE DEF c, n
<1>3. \A j \in DOMAIN c : c[j].tool # n
  BY <1>1
<1> QED
  BY <1>2, <1>3 DEF c, n

(* How many calls come before an item is the number of the call it may be. *)
LEMMA CallsBefore ==
  ASSUME NEW items, ContentsOK(items), NEW i \in 1 .. Len(items) + 1
  PROVE  Cardinality({j \in 1 .. i - 1 : items[j].kind = "tool"}) = Len(OfKind(Start(items, i - 1), "tool"))
<1> DEFINE n == Len(items)
           S(k) == {j \in 1 .. k : items[j].kind = "tool"}
           s(k) == OfKind(Start(items, k), "tool")
           T == {k \in 0 .. n : Cardinality(S(k)) = Len(s(k)) /\ IsFiniteSet(S(k))}
<1>0. IsSeq(items) /\ n \in Nat
  BY SeqShape, ContentsAre
<1>1. 0 \in T
  <2>1. S(0) = {} /\ Start(items, 0) = <<>>
    BY <1>0, StartIs
  <2>2. s(0) = <<>> /\ Len(<<>>) = 0
    BY <2>1, OfKindAppend
  <2>3. Cardinality(S(0)) = 0 /\ IsFiniteSet(S(0))
    BY <2>1, FS_EmptySet
  <2> HIDE DEF S, s
  <2> QED
    BY <1>0, <2>2, <2>3
<1>2. ASSUME NEW k \in 1 .. n, k - 1 \in T PROVE k \in T
  <2>1. /\ ContentsOK(Start(items, k - 1)) /\ Start(items, k) = Append(Start(items, k - 1), items[k])
        /\ k \in 0 .. n /\ 1 .. k = (1 .. k - 1) \cup {k}
    BY StartContents
  <2>2. s(k) = IF items[k].kind = "tool" THEN Append(s(k - 1), items[k]) ELSE s(k - 1)
    <3> DEFINE u == Start(items, k - 1)
               x == items[k]
    <3>1. ContentsOK(u) /\ Start(items, k) = Append(u, x)
      BY <2>1
    <3> HIDE DEF u, x
    <3>2. OfKind(Append(u, x), "tool") = IF x.kind = "tool" THEN Append(OfKind(u, "tool"), x) ELSE OfKind(u, "tool")
      BY <3>1, OfKindAppend
    <3> QED
      BY <3>1, <3>2 DEF u, x
  <2>3. IsSeq(s(k - 1)) /\ Len(s(k - 1)) \in Nat
    BY <2>1, OfKindShape, ContentsAre, SeqShape
  <2>4. S(k) = IF items[k].kind = "tool" THEN S(k - 1) \cup {k} ELSE S(k - 1)
    BY <2>1
  <2>5. k \notin S(k - 1)
    OBVIOUS
  <2>6. Cardinality(S(k - 1)) = Len(s(k - 1)) /\ IsFiniteSet(S(k - 1))
    BY <1>2
  <2> HIDE DEF S, s
  <2>7. CASE items[k].kind = "tool"
    <3>1. Cardinality(S(k - 1) \cup {k}) = Cardinality(S(k - 1)) + 1 /\ IsFiniteSet(S(k - 1) \cup {k})
      BY <2>5, <2>6, FS_AddElement
    <3>2. Len(Append(s(k - 1), items[k])) = Len(s(k - 1)) + 1
      BY <2>3, AppendShape
    <3> QED
      BY <2>1, <2>2, <2>4, <2>6, <2>7, <3>1, <3>2
  <2>8. CASE items[k].kind # "tool"
    BY <2>1, <2>2, <2>4, <2>6, <2>8
  <2> QED
    BY <2>7, <2>8
<1> HIDE DEF T
<1>3. 0 .. n \subseteq T
  BY <1>0, <1>1, <1>2, UpTo
<1>4. i - 1 \in T
  BY <1>0, <1>3
<1> QED
  BY <1>4 DEF T

-----------------------------------------------------------------------------
(* What has been told: of texts and thoughts (Plain), and of calls, each   *)
(* format in its own way (Tells).                                          *)

LEMMA FrameIs ==
  ASSUME NEW type, NEW at, NEW kind, NEW name, NEW piece
  PROVE  LET f == Frame(type, at, kind, name, piece) IN
         f.type = type /\ f.at = at /\ f.kind = kind /\ f.name = name /\ f.piece = piece
BY DEF Frame

(* What a client makes of a piece, of a block or an item that opens, and   *)
(* of one that is shut.                                                    *)
LEMMA PieceRead ==
  ASSUME NEW format, NEW h, DOMAIN h = Hearing, NEW at, NEW kind, NEW name, NEW piece
  PROVE  LET f == Frame("piece", at, kind, name, piece)
             r == Read(format, h, f) IN
         /\ r.text = IF kind = "text" THEN Append(h.text, piece) ELSE h.text
         /\ r.thinking = IF kind = "thinking" THEN Append(h.thinking, piece) ELSE h.thinking
         /\ r.calls = IF kind = "tool" THEN HearCall(h.calls, f) ELSE h.calls
         /\ r.opened = h.opened /\ r.shut = h.shut /\ r.ending = h.ending
         /\ ~h.astray /\ (at \in h.opened \ h.shut \/ format \notin {"anthropic", "responses"}
                          \/ (format = "responses" /\ kind = "thinking")) => ~r.astray
<1> DEFINE f == Frame("piece", at, kind, name, piece)
<1>1. f.type = "piece" /\ f.at = at /\ f.kind = kind /\ f.name = name /\ f.piece = piece
  BY FrameIs
<1> HIDE DEF f
<1>2. Read(format, h, f) = ReadPiece(format, h, f)
  BY <1>1 DEF Read
<1> DEFINE r == ReadPiece(format, h, f)
<1>3. /\ r.text = IF f.kind = "text" THEN Append(h.text, f.piece) ELSE h.text
      /\ r.thinking = IF f.kind = "thinking" THEN Append(h.thinking, f.piece) ELSE h.thinking
      /\ r.calls = IF f.kind = "tool" THEN HearCall(h.calls, f) ELSE h.calls
      /\ r.opened = h.opened /\ r.shut = h.shut /\ r.ending = h.ending
  BY DEF ReadPiece, Hearing
<1>4. r.astray = (h.astray \/ (/\ format = "anthropic" \/ (format = "responses" /\ f.kind # "thinking")
                               /\ f.at \notin h.opened \ h.shut))
  BY DEF ReadPiece, Hearing
<1> HIDE DEF r
<1>5. ~h.astray /\ (at \in h.opened \ h.shut \/ format \notin {"anthropic", "responses"}
                          \/ (format = "responses" /\ kind = "thinking")) => ~r.astray
  BY <1>1, <1>4
<1> QED
  BY <1>1, <1>2, <1>3, <1>5 DEF f, r

LEMMA OpenRead ==
  ASSUME NEW format, NEW h, DOMAIN h = Hearing, NEW at, NEW kind, NEW name, NEW piece
  PROVE  LET f == Frame("open", at, kind, name, piece)
             r == Read(format, h, f) IN
         /\ r.text = h.text /\ r.thinking = h.thinking
         /\ r.calls = IF kind = "tool" THEN HearCall(h.calls, f) ELSE h.calls
         /\ r.opened = h.opened \cup {at} /\ r.shut = h.shut /\ r.ending = h.ending
         /\ ~h.astray /\ at \notin h.opened /\ (format # "anthropic" \/ h.opened = h.shut) => ~r.astray
<1> DEFINE f == Frame("open", at, kind, name, piece)
<1>1. f.type = "open" /\ f.at = at /\ f.kind = kind /\ f.name = name /\ f.piece = piece
  BY FrameIs
<1> HIDE DEF f
<1>2. Read(format, h, f) = ReadOpen(format, h, f)
  BY <1>1 DEF Read
<1> QED
  BY <1>1, <1>2 DEF ReadOpen, Hearing, f

LEMMA ShutRead ==
  ASSUME NEW format, NEW h, DOMAIN h = Hearing, NEW at, NEW kind, NEW name, NEW piece
  PROVE  LET r == Read(format, h, Frame("shut", at, kind, name, piece)) IN
         /\ r.text = h.text /\ r.thinking = h.thinking /\ r.calls = h.calls
         /\ r.opened = h.opened /\ r.shut = h.shut \cup {at} /\ r.ending = h.ending
         /\ ~h.astray /\ at \in h.opened \ h.shut => ~r.astray
<1> DEFINE f == Frame("shut", at, kind, name, piece)
<1>1. f.type = "shut" /\ f.at = at
  BY FrameIs
<1> HIDE DEF f
<1>2. Read(format, h, f) = [h EXCEPT !.shut = @ \cup {f.at}, !.astray = @ \/ f.at \notin h.opened \ h.shut]
  BY <1>1 DEF Read
<1> QED
  BY <1>1, <1>2 DEF Hearing, f

LEMMA EndRead ==
  ASSUME NEW format, NEW h, DOMAIN h = Hearing, NEW at, NEW kind, NEW name, NEW piece
  PROVE  LET r == Read(format, h, Frame("end", at, kind, name, piece)) IN
         /\ r.text = h.text /\ r.thinking = h.thinking /\ r.calls = h.calls
         /\ ~h.astray /\ h.ending = "none" /\ (format # "anthropic" \/ h.opened = h.shut) => ~r.astray
<1> DEFINE f == Frame("end", at, kind, name, piece)
<1>1. f.type = "end"
  BY FrameIs
<1> HIDE DEF f
<1>2. Read(format, h, f) = [h EXCEPT !.ending = f.kind,
                                     !.astray = @ \/ h.ending # "none" \/ (format = "anthropic" /\ h.opened # h.shut)]
  BY <1>1 DEF Read
<1> QED
  BY <1>1, <1>2 DEF Hearing, f

(* A frame sent is read after those before it.                             *)
LEMMA SentIs ==
  ASSUME NEW w, WriterOK(w), NEW f, f.type \in FrameTypes, NEW format
  PROVE  HeardFrom(format, Send(w, f).frames) = Read(format, HeardFrom(format, w.frames), f)
<1>1. IsSeq(w.frames) /\ DOMAIN w = Writing
  BY DEF WriterOK, FramesOK
<1>2. Send(w, f).frames = Append(w.frames, f)
  BY <1>1 DEF Send, Writing
<1>3. HeardFrom(format, Append(w.frames, f)) = Read(format, HeardFrom(format, w.frames), f)
  BY <1>1, HeardAppend
<1> QED
  BY <1>2, <1>3

LEMMA SentKeeps ==
  ASSUME NEW w, WriterOK(w), NEW f, f.type \in FrameTypes
  PROVE  /\ WriterOK(Send(w, f))
         /\ Send(w, f).items = w.items /\ Send(w, f).open = w.open /\ Send(w, f).openTool = w.openTool
BY SendKeepsShape DEF Send, WriterOK, Writing

LEMMA HeardShape ==
  ASSUME NEW w, WriterOK(w), NEW format
  PROVE  DOMAIN HeardFrom(format, w.frames) = Hearing
<1>1. IsSeq(w.frames)
  BY DEF WriterOK, FramesOK
<1>2. DOMAIN w.frames = 1 .. Len(w.frames) /\ Len(w.frames) \in Nat
  BY <1>1, SeqShape
<1>3. \A i \in 1 .. Len(w.frames) : w.frames[i].type \in FrameTypes
  BY <1>2 DEF WriterOK, FramesOK
<1> QED
  BY <1>2, <1>3, HeardToTheEnd

(* A stream that told a text and thoughts, with nothing astray.            *)
Plain(format, w, text, thinking) ==
  LET h == HeardFrom(format, w.frames) IN
  /\ h.text = text /\ h.thinking = thinking /\ ~h.astray /\ h.ending = "none"
  /\ format \in {"anthropic", "responses"} => h.opened = 1 .. Len(w.items)
  /\ format = "anthropic" =>
       /\ h.shut = 1 .. (IF w.open = "none" THEN Len(w.items) ELSE Len(w.items) - 1)
       /\ w.open # "none" => Len(w.items) > 0
  /\ format = "responses" => h.shut = {}

\* Calls with the same names and arguments.
Alike(calls, others) ==
  /\ Len(calls) = Len(others)
  /\ \A j \in DOMAIN others : calls[j].name = others[j].name /\ calls[j].pieces = others[j].pieces

\* Each call of an Anthropic stream is a block of its own, the latest the one
\* that is open, if that is a call.
Blocks(h, w, calls) ==
  /\ CallsOK(h.calls) /\ Alike(h.calls, calls)
  /\ \A j \in DOMAIN h.calls : h.calls[j].tool \in 1 .. Len(w.items)
  /\ w.open = "tool" => /\ Len(calls) > 0 /\ calls[Len(calls)].tool = w.openTool
                        /\ h.calls[Len(calls)].tool = Len(w.items)

\* The items of a Responses stream are the calls, and a message with the text.
Items(heard, items, text, calls) ==
  /\ CallsOK(heard) /\ Alike(heard, calls) /\ ContentsOK(items)
  /\ \A j \in DOMAIN heard : heard[j].tool \in DOMAIN items /\ items[heard[j].tool] = calls[j]
  /\ \A p \in DOMAIN items :
       \/ items[p].kind = "text" /\ items[p].pieces = text
       \/ \E j \in DOMAIN heard : heard[j].tool = p
  /\ \A p, q \in DOMAIN items : items[p].kind = "text" /\ items[q].kind = "text" => p = q
  /\ (\A p \in DOMAIN items : items[p].kind # "text") => text = <<>>

\* A stream that told some calls too.
Tells(format, w, text, calls) ==
  LET h == HeardFrom(format, w.frames) IN
  /\ format = "chat"      => h.calls = calls
  /\ format = "gemini"    => h.calls = <<>> /\ w.items = calls
  /\ format = "anthropic" => Blocks(h, w, calls)
  /\ format = "responses" => Items(h.calls, w.items, text, calls)

(* One event more, in a stream of Chat Completions ...                     *)
LEMMA ChatTells ==
  ASSUME NEW w, WriterOK(w), NEW text, NEW thinking, NEW calls, CallsOK(calls),
         NEW e, Proper(calls, e), Plain("chat", w, text, thinking), Tells("chat", w, text, calls)
  PROVE  LET v == ChatWrite(w, e) IN
         /\ Plain("chat", v, PiecesAfter("text", text, e), PiecesAfter("thinking", thinking, e))
         /\ Tells("chat", v, PiecesAfter("text", text, e), CallsAfter(calls, e))
<1> DEFINE f == Frame("piece", e.tool, e.kind, e.name, e.piece)
           v == Send(w, f)
           h == HeardFrom("chat", w.frames)
           r == HeardFrom("chat", v.frames)
<1>0. f.type \in FrameTypes /\ f.at = e.tool /\ f.name = e.name /\ f.piece = e.piece
  BY FrameIs DEF FrameTypes
<1>1. ChatWrite(w, e) = v
  BY DEF ChatWrite
<1> HIDE DEF f
<1>2. DOMAIN h = Hearing /\ r = Read("chat", h, f)
  BY <1>0, SentIs, HeardShape
<1>3. h.text = text /\ h.thinking = thinking /\ ~h.astray /\ h.ending = "none" /\ h.calls = calls
  BY DEF Plain, Tells
<1> HIDE DEF h
<1> DEFINE s == Read("chat", h, f)
<1>4. /\ s.text = IF e.kind = "text" THEN Append(h.text, e.piece) ELSE h.text
      /\ s.thinking = IF e.kind = "thinking" THEN Append(h.thinking, e.piece) ELSE h.thinking
      /\ s.calls = IF e.kind = "tool" THEN HearCall(h.calls, f) ELSE h.calls
      /\ s.ending = h.ending /\ ~s.astray
  BY <1>2, <1>3, PieceRead DEF f
<1> HIDE DEF s, r
<1>5. e.kind = "tool" => HearCall(calls, f) = CollectTool(calls, e)
  <2> HAVE e.kind = "tool"
  <2>1. CASE \A j \in DOMAIN calls : calls[j].tool # e.tool
    <3>1. HearCall(calls, f) = Append(calls, Content("tool", e.tool, e.name, WithPiece(<<>>, e.piece)))
      BY <1>0, <2>1, HearFirst
    <3> QED
      BY <2>1, <3>1, CollectFirst
  <2>2. CASE ~ \A j \in DOMAIN calls : calls[j].tool # e.tool
    <3>1. PICK j \in DOMAIN calls : calls[j].tool = e.tool
      BY <2>2
    <3>2. e.name = Unnamed /\ e.piece # NoPiece
      BY <2>2 DEF Proper
    <3>3. HearCall(calls, f) = Replaced(calls, j, With(calls[j], e.piece))
      BY <1>0, <3>1, <3>2, HearMore
    <3>4. CollectTool(calls, e) = Replaced(calls, j, With(calls[j], e.piece))
      BY <3>1, <3>2, CollectMore
    <3> QED
      BY <3>3, <3>4
  <2> QED
    BY <2>1, <2>2
<1>6. /\ r.text = PiecesAfter("text", text, e) /\ r.thinking = PiecesAfter("thinking", thinking, e)
      /\ r.calls = CallsAfter(calls, e) /\ r.ending = "none" /\ ~r.astray
  BY <1>2, <1>3, <1>4, <1>5 DEF s, PiecesAfter, CallsAfter
<1> QED
  BY <1>1, <1>6 DEF Plain, Tells, r

(* ... and in Gemini's, where the calls are kept.                          *)
LEMMA GeminiTells ==
  ASSUME NEW w, WriterOK(w), NEW text, NEW thinking, NEW calls, CallsOK(calls),
         NEW e, Proper(calls, e), Plain("gemini", w, text, thinking), Tells("gemini", w, text, calls)
  PROVE  LET v == GeminiWrite(w, e) IN
         /\ Plain("gemini", v, PiecesAfter("text", text, e), PiecesAfter("thinking", thinking, e))
         /\ Tells("gemini", v, PiecesAfter("text", text, e), CallsAfter(calls, e))
<1> DEFINE h == HeardFrom("gemini", w.frames)
<1>0. h.text = text /\ h.thinking = thinking /\ ~h.astray /\ h.ending = "none" /\ h.calls = <<>> /\ w.items = calls
  BY DEF Plain, Tells
<1>1. CASE e.kind = "tool"
  <2> DEFINE v == [w EXCEPT !.items = CollectTool(@, e)]
  <2>1. GeminiWrite(w, e) = v
    BY <1>1 DEF GeminiWrite
  <2>2. v.frames = w.frames /\ v.items = CollectTool(calls, e)
    BY <1>0 DEF WriterOK, Writing
  <2> HIDE DEF v
  <2> QED
    BY <1>0, <1>1, <2>1, <2>2 DEF Plain, Tells, PiecesAfter, CallsAfter
<1>2. CASE e.kind # "tool"
  <2> DEFINE f == Frame("piece", 0, e.kind, Unnamed, e.piece)
             v == Send(w, f)
             r == HeardFrom("gemini", v.frames)
             s == Read("gemini", h, f)
  <2>0. f.type \in FrameTypes
    BY FrameIs DEF FrameTypes
  <2>1. GeminiWrite(w, e) = v
    BY <1>2 DEF GeminiWrite
  <2> HIDE DEF f
  <2>2. DOMAIN h = Hearing /\ r = s /\ v.items = w.items
    BY <2>0, SentIs, SentKeeps, HeardShape
  <2> HIDE DEF h, r, v
  <2>3. /\ s.text = IF e.kind = "text" THEN Append(h.text, e.piece) ELSE h.text
        /\ s.thinking = IF e.kind = "thinking" THEN Append(h.thinking, e.piece) ELSE h.thinking
        /\ s.calls = IF e.kind = "tool" THEN HearCall(h.calls, f) ELSE h.calls
        /\ s.ending = h.ending /\ ~s.astray
    BY <1>0, <2>2, PieceRead DEF f
  <2> HIDE DEF s
  <2>4. /\ r.text = PiecesAfter("text", text, e) /\ r.thinking = PiecesAfter("thinking", thinking, e)
        /\ r.calls = <<>> /\ r.ending = "none" /\ ~r.astray /\ CallsAfter(calls, e) = calls
    BY <1>0, <1>2, <2>2, <2>3 DEF PiecesAfter, CallsAfter
  <2> QED
    BY <1>0, <2>1, <2>2, <2>4 DEF Plain, Tells, r
<1> QED
  BY <1>1, <1>2

-----------------------------------------------------------------------------
(* The blocks of an Anthropic stream.                                      *)

(* A block that is shut, ...                                               *)
LEMMA BlockShut ==
  ASSUME NEW w, WriterOK(w), NEW text, NEW thinking, Plain("anthropic", w, text, thinking)
  PROVE  LET v == StopBlock(w) IN
         /\ WriterOK(v) /\ Plain("anthropic", v, text, thinking)
         /\ v.open = "none" /\ v.items = w.items
         /\ HeardFrom("anthropic", v.frames).calls = HeardFrom("anthropic", w.frames).calls
<1>1. CASE w.open = "none"
  BY <1>1 DEF StopBlock
<1>2. CASE w.open # "none"
  <2> DEFINE n == Len(w.items)
             f == Frame("shut", n, w.open, Unnamed, NoPiece)
             u == Send(w, f)
             v == [u EXCEPT !.open = "none"]
             h == HeardFrom("anthropic", w.frames)
             r == HeardFrom("anthropic", u.frames)
             s == Read("anthropic", h, f)
  <2>0. f.type \in FrameTypes
    BY FrameIs DEF FrameTypes
  <2>1. StopBlock(w) = v
    BY <1>2 DEF StopBlock
  <2> HIDE DEF f
  <2>2. r = s /\ DOMAIN h = Hearing
    BY <2>0, SentIs, HeardShape
  <2>3. WriterOK(u) /\ u.items = w.items
    BY <2>0, SentKeeps
  <2>4. n \in Nat
    BY SeqShape DEF WriterOK
  <2>5. h.text = text /\ h.thinking = thinking /\ ~h.astray /\ h.ending = "none" /\ h.opened = 1 .. n /\ h.shut = 1 .. n - 1 /\ n > 0
    BY <1>2 DEF Plain
  <2> HIDE DEF u, h, r, n
  <2>6. v.frames = u.frames /\ v.items = u.items /\ v.open = "none" /\ WriterOK(v)
    BY <2>3 DEF WriterOK, Writing
  <2>7. n \in h.opened \ h.shut /\ h.shut \cup {n} = 1 .. n
    BY <2>4, <2>5
  <2>11. DOMAIN h = Hearing /\ ~h.astray /\ n \in h.opened \ h.shut
    BY <2>2, <2>5, <2>7
  <2>8. /\ s.text = h.text /\ s.thinking = h.thinking /\ s.calls = h.calls
        /\ s.opened = h.opened /\ s.shut = h.shut \cup {n} /\ s.ending = h.ending /\ ~s.astray
    BY <2>11, ShutRead DEF f
  <2> HIDE DEF s, v
  <2>9. /\ r.text = text /\ r.thinking = thinking /\ ~r.astray /\ r.ending = "none" /\ r.calls = h.calls
        /\ r.opened = 1 .. n /\ r.shut = 1 .. n
    BY <2>2, <2>5, <2>7, <2>8
  <2>10. Plain("anthropic", v, text, thinking)
    BY <2>3, <2>6, <2>9 DEF Plain, r, n
  <2> QED
    BY <2>1, <2>3, <2>6, <2>9, <2>10 DEF h, r
<1> QED
  BY <1>1, <1>2

(* ... one that is opened after it ...                                     *)
OpenFrame(w, kind, name) == Frame("open", Len(w.items) + 1, kind, name, NoPiece)
Opened(w, v, kind, tool, name) ==
  LET h == HeardFrom("anthropic", w.frames) IN
  /\ WriterOK(v) /\ v.open = kind /\ v.openTool = tool /\ Len(v.items) = Len(w.items) + 1
  /\ HeardFrom("anthropic", v.frames).calls =
       IF kind = "tool" THEN HearCall(h.calls, OpenFrame(w, kind, name)) ELSE h.calls

LEMMA BlockOpened ==
  ASSUME NEW w, WriterOK(w), NEW text, NEW thinking, Plain("anthropic", w, text, thinking), w.open = "none",
         NEW kind \in Kinds, NEW tool, NEW name
  PROVE  LET v == [Send(w, OpenFrame(w, kind, name)) EXCEPT !.open = kind, !.openTool = tool, !.items = Append(@, kind)] IN
         Plain("anthropic", v, text, thinking) /\ Opened(w, v, kind, tool, name)
<1> DEFINE n == Len(w.items)
           f == OpenFrame(w, kind, name)
           u == Send(w, f)
           v == [u EXCEPT !.open = kind, !.openTool = tool, !.items = Append(@, kind)]
           h == HeardFrom("anthropic", w.frames)
           r == HeardFrom("anthropic", u.frames)
           s == Read("anthropic", h, f)
<1>0. f.type \in FrameTypes
  BY FrameIs DEF FrameTypes, OpenFrame
<1> HIDE DEF f
<1>1. r = s /\ DOMAIN h = Hearing
  BY <1>0, SentIs, HeardShape
<1>2. WriterOK(u) /\ u.items = w.items
  BY <1>0, SentKeeps
<1>3. n \in Nat /\ IsSeq(w.items)
  BY SeqShape DEF WriterOK
<1>4. h.text = text /\ h.thinking = thinking /\ ~h.astray /\ h.ending = "none" /\ h.opened = 1 .. n /\ h.shut = 1 .. n
  BY DEF Plain
<1> HIDE DEF u, h, r
<1>5. /\ v.frames = u.frames /\ v.items = Append(w.items, kind) /\ v.open = kind /\ v.openTool = tool
      /\ DOMAIN v = Writing
  BY <1>2 DEF WriterOK, Writing
<1>6. IsSeq(Append(w.items, kind)) /\ Len(Append(w.items, kind)) = n + 1
  BY <1>3, AppendShape
<1> HIDE DEF v
<1>7. WriterOK(v) /\ Len(v.items) = n + 1
  BY <1>2, <1>5, <1>6 DEF WriterOK
<1> HIDE DEF n
<1>8. n + 1 \notin h.opened /\ h.opened \cup {n + 1} = 1 .. n + 1 /\ (n + 1) - 1 = n
  BY <1>3, <1>4
<1> DEFINE m == n + 1
<1>14. DOMAIN h = Hearing /\ ~h.astray /\ m \notin h.opened /\ h.opened = h.shut /\ f = Frame("open", m, kind, name, NoPiece)
  BY <1>1, <1>4, <1>8 DEF f, OpenFrame, n
<1> HIDE DEF m
<1>9. /\ s.text = h.text /\ s.thinking = h.thinking
      /\ s.calls = IF kind = "tool" THEN HearCall(h.calls, f) ELSE h.calls
      /\ s.opened = h.opened \cup {m} /\ s.shut = h.shut /\ s.ending = h.ending /\ ~s.astray
  BY <1>14, OpenRead
<1> HIDE DEF s
<1>10. /\ r.text = text /\ r.thinking = thinking /\ ~r.astray /\ r.ending = "none"
       /\ r.opened = 1 .. n + 1 /\ r.shut = 1 .. n
       /\ r.calls = IF kind = "tool" THEN HearCall(h.calls, f) ELSE h.calls
  BY <1>1, <1>4, <1>8, <1>9 DEF m
<1>11. kind # "none" /\ n + 1 > 0
  BY <1>3 DEF Kinds
<1>12. Plain("anthropic", v, text, thinking)
  BY <1>5, <1>7, <1>8, <1>10, <1>11 DEF Plain, r
<1>13. Opened(w, v, kind, tool, name)
  BY <1>5, <1>7, <1>10 DEF Opened, r, h, n, f
<1> QED
  BY <1>12, <1>13 DEF v, u, f

(* ... and the one that an event is of.                                    *)
LEMMA BlockStarted ==
  ASSUME NEW w, WriterOK(w), NEW text, NEW thinking, Plain("anthropic", w, text, thinking),
         NEW kind \in Kinds, NEW tool, NEW name
  PROVE  LET v == StartBlock(w, kind, tool, name) IN
         /\ WriterOK(v) /\ Plain("anthropic", v, text, thinking) /\ v.open = kind
         /\ kind = "tool" => v.openTool = tool
         /\ w.open = kind /\ (kind = "tool" => w.openTool = tool) => v = w
         /\ ~ (w.open = kind /\ (kind = "tool" => w.openTool = tool)) => Opened(w, v, kind, tool, name)
<1>1. CASE w.open = kind /\ (kind = "tool" => w.openTool = tool)
  BY <1>1 DEF StartBlock
<1>2. CASE ~ (w.open = kind /\ (kind = "tool" => w.openTool = tool))
  <2> DEFINE u == StopBlock(w)
             v == [Send(u, OpenFrame(u, kind, name)) EXCEPT !.open = kind, !.openTool = tool, !.items = Append(@, kind)]
  <2>1. /\ WriterOK(u) /\ Plain("anthropic", u, text, thinking) /\ u.open = "none" /\ u.items = w.items
        /\ HeardFrom("anthropic", u.frames).calls = HeardFrom("anthropic", w.frames).calls
    BY BlockShut
  <2>2. StartBlock(w, kind, tool, name) = v
    BY <1>2 DEF StartBlock, OpenFrame
  <2> HIDE DEF u
  <2>3. Plain("anthropic", v, text, thinking) /\ Opened(u, v, kind, tool, name)
    BY <2>1, BlockOpened
  <2> HIDE DEF v
  <2>4. Opened(w, v, kind, tool, name)
    BY <2>1, <2>3 DEF Opened, OpenFrame
  <2> QED
    BY <1>2, <2>2, <2>3, <2>4 DEF Opened
<1> QED
  BY <1>1, <1>2

(* A piece of the block that is open.                                      *)
BlockPiece(w, kind, piece) == Frame("piece", Len(w.items), kind, Unnamed, piece)

LEMMA BlockGoesOn ==
  ASSUME NEW w, WriterOK(w), NEW text, NEW thinking, Plain("anthropic", w, text, thinking),
         NEW kind \in Kinds, w.open = kind, NEW piece
  PROVE  LET v == Send(w, BlockPiece(w, kind, piece))
             h == HeardFrom("anthropic", w.frames) IN
         /\ WriterOK(v) /\ v.open = w.open /\ v.openTool = w.openTool /\ v.items = w.items
         /\ Plain("anthropic", v, IF kind = "text" THEN Append(text, piece) ELSE text,
                                  IF kind = "thinking" THEN Append(thinking, piece) ELSE thinking)
         /\ HeardFrom("anthropic", v.frames).calls =
              IF kind = "tool" THEN HearCall(h.calls, BlockPiece(w, kind, piece)) ELSE h.calls
<1> DEFINE n == Len(w.items)
           f == BlockPiece(w, kind, piece)
           v == Send(w, f)
           h == HeardFrom("anthropic", w.frames)
           r == HeardFrom("anthropic", v.frames)
           s == Read("anthropic", h, f)
           more == IF kind = "text" THEN Append(text, piece) ELSE text
           thoughts == IF kind = "thinking" THEN Append(thinking, piece) ELSE thinking
<1>0. f.type \in FrameTypes
  BY FrameIs DEF FrameTypes, BlockPiece
<1> HIDE DEF f
<1>1. r = s /\ DOMAIN h = Hearing
  BY <1>0, SentIs, HeardShape
<1>2. WriterOK(v) /\ v.items = w.items /\ v.open = w.open /\ v.openTool = w.openTool
  BY <1>0, SentKeeps
<1>3. n \in Nat /\ IsSeq(w.items)
  BY SeqShape DEF WriterOK
<1>4. kind # "none"
  BY DEF Kinds
<1>5. h.text = text /\ h.thinking = thinking /\ ~h.astray /\ h.ending = "none" /\ h.opened = 1 .. n /\ h.shut = 1 .. n - 1 /\ n > 0
  BY <1>4 DEF Plain
<1> HIDE DEF v, h, r, n
<1>6. n \in h.opened \ h.shut
  BY <1>3, <1>5
<1>7. /\ s.text = IF kind = "text" THEN Append(h.text, piece) ELSE h.text
      /\ s.thinking = IF kind = "thinking" THEN Append(h.thinking, piece) ELSE h.thinking
      /\ s.calls = IF kind = "tool" THEN HearCall(h.calls, f) ELSE h.calls
      /\ s.opened = h.opened /\ s.shut = h.shut /\ s.ending = h.ending /\ ~s.astray
  BY <1>1, <1>5, <1>6, PieceRead DEF f, BlockPiece, n
<1> HIDE DEF s
<1>8. /\ r.text = more /\ r.thinking = thoughts /\ ~r.astray /\ r.ending = "none"
      /\ r.opened = 1 .. n /\ r.shut = 1 .. n - 1
      /\ r.calls = IF kind = "tool" THEN HearCall(h.calls, f) ELSE h.calls
  BY <1>1, <1>5, <1>7
<1> HIDE DEF more, thoughts
<1>9. Plain("anthropic", v, more, thoughts)
  BY <1>2, <1>4, <1>5, <1>8 DEF Plain, r, n
<1> QED
  BY <1>2, <1>8, <1>9 DEF r, h, v, f, more, thoughts

(* So an Anthropic stream tells a text and thoughts as they come, ...      *)
LEMMA AnthropicPlain ==
  ASSUME NEW w, WriterOK(w), NEW text, NEW thinking, Plain("anthropic", w, text, thinking),
         NEW calls, NEW e, Proper(calls, e)
  PROVE  LET v == AnthropicWrite(w, e) IN
         /\ Plain("anthropic", v, PiecesAfter("text", text, e), PiecesAfter("thinking", thinking, e))
         /\ WriterOK(v) /\ v.open = e.kind /\ (e.kind = "tool" => v.openTool = e.tool)
<1> DEFINE u == StartBlock(w, e.kind, e.tool, e.name)
           v == Send(u, BlockPiece(u, e.kind, e.piece))
<1>0. e.kind \in Kinds /\ (e.kind # "tool" => e.piece # NoPiece)
  BY DEF Proper
<1>1. /\ WriterOK(u) /\ Plain("anthropic", u, text, thinking) /\ u.open = e.kind
      /\ e.kind = "tool" => u.openTool = e.tool
  BY <1>0, BlockStarted
<1>2. AnthropicWrite(w, e) = IF e.piece = NoPiece THEN u ELSE v
  BY DEF AnthropicWrite, BlockPiece
<1> HIDE DEF u
<1>3. CASE e.piece = NoPiece
  <2>1. e.kind = "tool"
    BY <1>0, <1>3
  <2> QED
    BY <1>1, <1>2, <1>3, <2>1 DEF PiecesAfter
<1>4. CASE e.piece # NoPiece
  <2>1. /\ WriterOK(v) /\ v.open = u.open /\ v.openTool = u.openTool /\ v.items = u.items
        /\ Plain("anthropic", v, IF e.kind = "text" THEN Append(text, e.piece) ELSE text,
                                 IF e.kind = "thinking" THEN Append(thinking, e.piece) ELSE thinking)
    BY <1>0, <1>1, BlockGoesOn
  <2> HIDE DEF v
  <2> QED
    BY <1>1, <1>2, <1>4, <2>1 DEF PiecesAfter
<1> QED
  BY <1>3, <1>4

LEMMA AlikeAppend ==
  ASSUME NEW a, NEW b, IsSeq(a), IsSeq(b), Alike(a, b),
         NEW x, NEW y, x.name = y.name, x.pieces = y.pieces
  PROVE  Alike(Append(a, x), Append(b, y))
<1> DEFINE c == Append(a, x)
           d == Append(b, y)
           n == Len(b)
<1>1. /\ Len(c) = Len(a) + 1 /\ DOMAIN a = 1 .. Len(a) /\ Len(a) \in Nat
      /\ \A i \in DOMAIN a : c[i] = a[i]
      /\ c[Len(a) + 1] = x
  BY AppendShape
<1>2. /\ Len(d) = n + 1 /\ DOMAIN b = 1 .. n /\ n \in Nat /\ DOMAIN d = 1 .. n + 1
      /\ \A i \in DOMAIN b : d[i] = b[i]
      /\ d[n + 1] = y
  BY AppendShape
<1> HIDE DEF c, d
<1>3. Len(a) = n /\ \A i \in 1 .. n : a[i].name = b[i].name /\ a[i].pieces = b[i].pieces
  BY <1>2 DEF Alike
<1>4. \A i \in DOMAIN d : i \in 1 .. n \/ i = n + 1
  BY <1>2
<1>5. \A i \in DOMAIN d : c[i].name = d[i].name /\ c[i].pieces = d[i].pieces
  BY <1>1, <1>2, <1>3, <1>4
<1> QED
  BY <1>1, <1>2, <1>3, <1>5 DEF Alike, c, d

LEMMA AlikeReplaced ==
  ASSUME NEW a, NEW b, ContentsOK(a), ContentsOK(b), Alike(a, b), NEW j \in DOMAIN b, NEW piece
  PROVE  Alike(Replaced(a, j, With(a[j], piece)), Replaced(b, j, With(b[j], piece)))
<1> DEFINE x == With(a[j], piece)
           y == With(b[j], piece)
           c == Replaced(a, j, x)
           d == Replaced(b, j, y)
<1>0. /\ IsSeq(a) /\ IsSeq(b) /\ DOMAIN a = 1 .. Len(a) /\ DOMAIN b = 1 .. Len(b) /\ Len(a) = Len(b)
      /\ \A i \in DOMAIN b : a[i].name = b[i].name /\ a[i].pieces = b[i].pieces
  BY SeqShape, ContentsAre DEF Alike
<1>1. ContentOK(a[j]) /\ ContentOK(b[j])
  BY <1>0, ContentsAre
<1>2. x.name = y.name /\ x.pieces = y.pieces
  <2>1. x.name = a[j].name /\ x.pieces = Append(a[j].pieces, piece)
    BY <1>1, WithIs
  <2>2. y.name = b[j].name /\ y.pieces = Append(b[j].pieces, piece)
    BY <1>1, WithIs
  <2>3. a[j].name = b[j].name /\ a[j].pieces = b[j].pieces
    BY <1>0
  <2> QED
    BY <2>1, <2>2, <2>3
<1> HIDE DEF x, y
<1>3. /\ Len(c) = Len(a) /\ \A i \in DOMAIN a : c[i] = IF i = j THEN x ELSE a[i]
  BY <1>0, ReplaceShape
<1>4. /\ Len(d) = Len(b) /\ DOMAIN d = DOMAIN b /\ \A i \in DOMAIN b : d[i] = IF i = j THEN y ELSE b[i]
  BY <1>0, ReplaceShape
<1> HIDE DEF c, d
<1>5. \A i \in DOMAIN d : c[i].name = d[i].name /\ c[i].pieces = d[i].pieces
  BY <1>0, <1>2, <1>3, <1>4
<1> QED
  BY <1>0, <1>3, <1>4, <1>5 DEF Alike, c, d, x, y

(* A call that is opened and then goes on is heard as one.                 *)
LEMMA HearOpened ==
  ASSUME NEW calls, CallsOK(calls), NEW at, \A j \in DOMAIN calls : calls[j].tool # at, NEW name, NEW piece
  PROVE  LET one == HearCall(calls, Frame("open", at, "tool", name, NoPiece)) IN
         /\ one = Append(calls, Content("tool", at, name, <<>>))
         /\ piece # NoPiece =>
              HearCall(one, Frame("piece", at, "tool", Unnamed, piece)) =
                Append(calls, Content("tool", at, name, WithPiece(<<>>, piece)))
<1> DEFINE f == Frame("open", at, "tool", name, NoPiece)
           g == Frame("piece", at, "tool", Unnamed, piece)
           new == Content("tool", at, name, <<>>)
           one == Append(calls, new)
           n == Len(calls)
<1>0. f.at = at /\ f.name = name /\ f.piece = NoPiece /\ g.at = at /\ g.piece = piece
  BY FrameIs
<1> HIDE DEF f, g
<1>1. HearCall(calls, f) = one
  <2>1. HearCall(calls, f) = Append(calls, Content("tool", f.at, f.name, WithPiece(<<>>, f.piece)))
    BY <1>0, HearFirst
  <2> QED
    BY <1>0, <2>1, FirstPiece
<1>2. ASSUME piece # NoPiece
      PROVE  HearCall(one, g) = Append(calls, Content("tool", at, name, WithPiece(<<>>, piece)))
  <2>1. CallsOK(one)
    BY ShortShape, CallBegun
  <2>2. IsSeq(calls) /\ n \in Nat
    BY ContentsAre, SeqShape DEF CallsOK
  <2>3. new.tool = at
    BY ContentIs
  <2>4. With(new, piece) = Content("tool", at, name, Append(<<>>, piece))
    BY DEF With, Content
  <2>5. Append(<<>>, piece) = WithPiece(<<>>, piece)
    BY <1>2 DEF WithPiece
  <2> HIDE DEF new
  <2>6. n + 1 \in DOMAIN one /\ one[n + 1] = new
    BY <2>2, AppendShape
  <2> HIDE DEF one
  <2>7. HearCall(one, g) = Replaced(one, n + 1, With(one[n + 1], g.piece))
    BY <1>0, <1>2, <2>1, <2>3, <2>6, HearMore
  <2>8. Replaced(one, n + 1, With(new, piece)) = Append(calls, With(new, piece))
    <3> DEFINE z == With(new, piece)
    <3> HIDE DEF z
    <3>1. Replaced(Append(calls, new), Len(calls) + 1, z) = Append(calls, z)
      BY <2>2, ReplaceLast
    <3> QED
      BY <3>1 DEF z, one
  <2> QED
    BY <1>0, <2>4, <2>5, <2>6, <2>7, <2>8
<1> QED
  BY <1>1, <1>2 DEF f, g

(* ... and its calls, where a call goes on only in the block that is open. *)
LEMMA AnthropicTells ==
  ASSUME NEW w, WriterOK(w), NEW text, NEW thinking, Plain("anthropic", w, text, thinking),
         NEW calls, CallsOK(calls), Tells("anthropic", w, text, calls), NEW e, Proper(calls, e),
         \A j \in DOMAIN calls : e.kind = "tool" /\ calls[j].tool = e.tool => w.open = "tool" /\ w.openTool = e.tool
  PROVE  Tells("anthropic", AnthropicWrite(w, e), PiecesAfter("text", text, e), CallsAfter(calls, e))
<1> DEFINE u == StartBlock(w, e.kind, e.tool, e.name)
           f == BlockPiece(u, e.kind, e.piece)
           v == IF e.piece = NoPiece THEN u ELSE Send(u, f)
           h == HeardFrom("anthropic", w.frames)
           k == HeardFrom("anthropic", u.frames)
           r == HeardFrom("anthropic", v.frames)
           n == Len(w.items)
           m == Len(calls)
<1>0. e.kind \in Kinds /\ (e.kind # "tool" => e.piece # NoPiece)
  BY DEF Proper
<1>1. /\ WriterOK(u) /\ Plain("anthropic", u, text, thinking) /\ u.open = e.kind
      /\ e.kind = "tool" => u.openTool = e.tool
      /\ w.open = e.kind /\ (e.kind = "tool" => w.openTool = e.tool) => u = w
      /\ ~ (w.open = e.kind /\ (e.kind = "tool" => w.openTool = e.tool)) => Opened(w, u, e.kind, e.tool, e.name)
  BY <1>0, BlockStarted
<1>2. AnthropicWrite(w, e) = v
  BY DEF AnthropicWrite, BlockPiece
<1> HIDE DEF u
<1>3. /\ v.open = e.kind /\ v.openTool = u.openTool /\ v.items = u.items
      /\ r.calls = IF e.kind = "tool" /\ e.piece # NoPiece THEN HearCall(k.calls, f) ELSE k.calls
  <2>1. CASE e.piece = NoPiece
    BY <1>1, <2>1
  <2>2. CASE e.piece # NoPiece
    <3>1. LET x == Send(u, f) IN
            /\ x.open = u.open /\ x.openTool = u.openTool /\ x.items = u.items
            /\ HeardFrom("anthropic", x.frames).calls = IF e.kind = "tool" THEN HearCall(k.calls, f) ELSE k.calls
      BY <1>0, <1>1, BlockGoesOn
    <3> HIDE DEF f, k
    <3> QED
      BY <1>1, <2>2, <3>1
  <2> QED
    BY <2>1, <2>2
<1>4. /\ CallsOK(h.calls) /\ Alike(h.calls, calls)
      /\ \A j \in DOMAIN h.calls : h.calls[j].tool \in 1 .. n
      /\ w.open = "tool" => m > 0 /\ calls[m].tool = w.openTool /\ h.calls[m].tool = n
  BY DEF Tells, Blocks
<1>5. /\ IsSeq(calls) /\ DOMAIN calls = 1 .. m /\ m \in Nat /\ IsSeq(h.calls) /\ DOMAIN h.calls = 1 .. m /\ Len(h.calls) = m
      /\ n \in Nat /\ ContentsOK(calls) /\ ContentsOK(h.calls)
  <2>1. IsSeq(w.items) /\ IsSeq(calls) /\ IsSeq(h.calls) /\ ContentsOK(calls) /\ ContentsOK(h.calls)
    BY <1>4, ContentsAre DEF CallsOK, WriterOK
  <2>2. Len(h.calls) = Len(calls)
    BY <1>4 DEF Alike
  <2> HIDE DEF h
  <2> QED
    BY <2>1, <2>2, SeqShape
<1>6. SUFFICES Blocks(r, v, CallsAfter(calls, e))
  BY <1>2 DEF Tells
<1> HIDE DEF v, h, k, r
<1>7. CASE e.kind # "tool"
  <2>1. r.calls = h.calls /\ (Len(u.items) = n \/ Len(u.items) = n + 1)
    BY <1>1, <1>3, <1>7 DEF Opened, h, k
  <2>2. \A j \in DOMAIN h.calls : h.calls[j].tool \in 1 .. Len(u.items)
    BY <1>4, <1>5, <2>1
  <2> QED
    BY <1>3, <1>4, <1>7, <2>1, <2>2 DEF Blocks, CallsAfter
<1>8. CASE e.kind = "tool" /\ \E j \in DOMAIN calls : calls[j].tool = e.tool
  <2>1. w.open = "tool" /\ w.openTool = e.tool
    BY <1>8
  <2>2. u = w /\ e.name = Unnamed /\ e.piece # NoPiece
    BY <1>1, <1>8, <2>1 DEF Proper
  <2>3. m \in DOMAIN calls /\ calls[m].tool = e.tool /\ m \in DOMAIN h.calls /\ h.calls[m].tool = n
    BY <1>4, <1>5, <2>1
  <2>4. CollectTool(calls, e) = Replaced(calls, m, With(calls[m], e.piece))
    BY <2>2, <2>3, CollectMore
  <2>5. f.at = n /\ f.piece = e.piece /\ k.calls = h.calls
    BY <2>2, FrameIs DEF BlockPiece, k, h
  <2> HIDE DEF f
  <2>6. HearCall(h.calls, f) = Replaced(h.calls, m, With(h.calls[m], f.piece))
    BY <1>4, <2>2, <2>3, <2>5, HearMore
  <2> DEFINE c == Replaced(calls, m, With(calls[m], e.piece))
             d == Replaced(h.calls, m, With(h.calls[m], e.piece))
  <2>7. r.calls = d /\ CallsAfter(calls, e) = c
    BY <1>3, <1>8, <2>2, <2>4, <2>5, <2>6 DEF CallsAfter
  <2>8. CallsOK(d)
    <3> DEFINE g == h.calls
    <3>1. CallsOK(g) /\ m \in DOMAIN g
      BY <1>4, <2>3
    <3> HIDE DEF g
    <3>2. CallsOK(Replaced(g, m, With(g[m], e.piece)))
      BY <3>1, CallGoesOn
    <3> QED
      BY <3>2 DEF g
  <2>9. Alike(d, c)
    <3> DEFINE g == h.calls
    <3>1. ContentsOK(g) /\ Alike(g, calls)
      BY <1>4, <1>5
    <3> HIDE DEF g
    <3>2. Alike(Replaced(g, m, With(g[m], e.piece)), Replaced(calls, m, With(calls[m], e.piece)))
      BY <1>5, <2>3, <3>1, AlikeReplaced
    <3> QED
      BY <3>2 DEF g
  <2>10. /\ Len(c) = m /\ DOMAIN d = 1 .. m /\ \A j \in 1 .. m : d[j].tool = h.calls[j].tool
         /\ c[m].tool = calls[m].tool
    <3> DEFINE x == With(calls[m], e.piece)
               y == With(h.calls[m], e.piece)
    <3>1. ContentOK(calls[m]) /\ ContentOK(h.calls[m])
      BY <1>5, <2>3, ContentsAre
    <3>2. x.tool = calls[m].tool /\ y.tool = h.calls[m].tool
      BY <3>1, WithIs
    <3> HIDE DEF x, y
    <3>3. Len(c) = m /\ \A j \in DOMAIN calls : c[j] = IF j = m THEN x ELSE calls[j]
      BY <1>5, ReplaceShape DEF x
    <3>4. DOMAIN d = DOMAIN h.calls /\ \A j \in DOMAIN h.calls : d[j] = IF j = m THEN y ELSE h.calls[j]
      BY <1>5, ReplaceShape DEF y
    <3> HIDE DEF c, d
    <3> QED
      BY <1>5, <2>3, <3>2, <3>3, <3>4
  <2> HIDE DEF c, d
  <2>11. \A j \in DOMAIN d : d[j].tool \in 1 .. n
    BY <1>4, <1>5, <2>10
  <2>12. v.open = "tool" /\ v.openTool = e.tool /\ Len(v.items) = n /\ m > 0 /\ m \in 1 .. m
    BY <1>1, <1>3, <1>5, <1>8, <2>2, <2>3
  <2>13. c[m].tool = v.openTool /\ d[m].tool = n
    BY <2>3, <2>10, <2>12
  <2> QED
    BY <2>7, <2>8, <2>9, <2>10, <2>11, <2>12, <2>13 DEF Blocks
<1>9. CASE e.kind = "tool" /\ ~ \E j \in DOMAIN calls : calls[j].tool = e.tool
  <2>1. ~ (w.open = "tool" /\ w.openTool = e.tool)
    BY <1>4, <1>5, <1>9
  <2>2. Opened(w, u, "tool", e.tool, e.name)
    BY <1>1, <1>9, <2>1
  <2>3. Len(u.items) = n + 1 /\ k.calls = HearCall(h.calls, OpenFrame(w, "tool", e.name))
    BY <2>2 DEF Opened, k, h
  <2> DEFINE at == n + 1
             pieces == WithPiece(<<>>, e.piece)
             x == Content("tool", at, e.name, pieces)
             y == Content("tool", e.tool, e.name, pieces)
             g == h.calls
             d == Append(g, x)
             c == Append(calls, y)
  <2>4. \A j \in DOMAIN g : g[j].tool # at
    BY <1>4, <1>5
  <2>5. CallsOK(g) /\ IsSeq(g) /\ Len(g) = m /\ DOMAIN g = 1 .. m /\ Alike(g, calls) /\ \A j \in DOMAIN g : g[j].tool \in 1 .. n
    BY <1>4, <1>5
  <2> HIDE DEF g, at
  <2>6. LET one == HearCall(g, Frame("open", at, "tool", e.name, NoPiece)) IN
         /\ one = Append(g, Content("tool", at, e.name, <<>>))
         /\ e.piece # NoPiece =>
              HearCall(one, Frame("piece", at, "tool", Unnamed, e.piece)) =
                Append(g, Content("tool", at, e.name, WithPiece(<<>>, e.piece)))
    BY <2>4, <2>5, HearOpened
  <2>7. k.calls = HearCall(g, Frame("open", at, "tool", e.name, NoPiece))
    BY <2>3 DEF OpenFrame, g, at
  <2>8. f = Frame("piece", at, "tool", Unnamed, e.piece)
    BY <1>9, <2>3 DEF BlockPiece, at
  <2> HIDE DEF f
  <2>9. r.calls = d
    <3>1. CASE e.piece = NoPiece
      BY <1>3, <2>6, <2>7, <3>1, FirstPiece
    <3>2. CASE e.piece # NoPiece
      BY <1>3, <1>9, <2>6, <2>7, <2>8, <3>2
    <3> QED
      BY <3>1, <3>2
  <2>10. CallsAfter(calls, e) = c
    <3>1. \A j \in DOMAIN calls : calls[j].tool # e.tool
      BY <1>9
    <3>2. CollectTool(calls, e) = Append(calls, Content("tool", e.tool, e.name, WithPiece(<<>>, e.piece)))
      BY <3>1, CollectFirst
    <3> QED
      BY <1>9, <3>2 DEF CallsAfter
  <2>11. IsSeq(pieces)
    BY FirstPiece
  <2> HIDE DEF pieces
  <2>12. CallsOK(d)
    BY <2>4, <2>5, <2>11, CallBegun
  <2>13. x.tool = at /\ y.tool = e.tool /\ x.name = y.name /\ x.pieces = y.pieces
    BY ContentIs
  <2> HIDE DEF x, y
  <2>14. Alike(d, c)
    BY <1>5, <2>5, <2>13, AlikeAppend
  <2>15. /\ Len(c) = m + 1 /\ c[m + 1] = y
    BY <1>5, AppendShape
  <2>16. DOMAIN d = 1 .. m + 1 /\ d[m + 1] = x /\ \A j \in DOMAIN g : d[j] = g[j]
    BY <2>5, AppendShape
  <2> HIDE DEF c, d
  <2>17. \A j \in DOMAIN d : d[j].tool \in 1 .. at
    <3>1. \A j \in DOMAIN d : j \in DOMAIN g \/ j = m + 1
      BY <1>5, <2>5, <2>16
    <3>2. at \in 1 .. at /\ \A i \in 1 .. n : i \in 1 .. at
      BY <1>5 DEF at
    <3> QED
      BY <2>5, <2>13, <2>16, <3>1, <3>2
  <2>18. v.open = "tool" /\ v.openTool = e.tool /\ Len(v.items) = at /\ m + 1 > 0
    BY <1>1, <1>3, <1>5, <1>9, <2>3 DEF at
  <2> QED
    BY <2>9, <2>10, <2>12, <2>13, <2>14, <2>15, <2>16, <2>17, <2>18 DEF Blocks
<1> QED
  BY <1>7, <1>8, <1>9

-----------------------------------------------------------------------------
(* The items of a Responses stream.                                        *)

TextAt(items) == SelectInSeq(items, LAMBDA item : item.kind = "text")

LEMMA TextAtIs ==
  ASSUME NEW items, IsSeq(items)
  PROVE  \/ TextAt(items) = 0 /\ \A i \in DOMAIN items : items[i].kind # "text"
         \/ TextAt(items) \in DOMAIN items /\ TextAt(items) # 0 /\ items[TextAt(items)].kind = "text"
<1> DEFINE I == {i \in 1 .. Len(items) : items[i].kind = "text"}
<1>0. DOMAIN items = 1 .. Len(items) /\ Len(items) \in Nat
  BY SeqShape
<1>1. TextAt(items) = IF I # {} THEN Min(I) ELSE 0
  BY DEF TextAt, SelectInSeq
<1>2. CASE I = {}
  BY <1>0, <1>1, <1>2
<1>3. CASE I # {}
  <2>1. I \subseteq Nat
    BY <1>0
  <2> HIDE DEF I
  <2>2. \E m \in I : \A i \in I : m <= i
    BY <1>3, <2>1, LeastNatural
  <2>3. Min(I) \in I
    BY <2>2 DEF Min
  <2>4. TextAt(items) \in I
    BY <1>1, <1>3, <2>3
  <2> QED
    BY <1>0, <2>4 DEF I
<1> QED
  BY <1>2, <1>3

LEMMA ItemOfIs ==
  ASSUME NEW w, NEW e
  PROVE  ItemOf(w, e) = IF e.kind = "tool" THEN CallAt(w.items, e.tool) ELSE TextAt(w.items)
BY DEF ItemOf, TextAt

\* What an event is of, among the items of a Responses stream.
IsOf(item, e) == item.kind = e.kind /\ (e.kind = "tool" => item.tool = e.tool)

LEMMA ItemFound ==
  ASSUME NEW w, WriterOK(w), NEW e, e.kind \in {"text", "tool"}
  PROVE  \/ ItemOf(w, e) = 0 /\ \A i \in DOMAIN w.items : ~ IsOf(w.items[i], e)
         \/ ItemOf(w, e) \in DOMAIN w.items /\ ItemOf(w, e) # 0 /\ IsOf(w.items[ItemOf(w, e)], e)
<1>1. IsSeq(w.items)
  BY DEF WriterOK
<1> DEFINE items == w.items
<1> HIDE DEF items
<1>2. IsSeq(items)
  BY <1>1 DEF items
<1>3. CASE e.kind = "tool"
  <2>1. ItemOf(w, e) = CallAt(items, e.tool)
    BY <1>3, ItemOfIs DEF items
  <2> QED
    BY <1>2, <1>3, <2>1, CallAtIs DEF IsOf, items
<1>4. CASE e.kind = "text"
  <2>1. ItemOf(w, e) = TextAt(items)
    BY <1>4, ItemOfIs DEF items
  <2> QED
    BY <1>2, <1>4, <2>1, TextAtIs DEF IsOf, items
<1> QED
  BY <1>3, <1>4

\* What a Responses client has heard that tells of no call and no text.
Level(h, n, thinking) ==
  /\ h.thinking = thinking /\ ~h.astray /\ h.ending = "none" /\ h.opened = 1 .. n /\ h.shut = {}

(* An item goes on, ...                                                    *)
LEMMA ItemGoesOn ==
  ASSUME NEW w, WriterOK(w), ContentsOK(w.items), NEW text, NEW thinking, Plain("responses", w, text, thinking),
         NEW e, e.kind \in {"text", "tool"}, e.piece # NoPiece, ItemOf(w, e) # 0
  PROVE  LET v == ResponsesWrite(w, e)
             p == ItemOf(w, e)
             h == HeardFrom("responses", w.frames)
             r == HeardFrom("responses", v.frames) IN
         /\ WriterOK(v) /\ v.items = Replaced(w.items, p, With(w.items[p], e.piece))
         /\ p \in DOMAIN w.items /\ IsOf(w.items[p], e)
         /\ Level(r, Len(w.items), thinking)
         /\ r.text = PiecesAfter("text", text, e)
         /\ r.calls = IF e.kind = "tool" THEN HearCall(h.calls, Frame("piece", p, "tool", Unnamed, e.piece)) ELSE h.calls
<1> DEFINE p == ItemOf(w, e)
           n == Len(w.items)
           k == [w EXCEPT !.items[p].pieces = WithPiece(@, e.piece)]
           f == Frame("piece", p, e.kind, Unnamed, e.piece)
           v == Send(k, f)
           h == HeardFrom("responses", w.frames)
           r == HeardFrom("responses", v.frames)
           s == Read("responses", h, f)
<1>0. p \in DOMAIN w.items /\ IsOf(w.items[p], e)
  BY ItemFound
<1>1. ResponsesWrite(w, e) = v
  BY DEF ResponsesWrite, StartItem
<1> HIDE DEF p
<1>2. IsSeq(w.items) /\ DOMAIN w.items = 1 .. n /\ n \in Nat /\ ContentOK(w.items[p]) /\ DOMAIN w = Writing
  BY <1>0, SeqShape, ContentsAre DEF WriterOK
<1>3. k.frames = w.frames /\ k.items = Replaced(w.items, p, With(w.items[p], e.piece)) /\ DOMAIN k = Writing
  <2>1. k.items = [w.items EXCEPT ![p].pieces = WithPiece(@, e.piece)]
    BY <1>2 DEF Writing
  <2>2. [w.items EXCEPT ![p].pieces = WithPiece(@, e.piece)] = Replaced(w.items, p, With(w.items[p], e.piece))
    BY <1>0, <1>2 DEF With, WithPiece, ContentOK, Replaced
  <2>3. k.frames = w.frames /\ DOMAIN k = Writing
    BY <1>2 DEF Writing
  <2> HIDE DEF k
  <2> QED
    BY <2>1, <2>2, <2>3
<1> HIDE DEF k
<1>4. WriterOK(k)
  <2>1. IsSeq(k.items)
    BY <1>2, <1>3, ReplaceShape
  <2> QED
    BY <1>3, <2>1 DEF WriterOK
<1>5. f.type \in FrameTypes
  BY FrameIs DEF FrameTypes
<1> HIDE DEF f
<1>6. r = s /\ DOMAIN h = Hearing
  BY <1>3, <1>4, <1>5, SentIs, HeardShape
<1>7. WriterOK(v) /\ v.items = k.items
  BY <1>4, <1>5, SentKeeps
<1>8. h.text = text /\ Level(h, n, thinking)
  BY DEF Plain, Level
<1> HIDE DEF h, r, v, n
<1>9. DOMAIN h = Hearing /\ ~h.astray /\ p \in h.opened \ h.shut
  BY <1>0, <1>2, <1>6, <1>8 DEF Level
<1>10. /\ s.text = IF e.kind = "text" THEN Append(h.text, e.piece) ELSE h.text
       /\ s.thinking = IF e.kind = "thinking" THEN Append(h.thinking, e.piece) ELSE h.thinking
       /\ s.calls = IF e.kind = "tool" THEN HearCall(h.calls, f) ELSE h.calls
       /\ s.opened = h.opened /\ s.shut = h.shut /\ s.ending = h.ending /\ ~s.astray
  BY <1>9, PieceRead DEF f
<1> HIDE DEF s
<1>11. Level(r, n, thinking) /\ r.text = PiecesAfter("text", text, e)
  BY <1>6, <1>8, <1>10 DEF Level, PiecesAfter
<1>12. r.calls = IF e.kind = "tool" THEN HearCall(h.calls, Frame("piece", p, "tool", Unnamed, e.piece)) ELSE h.calls
  BY <1>6, <1>10 DEF f
<1> QED
  BY <1>0, <1>1, <1>3, <1>7, <1>11, <1>12 DEF p, h, r, v, n, f

(* ... or one is added.                                                    *)
Pieced(items, at, piece) == [items EXCEPT ![at].pieces = WithPiece(@, piece)]

LEMMA FirstOfItem ==
  ASSUME NEW items, IsSeq(items), NEW kind, NEW tool, NEW name, NEW piece
  PROVE  Pieced(Append(items, Content(kind, tool, name, <<>>)), Len(items) + 1, piece) =
           Append(items, Content(kind, tool, name, WithPiece(<<>>, piece)))
<1> DEFINE c == Content(kind, tool, name, <<>>)
           d == Content(kind, tool, name, WithPiece(<<>>, piece))
           more == Append(items, c)
           n == Len(items)
<1>1. more[n + 1] = c /\ n + 1 \in DOMAIN more
  BY AppendShape
<1>2. [c EXCEPT !.pieces = WithPiece(@, piece)] = d
  BY DEF Content
<1>3. Replaced(more, n + 1, d) = Append(items, d)
  <2> HIDE DEF c, d
  <2> QED
    BY ReplaceLast
<1> HIDE DEF more, d
<1>4. Pieced(more, n + 1, piece) = Replaced(more, n + 1, d)
  <2>1. [more[n + 1] EXCEPT !.pieces = WithPiece(@, piece)] = d
    BY <1>1, <1>2
  <2> QED
    BY <2>1 DEF Replaced, Pieced
<1> QED
  BY <1>3, <1>4 DEF more, d

LEMMA ItemAdded ==
  ASSUME NEW w, WriterOK(w), NEW text, NEW thinking, Plain("responses", w, text, thinking),
         NEW e, e.kind \in {"text", "tool"}, e.kind = "text" => e.piece # NoPiece, ItemOf(w, e) = 0
  PROVE  LET v == ResponsesWrite(w, e)
             at == Len(w.items) + 1
             h == HeardFrom("responses", w.frames)
             r == HeardFrom("responses", v.frames)
             one == HearCall(h.calls, Frame("open", at, "tool", e.name, NoPiece)) IN
         /\ WriterOK(v) /\ v.items = Append(w.items, Content(e.kind, e.tool, e.name, WithPiece(<<>>, e.piece)))
         /\ \A i \in DOMAIN w.items : ~ IsOf(w.items[i], e)
         /\ Level(r, at, thinking)
         /\ r.text = PiecesAfter("text", text, e)
         /\ r.calls = IF e.kind # "tool" THEN h.calls
                      ELSE IF e.piece = NoPiece THEN one
                      ELSE HearCall(one, Frame("piece", at, "tool", Unnamed, e.piece))
<1> DEFINE n == Len(w.items)
           m == n + 1
           f == Frame("open", m, e.kind, e.name, NoPiece)
           c == Content(e.kind, e.tool, e.name, <<>>)
           x == Send(w, f)
           u == [x EXCEPT !.items = Append(@, c)]
           k == [u EXCEPT !.items[m].pieces = WithPiece(@, e.piece)]
           g == Frame("piece", m, e.kind, Unnamed, e.piece)
           v == IF e.piece = NoPiece THEN k ELSE Send(k, g)
           items == Append(w.items, Content(e.kind, e.tool, e.name, WithPiece(<<>>, e.piece)))
           h == HeardFrom("responses", w.frames)
           q == HeardFrom("responses", x.frames)
           r == HeardFrom("responses", v.frames)
           s == Read("responses", h, f)
           t == Read("responses", q, g)
<1>0. \A i \in DOMAIN w.items : ~ IsOf(w.items[i], e)
  BY ItemFound
<1>1. StartItem(w, e) = u
  BY DEF StartItem
<1>2. f.type \in FrameTypes /\ g.type \in FrameTypes
  BY FrameIs DEF FrameTypes
<1>3. IsSeq(w.items) /\ DOMAIN w.items = 1 .. n /\ n \in Nat /\ DOMAIN w = Writing
  BY SeqShape DEF WriterOK
<1>4. c.kind = e.kind /\ c.tool = e.tool
  BY ContentIs
<1> HIDE DEF f, g, c
<1>5. WriterOK(x) /\ x.items = w.items /\ q = s /\ DOMAIN h = Hearing /\ DOMAIN q = Hearing
  <2>1. WriterOK(x) /\ x.items = w.items
    BY <1>2, SentKeeps
  <2>2. q = s
    BY <1>2, SentIs
  <2>3. DOMAIN h = Hearing
    BY HeardShape
  <2>4. DOMAIN q = Hearing
    BY <2>1, HeardShape
  <2> QED
    BY <2>1, <2>2, <2>3, <2>4
<1> HIDE DEF x, q, s
<1>6. u.items = Append(w.items, c) /\ u.frames = x.frames /\ DOMAIN u = Writing
  BY <1>5 DEF WriterOK, Writing
<1>7. WriterOK(u)
  <2>1. IsSeq(Append(w.items, c))
    BY <1>3, AppendShape
  <2> QED
    BY <1>5, <1>6, <2>1 DEF WriterOK
<1>8. ItemOf(u, e) = m
  <2>1. \/ ItemOf(u, e) = 0 /\ \A i \in DOMAIN u.items : ~ IsOf(u.items[i], e)
        \/ ItemOf(u, e) \in DOMAIN u.items /\ ItemOf(u, e) # 0 /\ IsOf(u.items[ItemOf(u, e)], e)
    <3> HIDE DEF u
    <3> QED
      BY <1>7, ItemFound
  <2>2. /\ DOMAIN u.items = 1 .. m /\ \A i \in 1 .. n : u.items[i] = w.items[i]
        /\ u.items[m] = c
    <3> DEFINE more == Append(w.items, c)
    <3>1. DOMAIN more = 1 .. m /\ (\A i \in 1 .. n : more[i] = w.items[i]) /\ more[m] = c
      BY <1>3, AppendShape
    <3> HIDE DEF more, u
    <3> QED
      BY <1>6, <3>1 DEF more
  <2>3. IsOf(c, e)
    BY <1>4 DEF IsOf
  <2> HIDE DEF u
  <2>4. \A i \in DOMAIN u.items : i # m => ~ IsOf(u.items[i], e)
    <3>1. \A i \in 1 .. m : i # m => i \in 1 .. n
      BY <1>3
    <3> QED
      BY <1>0, <1>3, <2>2, <3>1
  <2>5. m \in DOMAIN u.items
    BY <1>3, <2>2
  <2> QED
    BY <2>1, <2>2, <2>3, <2>4, <2>5
<1>9. ResponsesWrite(w, e) = v
  <2>1. e.kind # "thinking"
    OBVIOUS
  <2> HIDE DEF u
  <2> QED
    BY <1>1, <1>8, <2>1 DEF ResponsesWrite, g
<1>10. k.items = items /\ k.frames = x.frames /\ DOMAIN k = Writing
  <2>1. k.frames = u.frames /\ DOMAIN k = Writing /\ k.items = [u.items EXCEPT ![m].pieces = WithPiece(@, e.piece)]
    <3> HIDE DEF u
    <3> QED
      BY <1>6 DEF Writing
  <2> HIDE DEF k, u
  <2>2. k.items = [Append(w.items, c) EXCEPT ![m].pieces = WithPiece(@, e.piece)]
    BY <1>6, <2>1
  <2>3. [Append(w.items, c) EXCEPT ![m].pieces = WithPiece(@, e.piece)] = items
    <3> DEFINE l == w.items
    <3>1. IsSeq(l)
      BY <1>3
    <3> HIDE DEF l
    <3>2. Pieced(Append(l, Content(e.kind, e.tool, e.name, <<>>)), Len(l) + 1, e.piece) =
            Append(l, Content(e.kind, e.tool, e.name, WithPiece(<<>>, e.piece)))
      BY <3>1, FirstOfItem
    <3> QED
      BY <3>2 DEF c, l, Pieced
  <2> HIDE DEF items
  <2> QED
    BY <1>6, <2>1, <2>2, <2>3
<1> HIDE DEF k, u
<1>11. WriterOK(k)
  <2>1. IsSeq(items)
    BY <1>3, AppendShape
  <2> HIDE DEF items
  <2> QED
    BY <1>5, <1>10, <2>1 DEF WriterOK
<1> HIDE DEF items
<1>12. h.text = text /\ Level(h, n, thinking)
  BY DEF Plain, Level
<1>13. WriterOK(v) /\ v.items = items /\ r = IF e.piece = NoPiece THEN q ELSE t
  <2>1. CASE e.piece = NoPiece
    BY <1>10, <1>11, <2>1 DEF q
  <2>2. CASE e.piece # NoPiece
    <3> DEFINE z == Send(k, g)
    <3>1. v = z /\ WriterOK(z) /\ z.items = k.items
      BY <1>2, <1>11, <2>2, SentKeeps
    <3>2. HeardFrom("responses", z.frames) = Read("responses", HeardFrom("responses", k.frames), g)
      BY <1>2, <1>11, SentIs
    <3>3. HeardFrom("responses", k.frames) = q
      BY <1>10 DEF q
    <3> HIDE DEF z, v
    <3> QED
      BY <1>10, <2>2, <3>1, <3>2, <3>3
  <2> QED
    BY <2>1, <2>2
<1> HIDE DEF h, r, v, t
<1>14. DOMAIN h = Hearing /\ ~h.astray /\ m \notin h.opened /\ f = Frame("open", m, e.kind, e.name, NoPiece)
  BY <1>3, <1>5, <1>12 DEF Level, f
<1> HIDE DEF m
<1>15. /\ q.text = h.text /\ q.thinking = h.thinking
       /\ q.calls = IF e.kind = "tool" THEN HearCall(h.calls, f) ELSE h.calls
       /\ q.opened = h.opened \cup {m} /\ q.shut = h.shut /\ q.ending = h.ending /\ ~q.astray
  BY <1>5, <1>14, OpenRead DEF s
<1>16. q.text = text /\ Level(q, m, thinking)
  <2>1. (1 .. n) \cup {m} = 1 .. m
    BY <1>3 DEF m
  <2> QED
    BY <1>12, <1>15, <2>1 DEF Level
<1>17. DOMAIN q = Hearing /\ ~q.astray /\ m \in q.opened \ q.shut
  <2>1. m \in 1 .. m
    BY <1>3 DEF m
  <2> QED
    BY <1>5, <1>16, <2>1 DEF Level
<1>18. /\ t.text = IF e.kind = "text" THEN Append(q.text, e.piece) ELSE q.text
       /\ t.thinking = IF e.kind = "thinking" THEN Append(q.thinking, e.piece) ELSE q.thinking
       /\ t.calls = IF e.kind = "tool" THEN HearCall(q.calls, g) ELSE q.calls
       /\ t.opened = q.opened /\ t.shut = q.shut /\ t.ending = q.ending /\ ~t.astray
  BY <1>17, PieceRead DEF g, t
<1>19. Level(r, m, thinking) /\ r.text = PiecesAfter("text", text, e)
  <2>1. CASE e.piece = NoPiece
    <3>1. e.kind # "text"
      BY <2>1
    <3> QED
      BY <1>13, <1>16, <2>1, <3>1 DEF PiecesAfter
  <2>2. CASE e.piece # NoPiece
    BY <1>13, <1>16, <1>18, <2>2 DEF PiecesAfter, Level
  <2> QED
    BY <2>1, <2>2
<1>20. r.calls = IF e.kind # "tool" THEN h.calls
                 ELSE IF e.piece = NoPiece THEN HearCall(h.calls, Frame("open", m, "tool", e.name, NoPiece))
                 ELSE HearCall(HearCall(h.calls, Frame("open", m, "tool", e.name, NoPiece)),
                               Frame("piece", m, "tool", Unnamed, e.piece))
  BY <1>13, <1>15, <1>18 DEF f, g
<1> QED
  BY <1>0, <1>9, <1>13, <1>19, <1>20 DEF h, r, v, m, n, items

LEMMA ItemsShape ==
  ASSUME NEW heard, NEW items, NEW text, NEW calls, CallsOK(calls), Items(heard, items, text, calls)
  PROVE  /\ IsSeq(items) /\ DOMAIN items = 1 .. Len(items) /\ Len(items) \in Nat
         /\ IsSeq(heard) /\ DOMAIN heard = DOMAIN calls /\ Len(heard) = Len(calls)
         /\ IsSeq(calls) /\ DOMAIN calls = 1 .. Len(calls) /\ Len(calls) \in Nat
         /\ \A i \in DOMAIN items : ContentOK(items[i])
         /\ \A j \in DOMAIN calls : ContentOK(calls[j]) /\ ContentOK(heard[j]) /\ calls[j].kind = "tool"
<1>1. /\ ContentsOK(items) /\ ContentsOK(heard) /\ ContentsOK(calls) /\ Len(heard) = Len(calls)
  BY DEF Items, CallsOK, Alike
<1>2. /\ IsSeq(items) /\ IsSeq(heard) /\ IsSeq(calls)
      /\ \A i \in DOMAIN items : ContentOK(items[i])
      /\ \A i \in DOMAIN heard : ContentOK(heard[i])
      /\ \A i \in DOMAIN calls : ContentOK(calls[i])
  BY <1>1, ContentsAre
<1> QED
  BY <1>1, <1>2, SeqShape DEF CallsOK

(* The text goes on, ...                                                   *)
LEMMA TextOn ==
  ASSUME NEW heard, NEW items, NEW text, NEW calls, CallsOK(calls), Items(heard, items, text, calls),
         NEW p \in DOMAIN items, items[p].kind = "text", NEW piece
  PROVE  Items(heard, Replaced(items, p, With(items[p], piece)), Append(text, piece), calls)
<1> DEFINE y == With(items[p], piece)
           new == Replaced(items, p, y)
<1>0. /\ IsSeq(items) /\ DOMAIN heard = DOMAIN calls
      /\ \A i \in DOMAIN items : ContentOK(items[i])
      /\ \A j \in DOMAIN calls : calls[j].kind = "tool"
  BY ItemsShape
<1>1. /\ CallsOK(heard) /\ Alike(heard, calls)
      /\ \A j \in DOMAIN heard : heard[j].tool \in DOMAIN items /\ items[heard[j].tool] = calls[j]
      /\ \A q \in DOMAIN items :
           \/ items[q].kind = "text" /\ items[q].pieces = text
           \/ \E j \in DOMAIN heard : heard[j].tool = q
      /\ \A q \in DOMAIN items : items[q].kind = "text" => p = q
  BY DEF Items
<1>2. \A j \in DOMAIN heard : heard[j].tool # p
  BY <1>0, <1>1
<1>3. items[p].pieces = text
  BY <1>1, <1>2
<1>4. ContentOK(y) /\ y.kind = "text" /\ y.pieces = Append(text, piece)
  BY <1>0, <1>3, WithIs
<1> HIDE DEF y
<1>5. IsSeq(new) /\ DOMAIN new = DOMAIN items /\ \A i \in DOMAIN items : new[i] = IF i = p THEN y ELSE items[i]
  BY <1>0, ReplaceShape
<1> HIDE DEF new
<1>6. ContentsOK(new)
  <2>1. \A i \in DOMAIN new : ContentOK(new[i])
    BY <1>0, <1>4, <1>5
  <2> QED
    BY <1>5, <2>1, ContentsAre
<1>7. \A j \in DOMAIN heard : heard[j].tool \in DOMAIN new /\ new[heard[j].tool] = calls[j]
  BY <1>1, <1>2, <1>5
<1>8. ASSUME NEW q \in DOMAIN new
      PROVE  \/ new[q].kind = "text" /\ new[q].pieces = Append(text, piece)
             \/ \E j \in DOMAIN heard : heard[j].tool = q
  BY <1>1, <1>4, <1>5
<1>9. \A q \in DOMAIN new : new[q].kind = "text" => q = p
  BY <1>1, <1>5
<1>10. p \in DOMAIN new /\ new[p].kind = "text"
  BY <1>4, <1>5
<1> QED
  BY <1>1, <1>6, <1>7, <1>8, <1>9, <1>10 DEF Items, new, y

(* ... or is begun; ...                                                    *)
LEMMA TextBegun ==
  ASSUME NEW heard, NEW items, NEW text, NEW calls, CallsOK(calls), Items(heard, items, text, calls),
         \A i \in DOMAIN items : items[i].kind # "text",
         NEW c, ContentOK(c), c.kind = "text", NEW piece, c.pieces = <<piece>>
  PROVE  Items(heard, Append(items, c), Append(text, piece), calls)
<1> DEFINE new == Append(items, c)
           n == Len(items)
<1>0. /\ IsSeq(items) /\ DOMAIN items = 1 .. n /\ n \in Nat /\ DOMAIN heard = DOMAIN calls
      /\ \A i \in DOMAIN items : ContentOK(items[i])
      /\ \A j \in DOMAIN calls : calls[j].kind = "tool"
  BY ItemsShape
<1>1. /\ CallsOK(heard) /\ Alike(heard, calls) /\ ContentsOK(items)
      /\ \A j \in DOMAIN heard : heard[j].tool \in DOMAIN items /\ items[heard[j].tool] = calls[j]
      /\ \A q \in DOMAIN items : \E j \in DOMAIN heard : heard[j].tool = q
      /\ text = <<>>
  BY DEF Items
<1>2. Append(text, piece) = <<piece>>
  BY <1>1
<1>3. DOMAIN new = 1 .. n + 1 /\ (\A i \in 1 .. n : new[i] = items[i]) /\ new[n + 1] = c
  BY <1>0, AppendShape
<1>4. ContentsOK(new)
  BY <1>1, ContentsAre
<1> HIDE DEF new
<1>5. \A q \in DOMAIN new : q \in 1 .. n \/ q = n + 1
  BY <1>0, <1>3
<1>6. \A j \in DOMAIN heard : heard[j].tool \in DOMAIN new /\ new[heard[j].tool] = calls[j]
  BY <1>0, <1>1, <1>3
<1>7. ASSUME NEW q \in DOMAIN new
      PROVE  \/ new[q].kind = "text" /\ new[q].pieces = Append(text, piece)
             \/ \E j \in DOMAIN heard : heard[j].tool = q
  BY <1>0, <1>1, <1>2, <1>3, <1>5
<1>8. \A q \in DOMAIN new : new[q].kind = "text" => q = n + 1
  BY <1>0, <1>3, <1>5
<1>9. n + 1 \in DOMAIN new /\ new[n + 1].kind = "text"
  BY <1>0, <1>3
<1> QED
  BY <1>1, <1>4, <1>6, <1>7, <1>8, <1>9 DEF Items, new

(* ... a call goes on, ...                                                 *)
LEMMA CallOn ==
  ASSUME NEW heard, NEW items, NEW text, NEW calls, CallsOK(calls), Items(heard, items, text, calls),
         NEW j \in DOMAIN calls, NEW piece
  PROVE  LET p == heard[j].tool IN
         Items(Replaced(heard, j, With(heard[j], piece)), Replaced(items, p, With(items[p], piece)),
               text, Replaced(calls, j, With(calls[j], piece)))
<1> DEFINE p == heard[j].tool
           x == With(heard[j], piece)
           y == With(items[p], piece)
           h == Replaced(heard, j, x)
           new == Replaced(items, p, y)
           c == Replaced(calls, j, y)
<1>0. /\ IsSeq(items) /\ IsSeq(heard) /\ IsSeq(calls) /\ DOMAIN heard = DOMAIN calls
      /\ \A i \in DOMAIN items : ContentOK(items[i])
      /\ \A k \in DOMAIN calls : ContentOK(calls[k]) /\ ContentOK(heard[k]) /\ calls[k].kind = "tool"
  BY ItemsShape
<1>1. /\ CallsOK(heard) /\ Alike(heard, calls) /\ ContentsOK(heard) /\ ContentsOK(calls)
      /\ \A k \in DOMAIN heard : heard[k].tool \in DOMAIN items /\ items[heard[k].tool] = calls[k]
      /\ \A q \in DOMAIN items :
           \/ items[q].kind = "text" /\ items[q].pieces = text
           \/ \E k \in DOMAIN heard : heard[k].tool = q
      /\ \A q, r \in DOMAIN items : items[q].kind = "text" /\ items[r].kind = "text" => q = r
      /\ (\A q \in DOMAIN items : items[q].kind # "text") => text = <<>>
  BY DEF Items, CallsOK
<1>2. p \in DOMAIN items /\ items[p] = calls[j] /\ \A k \in DOMAIN heard : heard[k].tool = p => k = j
  BY <1>0, <1>1 DEF CallsOK, Apart
<1>3. x.tool = p /\ ContentOK(y) /\ y.kind = "tool"
  <2>1. ContentOK(heard[j]) /\ ContentOK(calls[j]) /\ calls[j].kind = "tool"
    BY <1>0
  <2>2. x.tool = heard[j].tool
    BY <2>1, WithIs
  <2>3. ContentOK(With(calls[j], piece)) /\ With(calls[j], piece).kind = "tool"
    BY <2>1, WithIs
  <2> QED
    BY <1>2, <2>2, <2>3
<1>4. CallsOK(h)
  BY <1>0, <1>1, CallGoesOn
<1>5. Alike(h, c)
  <2>1. Alike(Replaced(heard, j, With(heard[j], piece)), Replaced(calls, j, With(calls[j], piece)))
    BY <1>1, AlikeReplaced
  <2> QED
    BY <1>2, <2>1
<1> HIDE DEF x, y, p
<1>6. DOMAIN h = DOMAIN heard /\ \A k \in DOMAIN heard : h[k] = IF k = j THEN x ELSE heard[k]
  BY <1>0, ReplaceShape
<1>7. IsSeq(new) /\ DOMAIN new = DOMAIN items /\ \A i \in DOMAIN items : new[i] = IF i = p THEN y ELSE items[i]
  BY <1>0, ReplaceShape
<1>8. \A k \in DOMAIN calls : c[k] = IF k = j THEN y ELSE calls[k]
  BY <1>0, ReplaceShape
<1> HIDE DEF h, new, c
<1>9. \A k \in DOMAIN h : h[k].tool = heard[k].tool
  BY <1>3, <1>6 DEF p
<1>10. ContentsOK(new)
  <2>1. \A i \in DOMAIN new : ContentOK(new[i])
    BY <1>0, <1>3, <1>7
  <2> QED
    BY <1>7, <2>1, ContentsAre
<1>11. ASSUME NEW k \in DOMAIN h PROVE h[k].tool \in DOMAIN new /\ new[h[k].tool] = c[k]
  <2>1. k \in DOMAIN heard /\ k \in DOMAIN calls /\ h[k].tool = heard[k].tool /\ heard[k].tool \in DOMAIN items
        /\ items[heard[k].tool] = calls[k]
    BY <1>0, <1>1, <1>6, <1>9
  <2>2. CASE k = j
    <3>1. h[k].tool = p
      BY <2>1, <2>2 DEF p
    <3> QED
      BY <1>2, <1>7, <1>8, <2>1, <2>2, <3>1
  <2>3. CASE k # j
    <3>1. heard[k].tool # p
      BY <1>2, <2>1, <2>3
    <3> QED
      BY <1>7, <1>8, <2>1, <2>3, <3>1
  <2> QED
    BY <2>2, <2>3
<1>12. ASSUME NEW q \in DOMAIN new
       PROVE  \/ new[q].kind = "text" /\ new[q].pieces = text
              \/ \E k \in DOMAIN h : h[k].tool = q
  <2>1. CASE q = p
    <3>1. j \in DOMAIN h /\ h[j].tool = p
      BY <1>0, <1>6, <1>9 DEF p
    <3> QED
      BY <2>1, <3>1
  <2>2. CASE q # p
    <3>1. q \in DOMAIN items /\ new[q] = items[q]
      BY <1>7, <2>2
    <3>2. \/ items[q].kind = "text" /\ items[q].pieces = text
          \/ \E k \in DOMAIN heard : heard[k].tool = q
      BY <1>1, <3>1
    <3> QED
      BY <1>6, <1>9, <3>1, <3>2
  <2> QED
    BY <2>1, <2>2
<1>13. \A q \in DOMAIN new : new[q].kind = items[q].kind
  BY <1>0, <1>2, <1>3, <1>7
<1>14. /\ \A q, r \in DOMAIN new : new[q].kind = "text" /\ new[r].kind = "text" => q = r
       /\ (\A q \in DOMAIN new : new[q].kind # "text") => text = <<>>
  BY <1>1, <1>7, <1>13
<1>15. Items(h, new, text, c)
  BY <1>4, <1>5, <1>10, <1>11, <1>12, <1>14 DEF Items
<1> QED
  BY <1>2, <1>15 DEF h, new, c, x, y, p

(* ... or is begun.                                                        *)
LEMMA CallNew ==
  ASSUME NEW heard, NEW items, NEW text, NEW calls, CallsOK(calls), Items(heard, items, text, calls),
         NEW tool, NEW name, NEW pieces, IsSeq(pieces)
  PROVE  LET c == Content("tool", tool, name, pieces) IN
         Items(Append(heard, Content("tool", Len(items) + 1, name, pieces)), Append(items, c), text, Append(calls, c))
<1> DEFINE n == Len(items)
           m == Len(calls)
           at == n + 1
           x == Content("tool", at, name, pieces)
           y == Content("tool", tool, name, pieces)
           h == Append(heard, x)
           new == Append(items, y)
           c == Append(calls, y)
<1>0. /\ IsSeq(items) /\ IsSeq(heard) /\ IsSeq(calls) /\ DOMAIN heard = 1 .. m /\ DOMAIN items = 1 .. n
      /\ DOMAIN calls = 1 .. m /\ n \in Nat /\ m \in Nat /\ Len(heard) = m
  BY ItemsShape
<1>1. /\ CallsOK(heard) /\ Alike(heard, calls) /\ ContentsOK(items)
      /\ \A k \in DOMAIN heard : heard[k].tool \in DOMAIN items /\ items[heard[k].tool] = calls[k]
      /\ \A q \in DOMAIN items :
           \/ items[q].kind = "text" /\ items[q].pieces = text
           \/ \E k \in DOMAIN heard : heard[k].tool = q
      /\ \A q, r \in DOMAIN items : items[q].kind = "text" /\ items[r].kind = "text" => q = r
      /\ (\A q \in DOMAIN items : items[q].kind # "text") => text = <<>>
  BY DEF Items
<1>2. \A k \in DOMAIN heard : heard[k].tool # at
  BY <1>0, <1>1
<1>3. /\ x.tool = at /\ x.name = y.name /\ x.pieces = y.pieces /\ y.kind = "tool" /\ ContentOK(y)
  BY ContentIs, ContentsAre
<1> HIDE DEF at
<1>4. CallsOK(h)
  BY <1>1, <1>2, CallBegun
<1> HIDE DEF x, y
<1>5. Alike(h, c)
  BY <1>0, <1>1, <1>3, AlikeAppend
<1>6. ContentsOK(new)
  BY <1>1, <1>3, ContentsAre
<1>7. DOMAIN h = 1 .. m + 1 /\ (\A k \in 1 .. m : h[k] = heard[k]) /\ h[m + 1] = x
  BY <1>0, AppendShape
<1>8. DOMAIN c = 1 .. m + 1 /\ (\A k \in 1 .. m : c[k] = calls[k]) /\ c[m + 1] = y
  BY <1>0, AppendShape
<1>9. DOMAIN new = 1 .. at /\ (\A k \in 1 .. n : new[k] = items[k]) /\ new[at] = y
  BY <1>0, AppendShape DEF at
<1> HIDE DEF h, c, new
<1>10. /\ \A k \in DOMAIN h : k \in 1 .. m \/ k = m + 1
       /\ \A q \in DOMAIN new : q \in 1 .. n \/ q = at
       /\ \A q \in 1 .. n : q \in 1 .. at
       /\ at \in 1 .. at /\ m + 1 \in DOMAIN h /\ \A k \in 1 .. m : k \in DOMAIN h
  BY <1>0, <1>7, <1>9 DEF at
<1>11. ASSUME NEW k \in DOMAIN h PROVE h[k].tool \in DOMAIN new /\ new[h[k].tool] = c[k]
  <2>1. CASE k \in 1 .. m
    BY <1>0, <1>1, <1>7, <1>8, <1>9, <1>10, <2>1
  <2>2. CASE k = m + 1
    BY <1>3, <1>7, <1>8, <1>9, <1>10, <2>2
  <2> QED
    BY <1>10, <2>1, <2>2
<1>12. ASSUME NEW q \in DOMAIN new
       PROVE  \/ new[q].kind = "text" /\ new[q].pieces = text
              \/ \E k \in DOMAIN h : h[k].tool = q
  <2>1. CASE q = at
    BY <1>3, <1>7, <1>10, <2>1
  <2>2. CASE q \in 1 .. n
    <3>1. \/ items[q].kind = "text" /\ items[q].pieces = text
          \/ \E k \in DOMAIN heard : heard[k].tool = q
      BY <1>0, <1>1, <2>2
    <3>2. new[q] = items[q] /\ \A k \in DOMAIN heard : k \in DOMAIN h /\ h[k] = heard[k]
      BY <1>0, <1>7, <1>9, <1>10, <2>2
    <3> QED
      BY <3>1, <3>2
  <2> QED
    BY <1>10, <2>1, <2>2
<1>13. \A q \in DOMAIN new : new[q].kind = "text" => q \in 1 .. n /\ new[q] = items[q]
  BY <1>3, <1>9, <1>10
<1>14. \A q, r \in DOMAIN new : new[q].kind = "text" /\ new[r].kind = "text" => q = r
  BY <1>0, <1>1, <1>13
<1>15. (\A q \in DOMAIN new : new[q].kind # "text") => text = <<>>
  BY <1>0, <1>1, <1>9, <1>10
<1> QED
  BY <1>4, <1>5, <1>6, <1>11, <1>12, <1>14, <1>15 DEF Items, h, c, new, x, y, at

-----------------------------------------------------------------------------
(* Every event is told, in whatever format.                                *)

LEMMA ThoughtRead ==
  ASSUME NEW h, DOMAIN h = Hearing, NEW piece
  PROVE  LET r == Read("responses", h, Frame("piece", 0, "thinking", Unnamed, piece)) IN
         /\ r.text = h.text /\ r.thinking = Append(h.thinking, piece) /\ r.calls = h.calls
         /\ r.opened = h.opened /\ r.shut = h.shut /\ r.ending = h.ending /\ (~h.astray => ~r.astray)
<1> DEFINE kind == "thinking"
           f == Frame("piece", 0, kind, Unnamed, piece)
           r == Read("responses", h, f)
<1> HIDE DEF kind
<1>1. /\ r.text = IF kind = "text" THEN Append(h.text, piece) ELSE h.text
      /\ r.thinking = IF kind = "thinking" THEN Append(h.thinking, piece) ELSE h.thinking
      /\ r.calls = IF kind = "tool" THEN HearCall(h.calls, f) ELSE h.calls
      /\ r.opened = h.opened /\ r.shut = h.shut /\ r.ending = h.ending
  BY PieceRead
<1>2. ~h.astray => ~r.astray
  BY PieceRead DEF kind
<1> HIDE DEF r
<1>3. /\ r.text = h.text /\ r.thinking = Append(h.thinking, piece) /\ r.calls = h.calls
      /\ r.opened = h.opened /\ r.shut = h.shut /\ r.ending = h.ending
  BY <1>1 DEF kind
<1> QED
  BY <1>2, <1>3 DEF r, f, kind

(* A thought is sent on in a Responses stream, ...                         *)
LEMMA ThoughtTells ==
  ASSUME NEW w, WriterOK(w), NEW text, NEW thinking, Plain("responses", w, text, thinking),
         NEW calls, Tells("responses", w, text, calls), NEW e, e.kind = "thinking"
  PROVE  LET v == ResponsesWrite(w, e) IN
         /\ Plain("responses", v, text, Append(thinking, e.piece))
         /\ Tells("responses", v, text, calls)
<1> DEFINE f == Frame("piece", 0, "thinking", Unnamed, e.piece)
           v == Send(w, f)
           h == HeardFrom("responses", w.frames)
           r == HeardFrom("responses", v.frames)
           s == Read("responses", h, f)
<1>0. f.type \in FrameTypes
  BY FrameIs DEF FrameTypes
<1>1. ResponsesWrite(w, e) = v
  BY DEF ResponsesWrite
<1> HIDE DEF f
<1>2. DOMAIN h = Hearing /\ r = s /\ v.items = w.items
  BY <1>0, SentIs, SentKeeps, HeardShape
<1>3. /\ h.text = text /\ h.thinking = thinking /\ ~h.astray /\ h.ending = "none"
      /\ h.opened = 1 .. Len(w.items) /\ h.shut = {}
      /\ Items(h.calls, w.items, text, calls)
  BY DEF Plain, Tells
<1> HIDE DEF h, r, v
<1>4. DOMAIN h = Hearing /\ ~h.astray
  BY <1>2, <1>3
<1>5. /\ s.text = h.text /\ s.thinking = Append(h.thinking, e.piece) /\ s.calls = h.calls
      /\ s.opened = h.opened /\ s.shut = h.shut /\ s.ending = h.ending /\ ~s.astray
  BY <1>4, ThoughtRead DEF f
<1> HIDE DEF s
<1>6. /\ r.text = text /\ r.thinking = Append(thinking, e.piece) /\ ~r.astray /\ r.ending = "none"
      /\ r.opened = 1 .. Len(v.items) /\ r.shut = {}
      /\ Items(r.calls, v.items, text, calls)
  BY <1>2, <1>3, <1>5
<1> QED
  BY <1>1, <1>6 DEF Plain, Tells, r

\* What is left to show of a stream whose items are known.
LEMMA LevelIsPlain ==
  ASSUME NEW v, NEW text, NEW thinking, NEW n,
         Level(HeardFrom("responses", v.frames), n, thinking), Len(v.items) = n,
         HeardFrom("responses", v.frames).text = text
  PROVE  Plain("responses", v, text, thinking)
BY DEF Level, Plain

(* ... a piece of an item that was added goes on with it, ...              *)
LEMMA MoreTells ==
  ASSUME NEW w, WriterOK(w), NEW text, NEW thinking, Plain("responses", w, text, thinking),
         NEW calls, CallsOK(calls), Tells("responses", w, text, calls), NEW e, Proper(calls, e),
         e.kind # "thinking", ItemOf(w, e) # 0
  PROVE  LET v == ResponsesWrite(w, e) IN
         /\ Plain("responses", v, PiecesAfter("text", text, e), thinking)
         /\ Tells("responses", v, PiecesAfter("text", text, e), CallsAfter(calls, e))
<1> DEFINE p == ItemOf(w, e)
           v == ResponsesWrite(w, e)
           n == Len(w.items)
           items == w.items
           h == HeardFrom("responses", w.frames)
           r == HeardFrom("responses", v.frames)
           g == h.calls
<1>1. Items(g, items, text, calls)
  BY DEF Tells
<1>2. e.kind \in {"text", "tool"} /\ (e.kind = "text" => e.piece # NoPiece)
  BY DEF Proper, Kinds
<1>3. /\ CallsOK(g) /\ Alike(g, calls) /\ ContentsOK(items)
      /\ \A j \in DOMAIN g : g[j].tool \in DOMAIN items /\ items[g[j].tool] = calls[j]
      /\ \A q \in DOMAIN items :
           \/ items[q].kind = "text" /\ items[q].pieces = text
           \/ \E j \in DOMAIN g : g[j].tool = q
  BY <1>1 DEF Items
<1>4. p \in DOMAIN items /\ IsOf(items[p], e)
  BY <1>2, ItemFound
<1>5. /\ IsSeq(items) /\ DOMAIN g = DOMAIN calls /\ \A j \in DOMAIN calls : calls[j].kind = "tool"
  BY <1>1, ItemsShape
<1> HIDE DEF g
<1>6. CASE e.kind = "text"
  <2>1. /\ v.items = Replaced(items, p, With(items[p], e.piece))
        /\ Level(r, n, thinking)
        /\ r.text = PiecesAfter("text", text, e)
        /\ r.calls = g
    BY <1>2, <1>3, <1>6, ItemGoesOn DEF g
  <2> HIDE DEF v, r, p, items
  <2>2. items[p].kind = "text"
    BY <1>4, <1>6 DEF IsOf
  <2>3. Items(g, Replaced(items, p, With(items[p], e.piece)), Append(text, e.piece), calls)
    BY <1>1, <1>4, <2>2, TextOn
  <2>4. Len(v.items) = n
    BY <1>5, <2>1, ReplaceShape DEF items
  <2>5. Plain("responses", v, PiecesAfter("text", text, e), thinking)
    BY <2>1, <2>4, LevelIsPlain DEF r
  <2>6. Items(r.calls, v.items, PiecesAfter("text", text, e), CallsAfter(calls, e))
    BY <1>6, <2>1, <2>3 DEF PiecesAfter, CallsAfter
  <2> QED
    BY <2>5, <2>6 DEF v, r, Tells
<1>7. CASE e.kind = "tool"
  <2>1. items[p].kind = "tool" /\ items[p].tool = e.tool
    BY <1>4, <1>7 DEF IsOf
  <2>2. PICK j \in DOMAIN g : g[j].tool = p
    BY <1>3, <1>4, <2>1
  <2>3. items[p] = calls[j] /\ j \in DOMAIN calls /\ calls[j].tool = e.tool
    BY <1>3, <1>5, <2>1, <2>2
  <2>4. e.name = Unnamed /\ e.piece # NoPiece
    BY <1>7, <2>3 DEF Proper
  <2> DEFINE f == Frame("piece", p, "tool", Unnamed, e.piece)
  <2>5. /\ v.items = Replaced(items, p, With(items[p], e.piece))
        /\ Level(r, n, thinking)
        /\ r.text = PiecesAfter("text", text, e)
        /\ r.calls = HearCall(g, f)
    BY <1>2, <1>3, <1>7, <2>4, ItemGoesOn DEF g
  <2>6. f.at = p /\ f.piece = e.piece
    BY FrameIs
  <2> HIDE DEF v, r, p, items, f
  <2>7. HearCall(g, f) = Replaced(g, j, With(g[j], e.piece))
    BY <1>3, <2>2, <2>4, <2>6, HearMore
  <2>8. CollectTool(calls, e) = Replaced(calls, j, With(calls[j], e.piece))
    BY <2>3, <2>4, CollectMore
  <2>9. Items(Replaced(g, j, With(g[j], e.piece)), Replaced(items, p, With(items[p], e.piece)), text,
              Replaced(calls, j, With(calls[j], e.piece)))
    BY <1>1, <2>2, <2>3, CallOn
  <2>10. Len(v.items) = n
    BY <1>5, <2>5, ReplaceShape DEF items
  <2>11. Plain("responses", v, PiecesAfter("text", text, e), thinking)
    BY <2>5, <2>10, LevelIsPlain DEF r
  <2>12. Items(r.calls, v.items, PiecesAfter("text", text, e), CallsAfter(calls, e))
    BY <1>7, <2>5, <2>7, <2>8, <2>9 DEF PiecesAfter, CallsAfter
  <2> QED
    BY <2>11, <2>12 DEF v, r, Tells
<1> QED
  BY <1>2, <1>6, <1>7

(* ... and the first of an item adds it.                                   *)
LEMMA FirstTells ==
  ASSUME NEW w, WriterOK(w), NEW text, NEW thinking, Plain("responses", w, text, thinking),
         NEW calls, CallsOK(calls), Tells("responses", w, text, calls), NEW e, Proper(calls, e),
         e.kind # "thinking", ItemOf(w, e) = 0
  PROVE  LET v == ResponsesWrite(w, e) IN
         /\ Plain("responses", v, PiecesAfter("text", text, e), thinking)
         /\ Tells("responses", v, PiecesAfter("text", text, e), CallsAfter(calls, e))
<1> DEFINE v == ResponsesWrite(w, e)
           items == w.items
           at == Len(items) + 1
           h == HeardFrom("responses", w.frames)
           r == HeardFrom("responses", v.frames)
           g == h.calls
           one == HearCall(g, Frame("open", at, "tool", e.name, NoPiece))
           pieces == WithPiece(<<>>, e.piece)
           c == Content(e.kind, e.tool, e.name, pieces)
<1>1. Items(g, items, text, calls)
  BY DEF Tells
<1>2. e.kind \in {"text", "tool"} /\ (e.kind = "text" => e.piece # NoPiece)
  BY DEF Proper, Kinds
<1>3. /\ v.items = Append(items, c)
      /\ \A i \in DOMAIN items : ~ IsOf(items[i], e)
      /\ Level(r, at, thinking)
      /\ r.text = PiecesAfter("text", text, e)
      /\ r.calls = IF e.kind # "tool" THEN g
                   ELSE IF e.piece = NoPiece THEN one
                   ELSE HearCall(one, Frame("piece", at, "tool", Unnamed, e.piece))
  BY <1>2, ItemAdded
<1>4. /\ CallsOK(g) /\ \A j \in DOMAIN g : g[j].tool \in DOMAIN items /\ items[g[j].tool] = calls[j]
  BY <1>1 DEF Items
<1>5. /\ IsSeq(items) /\ DOMAIN items = 1 .. Len(items) /\ Len(items) \in Nat
      /\ DOMAIN g = DOMAIN calls /\ \A j \in DOMAIN calls : calls[j].kind = "tool"
  BY <1>1, ItemsShape
<1>6. IsSeq(pieces) /\ ContentOK(c) /\ c.kind = e.kind /\ c.pieces = pieces
  BY FirstPiece, ContentsAre, ContentIs
<1> HIDE DEF v, r, h, g, c
<1>7. Len(v.items) = at
  BY <1>3, <1>5, AppendShape
<1>8. Plain("responses", v, PiecesAfter("text", text, e), thinking)
  <2> HIDE DEF at
  <2> QED
    BY <1>3, <1>7, LevelIsPlain DEF r
<1>9. CASE e.kind = "text"
  <2>1. \A i \in DOMAIN items : items[i].kind # "text"
    BY <1>3, <1>9 DEF IsOf
  <2>2. pieces = <<e.piece>>
    BY <1>2, <1>9, FirstPiece
  <2> HIDE DEF pieces, items
  <2>3. Items(g, Append(items, c), Append(text, e.piece), calls)
    BY <1>1, <1>6, <1>9, <2>1, <2>2, TextBegun
  <2>4. Items(r.calls, v.items, PiecesAfter("text", text, e), CallsAfter(calls, e))
    BY <1>3, <1>9, <2>3 DEF PiecesAfter, CallsAfter
  <2> QED
    BY <1>8, <2>4 DEF v, r, Tells
<1>10. CASE e.kind = "tool"
  <2>1. \A j \in DOMAIN calls : calls[j].tool # e.tool
    <3> SUFFICES ASSUME NEW j \in DOMAIN calls, calls[j].tool = e.tool PROVE FALSE
      OBVIOUS
    <3>1. g[j].tool \in DOMAIN items /\ items[g[j].tool] = calls[j] /\ calls[j].kind = "tool"
      BY <1>4, <1>5
    <3> QED
      BY <1>3, <1>10, <3>1 DEF IsOf
  <2>2. CollectTool(calls, e) = Append(calls, c)
    BY <1>10, <2>1, CollectFirst DEF c
  <2>3. \A j \in DOMAIN g : g[j].tool # at
    BY <1>4, <1>5
  <2> HIDE DEF items, at
  <2>4. LET first == HearCall(g, Frame("open", at, "tool", e.name, NoPiece)) IN
        /\ first = Append(g, Content("tool", at, e.name, <<>>))
        /\ e.piece # NoPiece =>
             HearCall(first, Frame("piece", at, "tool", Unnamed, e.piece)) =
               Append(g, Content("tool", at, e.name, WithPiece(<<>>, e.piece)))
    <3>1. CallsOK(g)
      BY <1>4
    <3> HIDE DEF one, pieces
    <3> QED
      BY <2>3, <3>1, HearOpened
  <2> HIDE DEF one
  <2>5. r.calls = Append(g, Content("tool", at, e.name, pieces))
    <3>1. CASE e.piece = NoPiece
      <4>1. pieces = <<>>
        BY <3>1, FirstPiece
      <4> QED
        BY <1>3, <1>10, <2>4, <3>1, <4>1 DEF one
    <3>2. CASE e.piece # NoPiece
      BY <1>3, <1>10, <2>4, <3>2 DEF one
    <3> QED
      BY <3>1, <3>2
  <2> HIDE DEF pieces
  <2>6. LET d == Content("tool", e.tool, e.name, pieces) IN
        Items(Append(g, Content("tool", Len(items) + 1, e.name, pieces)), Append(items, d), text, Append(calls, d))
    BY <1>1, <1>6, CallNew
  <2>7. Items(r.calls, v.items, PiecesAfter("text", text, e), CallsAfter(calls, e))
    BY <1>3, <1>10, <2>2, <2>5, <2>6 DEF PiecesAfter, CallsAfter, c, at
  <2> QED
    BY <1>8, <2>7 DEF v, r, Tells
<1> QED
  BY <1>2, <1>9, <1>10

LEMMA ResponsesTells ==
  ASSUME NEW w, WriterOK(w), NEW text, NEW thinking, Plain("responses", w, text, thinking),
         NEW calls, CallsOK(calls), Tells("responses", w, text, calls), NEW e, Proper(calls, e)
  PROVE  LET v == ResponsesWrite(w, e) IN
         /\ Plain("responses", v, PiecesAfter("text", text, e), PiecesAfter("thinking", thinking, e))
         /\ Tells("responses", v, PiecesAfter("text", text, e), CallsAfter(calls, e))
<1>1. CASE e.kind = "thinking"
  <2>1. PiecesAfter("text", text, e) = text /\ PiecesAfter("thinking", thinking, e) = Append(thinking, e.piece)
        /\ CallsAfter(calls, e) = calls
    BY <1>1 DEF PiecesAfter, CallsAfter
  <2> QED
    BY <1>1, <2>1, ThoughtTells
<1>2. CASE e.kind # "thinking"
  <2>1. PiecesAfter("thinking", thinking, e) = thinking
    BY <1>2 DEF PiecesAfter
  <2>2. CASE ItemOf(w, e) # 0
    BY <1>2, <2>1, <2>2, MoreTells
  <2>3. CASE ItemOf(w, e) = 0
    BY <1>2, <2>1, <2>3, FirstTells
  <2> QED
    BY <2>2, <2>3
<1> QED
  BY <1>1, <1>2

(* One event more, in whatever format: the text and the thoughts always,   *)
(* the calls but where a call of an Anthropic stream goes on after another *)
(* block.                                                                  *)
Untold(format, w, calls, e) ==
  /\ format = "anthropic" /\ e.kind = "tool" /\ \E j \in DOMAIN calls : calls[j].tool = e.tool
  /\ ~ (w.open = "tool" /\ w.openTool = e.tool)

LEMMA EventTells ==
  ASSUME NEW format \in Formats, NEW w, WriterOK(w), NEW text, NEW thinking, Plain(format, w, text, thinking),
         NEW calls, CallsOK(calls), NEW e, Proper(calls, e), format # "anthropic" => Tells(format, w, text, calls)
  PROVE  LET v == WriteEvent(format, w, e) IN
         /\ WriterOK(v)
         /\ Plain(format, v, PiecesAfter("text", text, e), PiecesAfter("thinking", thinking, e))
         /\ Tells(format, w, text, calls) /\ ~ Untold(format, w, calls, e) =>
              Tells(format, v, PiecesAfter("text", text, e), CallsAfter(calls, e))
         /\ format = "anthropic" => v.open = e.kind /\ (e.kind = "tool" => v.openTool = e.tool)
<1>0. WriterOK(WriteEvent(format, w, e))
  BY WriteKeepsShape
<1>1. CASE format = "chat"
  <2>1. WriteEvent(format, w, e) = ChatWrite(w, e)
    BY <1>1 DEF WriteEvent
  <2> QED
    BY <1>0, <1>1, <2>1, ChatTells
<1>2. CASE format = "gemini"
  <2>1. WriteEvent(format, w, e) = GeminiWrite(w, e)
    BY <1>2 DEF WriteEvent
  <2> QED
    BY <1>0, <1>2, <2>1, GeminiTells
<1>3. CASE format = "responses"
  <2>1. WriteEvent(format, w, e) = ResponsesWrite(w, e)
    BY <1>3 DEF WriteEvent
  <2> QED
    BY <1>0, <1>3, <2>1, ResponsesTells
<1>4. CASE format = "anthropic"
  <2>1. WriteEvent(format, w, e) = AnthropicWrite(w, e)
    BY <1>4 DEF WriteEvent
  <2> DEFINE v == AnthropicWrite(w, e)
  <2>2. /\ Plain("anthropic", v, PiecesAfter("text", text, e), PiecesAfter("thinking", thinking, e))
        /\ WriterOK(v) /\ v.open = e.kind /\ (e.kind = "tool" => v.openTool = e.tool)
    BY <1>4, AnthropicPlain
  <2>3. ASSUME Tells("anthropic", w, text, calls), ~ Untold(format, w, calls, e)
        PROVE  Tells("anthropic", v, PiecesAfter("text", text, e), CallsAfter(calls, e))
    <3>1. \A j \in DOMAIN calls : e.kind = "tool" /\ calls[j].tool = e.tool => w.open = "tool" /\ w.openTool = e.tool
      BY <1>4, <2>3 DEF Untold
    <3> QED
      BY <1>4, <2>3, <3>1, AnthropicTells
  <2> HIDE DEF v
  <2> QED
    BY <1>4, <2>1, <2>2, <2>3 DEF v
<1> QED
  BY <1>1, <1>2, <1>3, <1>4 DEF Formats, Upstreams

-----------------------------------------------------------------------------
(* The end of a stream.                                                    *)

(* What the end of a stream says of an item is no news, ...                *)
LEMMA WholeRead ==
  ASSUME NEW h, DOMAIN h = Hearing, NEW f, f.type = "whole", f.at \in h.opened, ~h.astray,
         f.pieces = IF f.kind = "text" THEN h.text ELSE h.calls[CallAt(h.calls, f.at)].pieces
  PROVE  LET r == Read("responses", h, f) IN
         /\ r.text = h.text /\ r.thinking = h.thinking /\ r.calls = h.calls
         /\ r.opened = h.opened /\ r.shut = h.shut /\ r.ending = h.ending /\ ~r.astray
<1>1. Read("responses", h, f) = ReadWhole("responses", h, f)
  BY DEF Read
<1>2. ReadWhole("responses", h, f) = [h EXCEPT !.astray = @ \/ f.at \notin h.opened \/ f.pieces # f.pieces]
  BY DEF ReadWhole
<1> QED
  BY <1>1, <1>2 DEF Hearing

WholeFrame(format, items, i) ==
  [type |-> "whole", at |-> i, kind |-> items[i].kind, name |-> items[i].name,
   pieces |-> Carried(format, items[i].pieces)]

LEMMA SentWholeIs ==
  ASSUME NEW format, NEW w, WriterOK(w)
  PROVE  /\ format \notin {"responses", "gemini"} => SentWhole(format, w) = <<>>
         /\ format \in {"responses", "gemini"} =>
              SentWhole(format, w) = [i \in 1 .. Len(w.items) |-> WholeFrame(format, w.items, i)]
         /\ IsSeq(SentWhole(format, w))
<1>1. DOMAIN w.items = 1 .. Len(w.items) /\ Len(w.items) \in Nat
  BY SeqShape DEF WriterOK
<1>2. CASE format \notin {"responses", "gemini"}
  BY <1>2, ShortShape DEF SentWhole
<1>3. CASE format \in {"responses", "gemini"}
  <2> DEFINE s == SentWhole(format, w)
             items == w.items
             n == Len(items)
  <2>1. s = [i \in 1 .. n |-> WholeFrame(format, items, i)]
    BY <1>1, <1>3 DEF SentWhole, WholeFrame
  <2>2. n \in Nat
    BY <1>1
  <2> HIDE DEF s, n, items
  <2>3. DOMAIN s = 1 .. n /\ s = [i \in 1 .. n |-> s[i]]
    BY <2>1
  <2>4. IsSeq(s)
    BY <2>2, <2>3, SeqShape
  <2> QED
    BY <1>3, <2>1, <2>4 DEF s, n, items
<1> QED
  BY <1>2, <1>3

LEMMA WholesShape ==
  ASSUME NEW format \in {"responses", "gemini"}, NEW w, WriterOK(w)
  PROVE  LET s == SentWhole(format, w) IN
         /\ IsSeq(s) /\ Len(s) = Len(w.items) /\ Len(s) \in Nat
         /\ \A i \in 1 .. Len(s) : s[i] = WholeFrame(format, w.items, i)
<1> DEFINE s == SentWhole(format, w)
           items == w.items
<1>1. s = [i \in 1 .. Len(items) |-> WholeFrame(format, items, i)] /\ IsSeq(s)
  BY SentWholeIs
<1>2. Len(items) \in Nat
  BY SeqShape DEF WriterOK
<1> HIDE DEF s, items
<1>3. DOMAIN s = 1 .. Len(items) /\ s = [i \in 1 .. Len(items) |-> s[i]]
  BY <1>1
<1>4. Len(s) = Len(items)
  BY <1>2, <1>3, SeqShape
<1> QED
  BY <1>1, <1>2, <1>4 DEF s, items

\* The frames of a stream, and the first of those that are sent whole.
WithWholes(format, w, k) == w.frames \o Start(SentWhole(format, w), k)

LEMMA WholesNext ==
  ASSUME NEW format \in {"responses", "gemini"}, NEW w, WriterOK(w)
  PROVE  /\ WithWholes(format, w, 0) = w.frames
         /\ WithWholes(format, w, Len(w.items)) = w.frames \o SentWhole(format, w)
         /\ \A k \in 1 .. Len(w.items) :
              HeardFrom(format, WithWholes(format, w, k)) =
                Read(format, HeardFrom(format, WithWholes(format, w, k - 1)), WholeFrame(format, w.items, k))
<1> DEFINE s == SentWhole(format, w)
           n == Len(w.items)
           a == w.frames
<1>1. IsSeq(s) /\ Len(s) = n /\ n \in Nat /\ \A i \in 1 .. n : s[i] = WholeFrame(format, w.items, i)
  BY WholesShape
<1>2. IsSeq(a)
  BY DEF WriterOK, FramesOK
<1> HIDE DEF s, n, a
<1>3. /\ Start(s, 0) = <<>> /\ Start(s, n) = s
      /\ \A k \in 1 .. n : Start(s, k) = Append(Start(s, k - 1), s[k]) /\ IsSeq(Start(s, k - 1))
  <2>1. \A k \in 1 .. n : k - 1 \in 0 .. n
    BY <1>1
  <2> QED
    BY <1>1, <2>1, StartIs
<1>4. a \o Start(s, 0) = a
  BY <1>2, <1>3, ConcatIs
<1>5. ASSUME NEW k \in 1 .. n
      PROVE  HeardFrom(format, a \o Start(s, k)) = Read(format, HeardFrom(format, a \o Start(s, k - 1)), WholeFrame(format, w.items, k))
  <2> DEFINE t == Start(s, k - 1)
             f == s[k]
  <2>1. Start(s, k) = Append(t, f) /\ IsSeq(t) /\ f = WholeFrame(format, w.items, k)
    BY <1>1, <1>3
  <2> HIDE DEF t, f
  <2>2. a \o Append(t, f) = Append(a \o t, f) /\ IsSeq(a \o t)
    <3>1. IsSeq(a) /\ IsSeq(t)
      BY <1>2, <2>1
    <3>2. a \o Append(t, f) = Append(a \o t, f)
      BY <3>1, ConcatIs
    <3>3. IsSeq(a \o t)
      BY <3>1, ConcatShape
    <3> QED
      BY <3>2, <3>3
  <2>3. HeardFrom(format, Append(a \o t, f)) = Read(format, HeardFrom(format, a \o t), f)
    BY <2>2, HeardAppend
  <2> QED
    BY <2>1, <2>2, <2>3 DEF t
<1> QED
  BY <1>3, <1>4, <1>5 DEF WithWholes, s, n, a

\* What a client heard, whatever calls are among it.
Meant(r, h) ==
  /\ DOMAIN r = Hearing /\ ~r.astray
  /\ r.text = h.text /\ r.thinking = h.thinking /\ r.opened = h.opened /\ r.shut = h.shut /\ r.ending = h.ending

(* ... so the end of a Responses stream leaves what was heard, ...         *)
LEMMA ResponsesWholes ==
  ASSUME NEW w, WriterOK(w), NEW text, NEW thinking, Plain("responses", w, text, thinking),
         NEW calls, CallsOK(calls), Tells("responses", w, text, calls)
  PROVE  LET h == HeardFrom("responses", w.frames)
             r == HeardFrom("responses", w.frames \o SentWhole("responses", w)) IN
         Meant(r, h) /\ r.calls = h.calls
<1> DEFINE h == HeardFrom("responses", w.frames)
           n == Len(w.items)
           g(k) == HeardFrom("responses", WithWholes("responses", w, k))
           T == {k \in 0 .. n : Meant(g(k), h) /\ g(k).calls = h.calls}
           items == w.items
<1>0. n \in Nat /\ DOMAIN items = 1 .. n
  BY SeqShape DEF WriterOK
<1>1. g(0) = h /\ DOMAIN h = Hearing
  BY WholesNext, HeardShape
<1>2. ~h.astray /\ h.text = text /\ h.opened = 1 .. n
  BY DEF Plain
<1>3. Items(h.calls, items, text, calls)
  BY DEF Tells
<1> DEFINE c == h.calls
<1>4. /\ CallsOK(c) /\ Alike(c, calls)
      /\ \A j \in DOMAIN c : items[c[j].tool] = calls[j]
      /\ \A q \in DOMAIN items :
           \/ items[q].kind = "text" /\ items[q].pieces = text
           \/ \E j \in DOMAIN c : c[j].tool = q
  BY <1>3 DEF Items
<1>5. DOMAIN c = DOMAIN calls /\ \A j \in DOMAIN calls : calls[j].kind = "tool"
  BY <1>3, ItemsShape
<1>6. ASSUME NEW q \in 1 .. n
      PROVE  items[q].pieces = IF items[q].kind = "text" THEN text ELSE c[CallAt(c, q)].pieces
  <2>1. CASE items[q].kind = "text"
    <3>1. \A j \in DOMAIN c : c[j].tool # q
      BY <1>4, <1>5, <2>1
    <3> QED
      BY <1>0, <1>4, <2>1, <3>1
  <2>2. CASE items[q].kind # "text"
    <3>1. PICK j \in DOMAIN c : c[j].tool = q
      BY <1>0, <1>4, <2>2
    <3>2. CallAt(c, q) = j
      BY <1>4, <3>1, CallAtApart
    <3>3. items[q] = calls[j] /\ c[j].pieces = calls[j].pieces
      BY <1>4, <1>5, <3>1 DEF Alike
    <3> QED
      BY <2>2, <3>2, <3>3
  <2> QED
    BY <2>1, <2>2
<1>7. 0 \in T
  BY <1>0, <1>1, <1>2 DEF Meant
<1>8. ASSUME NEW k \in 1 .. n, k - 1 \in T PROVE k \in T
  <2> DEFINE b == g(k - 1)
             f == WholeFrame("responses", items, k)
             d == g(k)
             s == Read("responses", b, f)
  <2>1. d = s
    BY WholesNext
  <2>2. Meant(b, h) /\ b.calls = c
    BY <1>8
  <2>3. f.type = "whole" /\ f.at = k /\ f.kind = items[k].kind /\ f.pieces = items[k].pieces
    BY DEF WholeFrame, Carried
  <2> HIDE DEF b, f, h, c, d
  <2>4. DOMAIN b = Hearing /\ ~b.astray /\ f.type = "whole" /\ f.at \in b.opened
    BY <1>2, <2>2, <2>3 DEF Meant
  <2>5. f.pieces = IF f.kind = "text" THEN b.text ELSE b.calls[CallAt(b.calls, f.at)].pieces
    BY <1>2, <1>6, <2>2, <2>3 DEF Meant
  <2>6. /\ s.text = b.text /\ s.thinking = b.thinking /\ s.calls = b.calls
        /\ s.opened = b.opened /\ s.shut = b.shut /\ s.ending = b.ending /\ ~s.astray
    BY <2>4, <2>5, WholeRead
  <2>7. DOMAIN s = Hearing
    BY <2>4, ReadKeepsShape DEF FrameTypes
  <2> HIDE DEF s
  <2>8. Meant(d, h) /\ d.calls = h.calls
    BY <2>1, <2>2, <2>6, <2>7 DEF Meant, c
  <2>9. k \in 0 .. n
    BY <1>0
  <2> QED
    BY <2>8, <2>9 DEF d
<1> HIDE DEF T
<1>9. 0 .. n \subseteq T
  BY <1>0, <1>7, <1>8, UpTo
<1>10. n \in T
  BY <1>0, <1>9
<1>11. Meant(g(n), h) /\ g(n).calls = h.calls
  BY <1>10 DEF T
<1>12. WithWholes("responses", w, n) = w.frames \o SentWhole("responses", w)
  BY WholesNext
<1> QED
  BY <1>11, <1>12

(* ... and that of a Gemini stream brings the calls.                       *)
\* Calls with the same names and arguments as others, in their order.
Calling(c, calls) ==
  ContentsOK(c) /\ (\A j \in DOMAIN c : c[j].kind = "tool") /\ Alike(c, calls)

LEMMA CallsOfTold ==
  ASSUME NEW c, NEW calls, ContentsOK(calls), \A j \in DOMAIN calls : calls[j].kind = "tool", Calling(c, calls)
  PROVE  CallsOf(c) = CallsOf(calls)
<1>1. OfKind(c, "tool") = c /\ OfKind(calls, "tool") = calls
  BY OfKindAllOrNone DEF Calling
<1>2. /\ CallsOf(c) = [i \in DOMAIN c |-> [name |-> c[i].name, pieces |-> c[i].pieces]]
      /\ CallsOf(calls) = [i \in DOMAIN calls |-> [name |-> calls[i].name, pieces |-> calls[i].pieces]]
  BY <1>1 DEF CallsOf
<1>3. DOMAIN c = DOMAIN calls
  <2>1. IsSeq(c) /\ IsSeq(calls) /\ Len(c) = Len(calls)
    BY ContentsAre DEF Calling, Alike
  <2> QED
    BY <2>1, SeqShape
<1>4. \A i \in DOMAIN calls : c[i].name = calls[i].name /\ c[i].pieces = calls[i].pieces
  BY DEF Calling, Alike
<1> QED
  BY <1>2, <1>3, <1>4

(* The calls as a format can tell them are calls again, with the same      *)
(* names, and the same arguments but to Gemini.                            *)
LEMMA TellableIs ==
  ASSUME NEW format, NEW calls, ContentsOK(calls), \A j \in DOMAIN calls : calls[j].kind = "tool"
  PROVE  LET t == Tellable(format, calls) IN
         /\ ContentsOK(t) /\ Len(t) = Len(calls) /\ DOMAIN t = DOMAIN calls
         /\ \A j \in DOMAIN calls :
              /\ t[j].kind = "tool" /\ t[j].name = calls[j].name
              /\ t[j].pieces = Carried(format, calls[j].pieces)
         /\ format # "gemini" => \A c : Calling(c, calls) => Calling(c, t)
         /\ CallsOf(t) = Tellable(format, CallsOf(calls))
<1> DEFINE t == Tellable(format, calls)
           n == Len(calls)
<1>1. /\ IsSeq(calls) /\ DOMAIN calls = 1 .. n /\ n \in Nat
      /\ \A j \in DOMAIN calls : DOMAIN calls[j] = {"kind", "tool", "name", "pieces"} /\ IsSeq(calls[j].pieces)
  BY SeqShape DEF ContentsOK
<1>2. t = [j \in DOMAIN calls |-> [calls[j] EXCEPT !.pieces = Carried(format, @)]]
  BY DEF Tellable
<1> HIDE DEF t, n
<1>3. DOMAIN t = DOMAIN calls /\ \A j \in DOMAIN calls : t[j] = [calls[j] EXCEPT !.pieces = Carried(format, @)]
  BY <1>2
<1>4. \A j \in DOMAIN calls :
        /\ DOMAIN t[j] = {"kind", "tool", "name", "pieces"}
        /\ t[j].kind = "tool" /\ t[j].name = calls[j].name
        /\ t[j].pieces = Carried(format, calls[j].pieces)
  BY <1>1, <1>3
<1>5. \A j \in DOMAIN calls : IsSeq(t[j].pieces)
  <2>1. \A j \in DOMAIN calls : IsSeq(Carried(format, calls[j].pieces))
    BY <1>1, ShortShape DEF Carried, geminiArgs
  <2> QED
    BY <1>4, <2>1
<1>6. IsSeq(t) /\ Len(t) = n
  <2>1. DOMAIN t = 1 .. n /\ t = [i \in 1 .. n |-> t[i]]
    BY <1>1, <1>2
  <2> QED
    BY <1>1, <2>1, SeqShape
<1>7. ContentsOK(t)
  BY <1>3, <1>4, <1>5, <1>6 DEF ContentsOK
<1>8. format # "gemini" => \A c : Calling(c, calls) => Calling(c, t)
  <2> SUFFICES ASSUME format # "gemini", NEW c, Calling(c, calls) PROVE Calling(c, t)
    OBVIOUS
  <2>1. \A j \in DOMAIN calls : t[j].pieces = calls[j].pieces
    BY <1>4 DEF Carried
  <2>2. Alike(c, t)
    BY <1>3, <1>4, <1>6, <2>1 DEF Calling, Alike, n
  <2> QED
    BY <2>2 DEF Calling
<1>9. CallsOf(t) = Tellable(format, CallsOf(calls))
  <2>1. OfKind(t, "tool") = t /\ OfKind(calls, "tool") = calls
    BY <1>3, <1>4, <1>7, OfKindAllOrNone
  <2> DEFINE call(j) == [name |-> calls[j].name, pieces |-> calls[j].pieces]
             k == CallsOf(calls)
  <2>2. k = [j \in DOMAIN calls |-> call(j)]
    BY <2>1 DEF CallsOf
  <2>3. CallsOf(t) = [j \in DOMAIN t |-> [name |-> t[j].name, pieces |-> t[j].pieces]]
    BY <2>1 DEF CallsOf
  <2>4. CallsOf(t) = [j \in DOMAIN calls |->
                       [name |-> calls[j].name, pieces |-> Carried(format, calls[j].pieces)]]
    BY <1>3, <1>4, <2>3
  <2>5. \A j \in DOMAIN calls : [call(j) EXCEPT !.pieces = Carried(format, @)] =
          [name |-> calls[j].name, pieces |-> Carried(format, calls[j].pieces)]
    OBVIOUS
  <2> HIDE DEF k, call
  <2>6. DOMAIN k = DOMAIN calls /\ \A j \in DOMAIN calls : k[j] = call(j)
    BY <2>2
  <2>7. Tellable(format, k) = [j \in DOMAIN calls |-> [call(j) EXCEPT !.pieces = Carried(format, @)]]
    BY <2>6 DEF Tellable
  <2> QED
    BY <2>4, <2>5, <2>7 DEF k
<1> QED
  BY <1>1, <1>3, <1>4, <1>6, <1>7, <1>8, <1>9 DEF t, n

LEMMA WholeCallRead ==
  ASSUME NEW h, DOMAIN h = Hearing, NEW f, f.type = "whole", ~h.astray
  PROVE  LET r == Read("gemini", h, f) IN
         /\ Meant(r, h) /\ r.calls = Append(h.calls, Content("tool", f.at, f.name, f.pieces))
<1> DEFINE r == Read("gemini", h, f)
<1>1. r = ReadWhole("gemini", h, f)
  BY DEF Read
<1>2. ReadWhole("gemini", h, f) = [h EXCEPT !.calls = Append(@, Content("tool", f.at, f.name, f.pieces))]
  BY DEF ReadWhole
<1>3. r = [h EXCEPT !.calls = Append(@, Content("tool", f.at, f.name, f.pieces))]
  BY <1>1, <1>2
<1> HIDE DEF r
<1> QED
  BY <1>3 DEF Hearing, Meant, r

LEMMA CallingMore ==
  ASSUME NEW c, NEW calls, ContentsOK(calls), Calling(c, calls), NEW tool, NEW item, ContentOK(item)
  PROVE  Calling(Append(c, Content("tool", tool, item.name, item.pieces)), Append(calls, item))
<1> DEFINE x == Content("tool", tool, item.name, item.pieces)
           d == Append(c, x)
<1>1. ContentOK(x) /\ x.kind = "tool" /\ x.name = item.name /\ x.pieces = item.pieces
  BY ContentsAre, ContentIs DEF ContentOK
<1> HIDE DEF x
<1>2. IsSeq(c) /\ IsSeq(calls) /\ ContentsOK(c) /\ ContentsOK(d)
  BY <1>1, ContentsAre DEF Calling
<1>3. Alike(d, Append(calls, item))
  BY <1>1, <1>2, AlikeAppend DEF Calling
<1>4. /\ DOMAIN d = 1 .. Len(c) + 1 /\ (\A j \in DOMAIN c : d[j] = c[j]) /\ d[Len(c) + 1] = x
      /\ DOMAIN c = 1 .. Len(c) /\ Len(c) \in Nat
  BY <1>2, AppendShape
<1> HIDE DEF d
<1>5. \A j \in DOMAIN d : j \in DOMAIN c \/ j = Len(c) + 1
  BY <1>4
<1>6. \A j \in DOMAIN d : d[j].kind = "tool"
  BY <1>1, <1>4, <1>5 DEF Calling
<1> QED
  BY <1>2, <1>3, <1>6 DEF Calling, d, x

LEMMA GeminiWholes ==
  ASSUME NEW w, WriterOK(w), NEW text, NEW thinking, Plain("gemini", w, text, thinking),
         NEW calls, CallsOK(calls), Tells("gemini", w, text, calls)
  PROVE  LET h == HeardFrom("gemini", w.frames)
             r == HeardFrom("gemini", w.frames \o SentWhole("gemini", w)) IN
         Meant(r, h) /\ Calling(r.calls, Tellable("gemini", calls))
<1> DEFINE h == HeardFrom("gemini", w.frames)
           n == Len(w.items)
           told == Tellable("gemini", calls)
           g(k) == HeardFrom("gemini", WithWholes("gemini", w, k))
           T == {k \in 0 .. n : Meant(g(k), h) /\ Calling(g(k).calls, Start(told, k))}
           items == w.items
<1>0. n \in Nat /\ DOMAIN items = 1 .. n
  BY SeqShape DEF WriterOK
<1>1. g(0) = h /\ DOMAIN h = Hearing
  BY WholesNext, HeardShape
<1>2. ~h.astray /\ h.calls = <<>> /\ items = calls
  BY DEF Plain, Tells
<1>3. /\ ContentsOK(told) /\ Len(told) = n /\ DOMAIN told = DOMAIN items
      /\ \A j \in DOMAIN items :
           told[j].name = items[j].name /\ told[j].pieces = Carried("gemini", items[j].pieces)
      /\ Start(told, 0) = <<>> /\ Start(told, n) = told
  <2>1. ContentsOK(calls) /\ \A j \in DOMAIN calls : calls[j].kind = "tool"
    BY DEF CallsOK
  <2>2. /\ ContentsOK(told) /\ Len(told) = Len(calls) /\ DOMAIN told = DOMAIN calls
        /\ \A j \in DOMAIN calls :
             told[j].name = calls[j].name /\ told[j].pieces = Carried("gemini", calls[j].pieces)
    BY <2>1, TellableIs
  <2> HIDE DEF told
  <2>3. Start(told, 0) = <<>> /\ Start(told, Len(told)) = told
    BY <2>2, StartIs, ContentsAre
  <2> QED
    BY <1>2, <2>2, <2>3
<1> HIDE DEF told
<1>4. 0 \in T
  <2>1. Calling(<<>>, <<>>)
    BY ContentsAre, EmptyIs DEF Calling, Alike
  <2> QED
    BY <1>0, <1>1, <1>2, <1>3, <2>1 DEF Meant
<1>5. ASSUME NEW k \in 1 .. n, k - 1 \in T PROVE k \in T
  <2> DEFINE b == g(k - 1)
             f == WholeFrame("gemini", items, k)
             d == g(k)
             s == Read("gemini", b, f)
             t == Start(told, k - 1)
             x == told[k]
  <2>1. d = s
    BY WholesNext
  <2>2. Meant(b, h) /\ Calling(b.calls, t)
    BY <1>5
  <2>3. f.type = "whole" /\ f.at = k /\ f.name = x.name /\ f.pieces = x.pieces
    BY <1>0, <1>3 DEF WholeFrame
  <2>4. ContentsOK(t) /\ ContentOK(x) /\ Start(told, k) = Append(t, x)
    BY <1>3, StartContents
  <2> HIDE DEF b, f, h, d, t, x
  <2>5. DOMAIN b = Hearing /\ ~b.astray
    BY <2>2 DEF Meant
  <2>6. Meant(s, b) /\ s.calls = Append(b.calls, Content("tool", f.at, f.name, f.pieces))
    BY <2>3, <2>5, WholeCallRead
  <2> HIDE DEF s
  <2>7. Calling(Append(b.calls, Content("tool", f.at, x.name, x.pieces)), Append(t, x))
    BY <2>2, <2>4, CallingMore
  <2>8. Calling(d.calls, Start(told, k))
    BY <2>1, <2>3, <2>4, <2>6, <2>7
  <2>9. Meant(d, h)
    BY <2>1, <2>2, <2>6 DEF Meant
  <2>10. k \in 0 .. n
    BY <1>0
  <2> QED
    BY <2>8, <2>9, <2>10 DEF d
<1> HIDE DEF T
<1>6. 0 .. n \subseteq T
  BY <1>0, <1>4, <1>5, UpTo
<1>7. n \in T
  BY <1>0, <1>6
<1>8. Meant(g(n), h) /\ Calling(g(n).calls, told)
  BY <1>3, <1>7 DEF T
<1>9. WithWholes("gemini", w, n) = w.frames \o SentWhole("gemini", w)
  BY WholesNext
<1> QED
  BY <1>8, <1>9 DEF told

(* What a stream that is closed told.                                      *)
CloseIs(format, w) == IF format = "anthropic" THEN StopBlock(w) ELSE w
Closing(format, w) == CloseIs(format, w).frames \o SentWhole(format, w)

LEMMA ClosedBy ==
  ASSUME NEW format, NEW w, WriterOK(w)
  PROVE  /\ WriterOK(CloseIs(format, w)) /\ IsSeq(Closing(format, w))
         /\ Close(format, w).frames =
              Append(Closing(format, w), Frame("end", 0, Ending(format, w.stop, w.failed), Unnamed, NoPiece))
<1> DEFINE v == CloseIs(format, w)
           s == SentWhole(format, w)
           f == Frame("end", 0, Ending(format, w.stop, w.failed), Unnamed, NoPiece)
<1>1. WriterOK(v)
  BY StopBlockKeepsShape DEF CloseIs
<1>2. Close(format, w) = [v EXCEPT !.frames = @ \o s \o <<f>>]
  BY DEF Close, CloseIs
<1> HIDE DEF v, f, s
<1>3. Close(format, w).frames = (v.frames \o s) \o <<f>>
  BY <1>1, <1>2 DEF WriterOK, Writing
<1>4. IsSeq(v.frames) /\ IsSeq(s)
  BY <1>1, SentWholeIs DEF s, WriterOK, FramesOK
<1> DEFINE a == v.frames
           b == a \o s
<1> HIDE DEF a
<1>5. IsSeq(b)
  BY <1>4, ConcatShape DEF a
<1> HIDE DEF b
<1>6. b \o <<f>> = Append(b, f)
  BY <1>5, ConcatIs
<1> QED
  BY <1>1, <1>3, <1>5, <1>6 DEF Closing, v, f, s, a, b

LEMMA ClosingTells ==
  ASSUME NEW format \in Formats, NEW w, WriterOK(w), NEW text, NEW thinking, Plain(format, w, text, thinking),
         NEW calls, CallsOK(calls), format # "anthropic" => Tells(format, w, text, calls)
  PROVE  LET r == HeardFrom(format, Closing(format, w)) IN
         /\ DOMAIN r = Hearing /\ r.text = text /\ r.thinking = thinking /\ ~r.astray /\ r.ending = "none"
         /\ format = "anthropic" => r.opened = r.shut
         /\ Tells(format, w, text, calls) => Calling(r.calls, Tellable(format, calls))
<1> DEFINE h == HeardFrom(format, w.frames)
           r == HeardFrom(format, Closing(format, w))
<1>0. IsSeq(w.frames)
  BY DEF WriterOK, FramesOK
<1> DEFINE told == Tellable(format, calls)
<1>t. format # "gemini" => \A c : Calling(c, calls) => Calling(c, told)
  BY TellableIs DEF CallsOK
<1>g. format = "gemini" => told = Tellable("gemini", calls)
  OBVIOUS
<1> HIDE DEF told
<1>1. CASE format = "responses"
  <2>1. Closing(format, w) = w.frames \o SentWhole("responses", w)
    BY <1>1 DEF Closing, CloseIs
  <2>2. Meant(r, h) /\ r.calls = h.calls
    BY <1>1, <2>1, ResponsesWholes
  <2>3. Items(h.calls, w.items, text, calls) /\ h.text = text /\ h.thinking = thinking /\ h.ending = "none"
    BY <1>1 DEF Tells, Plain
  <2> HIDE DEF r, h
  <2>4. Calling(r.calls, calls)
    BY <2>2, <2>3 DEF Calling, Items, CallsOK
  <2>5. Calling(r.calls, told)
    BY <1>t, <1>1, <2>4
  <2> QED
    BY <1>1, <2>2, <2>3, <2>5 DEF Meant, r, told
<1>2. CASE format = "gemini"
  <2>1. Closing(format, w) = w.frames \o SentWhole("gemini", w)
    BY <1>2 DEF Closing, CloseIs
  <2>2. Meant(r, h) /\ Calling(r.calls, told)
    BY <1>2, <1>g, <2>1, GeminiWholes
  <2>3. h.text = text /\ h.thinking = thinking /\ h.ending = "none"
    BY <1>2 DEF Plain
  <2> HIDE DEF r, h
  <2> QED
    BY <1>2, <2>2, <2>3 DEF Meant, r, told
<1>3. CASE format = "chat"
  <2>1. Closing(format, w) = w.frames
    <3>1. SentWhole(format, w) = <<>>
      BY <1>3, SentWholeIs
    <3> QED
      BY <1>0, <1>3, <3>1, ConcatIs DEF Closing, CloseIs
  <2>2. h.text = text /\ h.thinking = thinking /\ ~h.astray /\ h.ending = "none" /\ h.calls = calls
    BY <1>3 DEF Plain, Tells
  <2>3. DOMAIN h = Hearing
    BY HeardShape
  <2>4. Calling(calls, told)
    <3>1. Calling(calls, calls)
      BY DEF Calling, Alike, CallsOK
    <3> QED
      BY <1>t, <1>3, <3>1
  <2> HIDE DEF h
  <2> QED
    BY <1>3, <2>1, <2>2, <2>3, <2>4 DEF h, told
<1>4. CASE format = "anthropic"
  <2> DEFINE v == StopBlock(w)
             s == HeardFrom("anthropic", v.frames)
             k == HeardFrom("anthropic", w.frames)
  <2>1. WriterOK(v) /\ Plain("anthropic", v, text, thinking) /\ v.open = "none" /\ s.calls = k.calls
    BY <1>4, BlockShut
  <2>2. Closing(format, w) = v.frames
    <3>1. SentWhole(format, w) = <<>>
      BY <1>4, SentWholeIs
    <3>2. IsSeq(v.frames)
      BY <2>1 DEF WriterOK, FramesOK
    <3> QED
      BY <1>4, <3>1, <3>2, ConcatIs DEF Closing, CloseIs
  <2>3. DOMAIN s = Hearing
    BY <2>1, HeardShape
  <2>4. s.text = text /\ s.thinking = thinking /\ ~s.astray /\ s.ending = "none" /\ s.opened = s.shut
    BY <2>1 DEF Plain
  <2>5. Tells("anthropic", w, text, calls) => Calling(k.calls, told)
    <3>1. Tells("anthropic", w, text, calls) => Calling(k.calls, calls)
      BY DEF Tells, Blocks, Calling, CallsOK
    <3> QED
      BY <1>t, <1>4, <3>1
  <2>6. r = s
    BY <1>4, <2>2
  <2> HIDE DEF s, k, v, r
  <2> QED
    BY <1>4, <2>1, <2>3, <2>4, <2>5, <2>6 DEF r, told
<1> QED
  BY <1>1, <1>2, <1>3, <1>4 DEF Formats, Upstreams

LEMMA CloseTells ==
  ASSUME NEW format \in Formats, NEW w, WriterOK(w), NEW text, NEW thinking, Plain(format, w, text, thinking),
         NEW calls, CallsOK(calls), format # "anthropic" => Tells(format, w, text, calls)
  PROVE  LET r == HeardFrom(format, Close(format, w).frames) IN
         /\ r.text = text /\ r.thinking = thinking /\ ~r.astray
         /\ Tells(format, w, text, calls) => CallsOf(r.calls) = Tellable(format, CallsOf(calls))
<1> DEFINE s == Closing(format, w)
           kind == Ending(format, w.stop, w.failed)
           b == HeardFrom(format, s)
           f == Frame("end", 0, kind, Unnamed, NoPiece)
           d == Read(format, b, f)
           r == HeardFrom(format, Close(format, w).frames)
<1>1. /\ DOMAIN b = Hearing /\ b.text = text /\ b.thinking = thinking /\ ~b.astray /\ b.ending = "none"
      /\ format = "anthropic" => b.opened = b.shut
      /\ Tells(format, w, text, calls) => Calling(b.calls, Tellable(format, calls))
  BY ClosingTells
<1>2. Close(format, w).frames = Append(s, f) /\ IsSeq(s)
  BY ClosedBy
<1> HIDE DEF kind, s
<1>3. r = d
  <2> HIDE DEF f
  <2>1. HeardFrom(format, Append(s, f)) = Read(format, HeardFrom(format, s), f)
    BY <1>2, HeardAppend
  <2> QED
    BY <1>2, <2>1
<1> HIDE DEF b, r
<1>4. DOMAIN b = Hearing /\ ~b.astray /\ b.ending = "none" /\ (format # "anthropic" \/ b.opened = b.shut)
  BY <1>1
<1>5. d.text = b.text /\ d.thinking = b.thinking /\ d.calls = b.calls /\ ~d.astray
  BY <1>4, EndRead
<1> HIDE DEF d
<1>6. Tells(format, w, text, calls) => CallsOf(r.calls) = Tellable(format, CallsOf(calls))
  <2> DEFINE told == Tellable(format, calls)
  <2>1. /\ ContentsOK(told) /\ DOMAIN told = DOMAIN calls /\ \A j \in DOMAIN calls : told[j].kind = "tool"
        /\ CallsOf(told) = Tellable(format, CallsOf(calls))
    BY TellableIs DEF CallsOK
  <2>2. Tells(format, w, text, calls) => Calling(r.calls, told)
    BY <1>1, <1>3, <1>5
  <2> HIDE DEF told
  <2>3. Tells(format, w, text, calls) => CallsOf(r.calls) = CallsOf(told)
    BY <2>1, <2>2, CallsOfTold
  <2> QED
    BY <2>1, <2>3
<1> QED
  BY <1>1, <1>3, <1>5, <1>6 DEF r

-----------------------------------------------------------------------------
(* A stream that is written as the upstream goes on.                       *)

(* What is written of a sequence of events, and then of another.           *)
LEMMA WriteAllConcat ==
  ASSUME NEW format, NEW w, NEW s, IsSeq(s), NEW t, IsSeq(t)
  PROVE  WriteAll(format, w, s \o t) = WriteAll(format, WriteAll(format, w, s), t)
<1> DEFINE n == Len(t)
           v == WriteAll(format, w, s)
           T == {k \in 0 .. n : WriteAll(format, w, s \o Start(t, k)) = WriteAll(format, v, Start(t, k))}
<1>0. n \in Nat
  BY SeqShape
<1>1. 0 \in T
  <2>1. Start(t, 0) = <<>> /\ s \o <<>> = s
    BY StartIs, ConcatIs
  <2>2. WriteAll(format, v, <<>>) = v
    BY ShortShape, WriteAllAppend
  <2>3. WriteAll(format, w, s \o Start(t, 0)) = WriteAll(format, v, Start(t, 0))
    BY <2>1, <2>2
  <2>4. 0 \in 0 .. n
    BY <1>0
  <2> HIDE DEF v, n
  <2> QED
    BY <2>3, <2>4
<1>2. ASSUME NEW k \in 1 .. n, k - 1 \in T PROVE k \in T
  <2> DEFINE u == Start(t, k - 1)
             e == t[k]
  <2>1. IsSeq(u) /\ Start(t, k) = Append(u, e) /\ k \in 0 .. n
    <3>1. k - 1 \in 0 .. n /\ k \in 0 .. n
      BY <1>0
    <3> QED
      BY <3>1, StartIs
  <2>2. WriteAll(format, w, s \o u) = WriteAll(format, v, u)
    BY <1>2
  <2> HIDE DEF u, e, v
  <2>3. s \o Append(u, e) = Append(s \o u, e)
    BY <2>1, ConcatIs
  <2>4. IsSeq(s \o u)
    BY <2>1, ConcatShape
  <2>5. WriteAll(format, w, Append(s \o u, e)) = WriteEvent(format, WriteAll(format, w, s \o u), e)
    BY <2>4, WriteAllAppend
  <2>6. WriteAll(format, v, Append(u, e)) = WriteEvent(format, WriteAll(format, v, u), e)
    BY <2>1, WriteAllAppend
  <2>7. WriteAll(format, w, s \o Start(t, k)) = WriteAll(format, v, Start(t, k))
    BY <2>1, <2>2, <2>3, <2>5, <2>6
  <2> QED
    BY <2>1, <2>7
<1> HIDE DEF T
<1>3. 0 .. n \subseteq T
  BY <1>0, <1>1, <1>2, UpTo
<1>4. n \in T
  BY <1>0, <1>3
<1>5. Start(t, n) = t
  BY StartIs
<1> QED
  BY <1>4, <1>5 DEF T

\* A stream that told the text and the thoughts of some items, and the calls.
TextTold(format, w, items) ==
  WriterOK(w) /\ Plain(format, w, PiecesOf(OfKind(items, "text")), PiecesOf(OfKind(items, "thinking")))
CallsTold(as, format, w, items) == Tells(format, w, PiecesOf(OfKind(items, "text")), CallsAs(as, items))

LEMMA StepTold ==
  ASSUME NEW as, NEW format \in Formats, NEW w, NEW items, TextTold(format, w, items),
         CallsOK(CallsAs(as, items)), format # "anthropic" => CallsTold(as, format, w, items),
         NEW changed, NEW e, Follows(as, items, changed, e)
  PROVE  LET v == WriteEvent(format, w, e) IN
         /\ TextTold(format, v, changed)
         /\ CallsTold(as, format, w, items) /\ ~ Untold(format, w, CallsAs(as, items), e) =>
              CallsTold(as, format, v, changed)
         /\ format = "anthropic" => v.open = e.kind /\ (e.kind = "tool" => v.openTool = e.tool)
<1> DEFINE text == PiecesOf(OfKind(items, "text"))
           thinking == PiecesOf(OfKind(items, "thinking"))
           calls == CallsAs(as, items)
           v == WriteEvent(format, w, e)
<1>1. /\ PiecesOf(OfKind(changed, "text")) = PiecesAfter("text", text, e)
      /\ PiecesOf(OfKind(changed, "thinking")) = PiecesAfter("thinking", thinking, e)
      /\ CallsAs(as, changed) = CallsAfter(calls, e)
      /\ Proper(calls, e)
  BY DEF Follows
<1>2. /\ WriterOK(w) /\ Plain(format, w, text, thinking)
      /\ CallsOK(calls) /\ (format # "anthropic" => Tells(format, w, text, calls))
  BY DEF TextTold, CallsTold
<1>3. CallsTold(as, format, w, items) <=> Tells(format, w, text, calls)
  BY DEF CallsTold
<1> HIDE DEF text, thinking, calls
<1>4. /\ WriterOK(v)
      /\ Plain(format, v, PiecesAfter("text", text, e), PiecesAfter("thinking", thinking, e))
      /\ Tells(format, w, text, calls) /\ ~ Untold(format, w, calls, e) =>
           Tells(format, v, PiecesAfter("text", text, e), CallsAfter(calls, e))
      /\ format = "anthropic" => v.open = e.kind /\ (e.kind = "tool" => v.openTool = e.tool)
  BY <1>1, <1>2, EventTells
<1> HIDE DEF v
<1> QED
  BY <1>1, <1>3, <1>4 DEF TextTold, CallsTold, v, calls

LEMMA StayTold ==
  ASSUME NEW as, NEW format, NEW w, NEW items, NEW changed, SameTold(as, items, changed)
  PROVE  /\ TextTold(format, w, items) => TextTold(format, w, changed)
         /\ CallsTold(as, format, w, items) => CallsTold(as, format, w, changed)
BY DEF SameTold, TextTold, CallsTold

LEMMA NothingTold ==
  ASSUME NEW as, NEW format \in Formats
  PROVE  /\ TextTold(format, Fresh, <<>>) /\ CallsTold(as, format, Fresh, <<>>)
         /\ CallsAs(as, <<>>) = <<>> /\ CallsOK(<<>>)
<1>1. /\ Fresh.frames = <<>> /\ Fresh.items = <<>> /\ Fresh.open = "none" /\ DOMAIN Fresh = Writing
  BY DEF Fresh, Writing
<1>2. WriterOK(Fresh)
  BY <1>1, ShortShape DEF WriterOK, FramesOK
<1>3. HeardFrom(format, Fresh.frames) = Silence
  BY <1>1, ShortShape, HeardAppend
<1>4. /\ PiecesOf(OfKind(<<>>, "text")) = <<>> /\ PiecesOf(OfKind(<<>>, "thinking")) = <<>>
      /\ OfKind(<<>>, "tool") = <<>>
  BY OfKindAppend, PiecesAppend
<1>5. CallsAs(as, <<>>) = <<>>
  <2>1. ContentsOK(<<>>)
    BY ContentsAre
  <2>2. IsSeq(CallsAs(as, <<>>)) /\ Len(CallsAs(as, <<>>)) = Len(<<>>)
    BY <1>4, <2>1, CallsAsShape
  <2> QED
    BY <2>2, EmptyIs
<1>6. CallsOK(<<>>)
  BY ContentsAre, EmptyIs DEF CallsOK, Apart
<1>7. Len(<<>>) = 0 /\ 1 .. 0 = {} /\ DOMAIN <<>> = {}
  BY ShortShape
<1>8. Plain(format, Fresh, <<>>, <<>>)
  BY <1>1, <1>3, <1>7 DEF Plain, Silence
<1>9. Tells(format, Fresh, <<>>, <<>>)
  <2>1. Alike(<<>>, <<>>)
    BY <1>7 DEF Alike
  <2>2. Silence.calls = <<>>
    BY DEF Silence
  <2>3. Blocks(Silence, Fresh, <<>>)
    BY <1>1, <1>6, <1>7, <2>1, <2>2 DEF Blocks
  <2>4. Items(<<>>, <<>>, <<>>, <<>>)
    BY <1>6, <1>7, <2>1, ContentsAre DEF Items
  <2> QED
    BY <1>1, <1>3, <2>2, <2>3, <2>4 DEF Tells
<1> QED
  BY <1>2, <1>4, <1>5, <1>6, <1>8, <1>9 DEF TextTold, CallsTold

-----------------------------------------------------------------------------
(* A stream that is made of a body.                                        *)

\* A call as it is numbered after others.
NewCall(format, items, item) == Content("tool", NewNumber(format, items, item), item.name, item.pieces)

LEMMA CallsAsMore ==
  ASSUME NEW format, NEW items, ContentsOK(items), NEW item, ContentOK(item), item.kind = "tool"
  PROVE  CallsAs(format, Append(items, item)) = Append(CallsAs(format, items), NewCall(format, items, item))
<1> DEFINE number == NewNumber(format, items, item)
<1>1. CallsAs(format, Append(items, item)) = Append(CallsAs(format, items), Content("tool", number, item.name, item.pieces))
  BY CallsAsBegun
<1> QED
  BY <1>1 DEF NewCall

LEMMA CallsAsSame ==
  ASSUME NEW format, NEW items, ContentsOK(items), NEW item, ContentOK(item), item.kind # "tool"
  PROVE  CallsAs(format, Append(items, item)) = CallsAs(format, items)
BY CallsAsBegun

(* Items that differ in no more than how a format numbers them.            *)
LEMMA SameItem ==
  ASSUME NEW as, NEW prev, ContentsOK(prev), NEW x, ContentOK(x), NEW y, ContentOK(y),
         x.kind = y.kind, x.name = y.name, x.pieces = y.pieces
  PROVE  SameTold(as, Append(prev, x), Append(prev, y))
<1> DEFINE more == Append(prev, x)
           others == Append(prev, y)
<1>1. ASSUME NEW kind \in {"text", "thinking"}
      PROVE  PiecesOf(OfKind(others, kind)) = PiecesOf(OfKind(more, kind))
  <2>1. CASE x.kind # kind
    <3>1. OfKind(more, kind) = OfKind(prev, kind) /\ OfKind(others, kind) = OfKind(prev, kind)
      BY <2>1, ItemBegun
    <3> QED
      BY <3>1
  <2>2. CASE x.kind = kind
    <3>1. PiecesOf(OfKind(more, kind)) = PiecesOf(OfKind(prev, kind)) \o x.pieces
      BY <2>2, ItemBegun
    <3>2. PiecesOf(OfKind(others, kind)) = PiecesOf(OfKind(prev, kind)) \o y.pieces
      BY <2>2, ItemBegun
    <3> QED
      BY <3>1, <3>2
  <2> QED
    BY <2>1, <2>2
<1>2. NewNumber(as, prev, x) = NewNumber(as, prev, y)
  BY DEF NewNumber
<1>3. CallsAs(as, others) = CallsAs(as, more)
  <2>1. CASE x.kind # "tool"
    <3>1. CallsAs(as, Append(prev, x)) = CallsAs(as, prev)
      BY <2>1, CallsAsSame
    <3>2. CallsAs(as, Append(prev, y)) = CallsAs(as, prev)
      BY <2>1, CallsAsSame
    <3> QED
      BY <3>1, <3>2
  <2>2. CASE x.kind = "tool"
    <3>1. CallsAs(as, Append(prev, x)) = Append(CallsAs(as, prev), NewCall(as, prev, x))
      BY <2>2, CallsAsMore
    <3>2. CallsAs(as, Append(prev, y)) = Append(CallsAs(as, prev), NewCall(as, prev, y))
      BY <2>2, CallsAsMore
    <3>3. NewCall(as, prev, x) = NewCall(as, prev, y)
      BY <1>2 DEF NewCall
    <3> QED
      BY <3>1, <3>2, <3>3
  <2> QED
    BY <2>1, <2>2
<1> QED
  BY <1>1, <1>3 DEF SameTold

(* A piece more of the item that is last, ...                              *)
LEMMA PieceFollows ==
  ASSUME NEW prev, ContentsOK(prev), NEW kind \in Kinds, NEW own, NEW name, NEW pieces, IsSeq(pieces),
         NEW piece, piece # NoPiece, NEW tool, kind = "tool" => tool = Len(OfKind(prev, "tool"))
  PROVE  LET items == Append(prev, Content(kind, own, name, pieces)) IN
         /\ Follows("chat", items, Append(prev, Content(kind, own, name, Append(pieces, piece))),
                    Event(kind, tool, Unnamed, piece))
         /\ CallsOK(CallsAs("chat", items))
<1> DEFINE t == Content(kind, own, name, pieces)
           u == Content(kind, own, name, Append(pieces, piece))
           items == Append(prev, t)
           at == Len(prev) + 1
           c == CallsAs("chat", items)
           n == Len(OfKind(prev, "tool"))
<1>1. ContentOK(t) /\ t.kind = kind /\ With(t, piece) = u
  BY ContentsAre, ContentIs, WithContent
<1> HIDE DEF t, u
<1>2. ContentsOK(items) /\ IsSeq(prev) /\ IsSeq(items)
  BY <1>1, ContentsAre
<1>3. at \in DOMAIN items /\ items[at] = t /\ Len(items) = at
  BY <1>2, AppendShape
<1>4. Replaced(items, at, u) = Append(prev, u)
  BY <1>2, ReplaceLast
<1> HIDE DEF items, at
<1>5. CallsOK(c) /\ Len(c) = Len(OfKind(items, "tool"))
  BY <1>2, CallsAsShape
<1>6. items[at].kind = "tool" => tool = c[Place(items, at)].tool
  <2> HAVE items[at].kind = "tool"
  <2> DEFINE j == Place(items, at)
  <2>4. LET b == CallsAs("chat", items) IN
        /\ j \in DOMAIN b /\ b[j].name = items[at].name
        /\ b[j].tool = IF "chat" = "responses" THEN items[at].name - 1 ELSE j - 1
        /\ CallsAs("chat", Replaced(items, at, With(items[at], piece))) = Replaced(b, j, With(b[j], piece))
        /\ at = Len(items) => j = Len(b)
    <3> DEFINE f == "chat"
    <3>1. ContentsOK(items) /\ at \in DOMAIN items /\ items[at].kind = "tool"
      BY <1>2, <1>3
    <3> HIDE DEF f, j
    <3>2. LET b == CallsAs(f, items) IN
          /\ Place(items, at) \in DOMAIN b /\ b[Place(items, at)].name = items[at].name
          /\ b[Place(items, at)].tool = IF f = "responses" THEN items[at].name - 1 ELSE Place(items, at) - 1
          /\ CallsAs(f, Replaced(items, at, With(items[at], piece))) =
               Replaced(b, Place(items, at), With(b[Place(items, at)], piece))
          /\ at = Len(items) => Place(items, at) = Len(b)
      BY <3>1, CallsAsGoOn
    <3> QED
      BY <3>2 DEF f, j
  <2> HIDE DEF c, j
  <2>1. j \in DOMAIN c /\ c[j].tool = j - 1 /\ j = Len(c)
    BY <1>3, <2>4 DEF c
  <2>2. Len(OfKind(items, "tool")) = n + 1
    <3>1. OfKind(items, "tool") = Append(OfKind(prev, "tool"), t)
      BY <1>1, <1>3, ItemBegun DEF items
    <3>2. IsSeq(OfKind(prev, "tool"))
      BY OfKindShape, ContentsAre
    <3> QED
      BY <3>1, <3>2, AppendShape
  <2>3. n \in Nat
    BY OfKindShape, ContentsAre, SeqShape
  <2> QED
    BY <1>1, <1>3, <1>5, <2>1, <2>2, <2>3 DEF j
<1> HIDE DEF c
<1>7. Follows("chat", items, Replaced(items, at, With(items[at], piece)), Event(items[at].kind, tool, Unnamed, piece))
  BY <1>1, <1>2, <1>3, <1>5, <1>6, FollowsPiece DEF c
<1> QED
  BY <1>1, <1>3, <1>4, <1>5, <1>7 DEF c, items, t, u

(* ... one after the other.                                                *)
PieceEvents(x, tool) == [p \in DOMAIN x.pieces |-> Event(x.kind, tool, Unnamed, x.pieces[p])]
Trimmed(x, q) == Content(x.kind, x.tool, x.name, Start(x.pieces, q))

LEMMA PieceEventsAre ==
  ASSUME NEW x, ContentOK(x), NEW tool
  PROVE  LET s == PieceEvents(x, tool) IN
         /\ IsSeq(s) /\ Len(s) = Len(x.pieces) /\ Len(s) \in Nat
         /\ \A q \in 1 .. Len(s) : s[q] = Event(x.kind, tool, Unnamed, x.pieces[q])
<1> DEFINE s == PieceEvents(x, tool)
           n == Len(x.pieces)
<1>1. DOMAIN x.pieces = 1 .. n /\ n \in Nat
  BY SeqShape DEF ContentOK
<1>2. s = [q \in 1 .. n |-> Event(x.kind, tool, Unnamed, x.pieces[q])]
  BY <1>1 DEF PieceEvents
<1> HIDE DEF s, n
<1>3. DOMAIN s = 1 .. n /\ s = [q \in 1 .. n |-> s[q]]
  BY <1>2
<1>4. IsSeq(s) /\ Len(s) = n
  BY <1>1, <1>3, SeqShape
<1> QED
  BY <1>1, <1>2, <1>4 DEF s, n

\* What a stream told of items, with the call that is last in its open block.
StreamTold(format, w, items, kind, tool) ==
  /\ TextTold(format, w, items) /\ CallsTold("chat", format, w, items)
  /\ format = "anthropic" /\ kind = "tool" => w.open = "tool" /\ w.openTool = tool

LEMMA PiecesWritten ==
  ASSUME NEW format \in Formats, NEW prev, ContentsOK(prev), NEW x, ContentOK(x), x.kind \in Kinds,
         \A q \in DOMAIN x.pieces : x.pieces[q] # NoPiece,
         NEW tool, x.kind = "tool" => tool = Len(OfKind(prev, "tool")),
         NEW w, StreamTold(format, w, Append(prev, Trimmed(x, 0)), x.kind, tool)
  PROVE  StreamTold(format, WriteAll(format, w, PieceEvents(x, tool)), Append(prev, x), x.kind, tool)
<1> DEFINE s == PieceEvents(x, tool)
           n == Len(s)
           kind == x.kind
           W(k) == WriteAll(format, w, Start(s, k))
           P(k) == Append(prev, Trimmed(x, k))
           T == {k \in 0 .. n : StreamTold(format, W(k), P(k), kind, tool)}
<1>1. /\ IsSeq(s) /\ Len(s) = Len(x.pieces) /\ n \in Nat
      /\ \A q \in 1 .. n : s[q] = Event(kind, tool, Unnamed, x.pieces[q])
  BY PieceEventsAre
<1>2. IsSeq(x.pieces)
  BY DEF ContentOK
<1> HIDE DEF s
<1>3. 0 \in T
  <2>1. Start(s, 0) = <<>>
    BY <1>1, StartIs
  <2>2. WriteAll(format, w, <<>>) = w
    BY ShortShape, WriteAllAppend
  <2>3. StreamTold(format, W(0), P(0), kind, tool)
    BY <2>1, <2>2
  <2>4. 0 \in 0 .. n
    BY <1>1
  <2> HIDE DEF W, P
  <2> QED
    BY <2>3, <2>4
<1>4. ASSUME NEW k \in 1 .. n, k - 1 \in T PROVE k \in T
  <2> DEFINE before == W(k - 1)
             after == W(k)
             items == P(k - 1)
             changed == P(k)
             pieces == Start(x.pieces, k - 1)
             piece == x.pieces[k]
             e == Event(kind, tool, Unnamed, piece)
             c == CallsAs("chat", items)
  <2>1. k - 1 \in 0 .. n /\ k \in 0 .. n /\ k \in 1 .. Len(x.pieces) /\ k - 1 \in 0 .. Len(x.pieces)
    BY <1>1
  <2>2. Start(s, k) = Append(Start(s, k - 1), s[k]) /\ IsSeq(Start(s, k - 1)) /\ s[k] = e
    BY <1>1, <2>1, StartIs
  <2>3. Start(x.pieces, k) = Append(pieces, piece) /\ IsSeq(pieces) /\ k \in DOMAIN x.pieces
    BY <1>2, <2>1, StartIs
  <2>4. piece # NoPiece
    BY <2>3
  <2>5. after = WriteEvent(format, before, e)
    <3> HIDE DEF e
    <3> QED
      BY <2>2, WriteAllAppend
  <2>6. StreamTold(format, before, items, kind, tool)
    BY <1>4
  <2>7. /\ items = Append(prev, Content(kind, x.tool, x.name, pieces))
        /\ changed = Append(prev, Content(kind, x.tool, x.name, Append(pieces, piece)))
    BY <2>3 DEF Trimmed
  <2> HIDE DEF W, P, pieces, piece
  <2>8. Follows("chat", items, changed, e) /\ CallsOK(c)
    BY <2>3, <2>4, <2>7, PieceFollows
  <2>9. e.kind = kind /\ e.tool = tool
    BY EventIs
  <2> HIDE DEF e, before, after, items, changed
  <2>10. /\ TextTold(format, before, items) /\ CallsTold("chat", format, before, items)
         /\ format = "anthropic" /\ kind = "tool" => before.open = "tool" /\ before.openTool = tool
    BY <2>6 DEF StreamTold
  <2>11. ~ Untold(format, before, c, e)
    BY <2>9, <2>10 DEF Untold
  <2> DEFINE v == WriteEvent(format, before, e)
  <2>12. /\ TextTold(format, v, changed)
         /\ CallsTold("chat", format, v, changed)
         /\ format = "anthropic" => v.open = e.kind /\ (e.kind = "tool" => v.openTool = e.tool)
    BY <2>8, <2>10, <2>11, StepTold
  <2>13. StreamTold(format, after, changed, kind, tool)
    BY <2>5, <2>9, <2>12 DEF StreamTold
  <2> QED
    BY <2>1, <2>13 DEF after, changed
<1> HIDE DEF T
<1>5. 0 .. n \subseteq T
  BY <1>1, <1>3, <1>4, UpTo
<1>6. n \in T
  BY <1>1, <1>5
<1>7. StreamTold(format, W(n), P(n), kind, tool)
  BY <1>6 DEF T
<1>8. Start(s, n) = s /\ Start(x.pieces, n) = x.pieces
  BY <1>1, <1>2, StartIs
<1>9. SameTold("chat", P(n), Append(prev, x))
  <2> DEFINE y == Trimmed(x, n)
  <2>1. ContentOK(y) /\ y.kind = x.kind /\ y.name = x.name /\ y.pieces = x.pieces
    BY <1>2, <1>8, ContentsAre, ContentIs DEF Trimmed
  <2> HIDE DEF y
  <2> QED
    BY <2>1, SameItem DEF y
<1> HIDE DEF P
<1>10. TextTold(format, W(n), Append(prev, x)) /\ CallsTold("chat", format, W(n), Append(prev, x))
  BY <1>7, <1>9, StayTold DEF StreamTold
<1> QED
  BY <1>7, <1>8, <1>10 DEF StreamTold, s

\* The events of one item after others.
CallEvents(prev, x) ==
  IF x.kind = "tool" THEN <<Event("tool", Len(OfKind(prev, "tool")), x.name, NoPiece)>> ELSE <<>>
NumberAfter(prev, x) == IF x.kind = "tool" THEN Len(OfKind(prev, "tool")) ELSE 0

LEMMA EventsAre ==
  ASSUME NEW items, ContentsOK(items), NEW i \in 1 .. Len(items)
  PROVE  LET prev == Start(items, i - 1) IN
         EventsOf(items, i) = CallEvents(prev, items[i]) \o PieceEvents(items[i], NumberAfter(prev, items[i]))
<1> DEFINE n == Cardinality({j \in 1 .. i - 1 : items[j].kind = "tool"})
           prev == Start(items, i - 1)
<1>1. i \in 1 .. Len(items) + 1
  BY SeqShape, ContentsAre
<1>2. n = Len(OfKind(prev, "tool"))
  BY <1>1, CallsBefore
<1> HIDE DEF n, prev
<1>3. EventsOf(items, i) =
        (IF items[i].kind = "tool" THEN <<Event("tool", n, items[i].name, NoPiece)>> ELSE <<>>)
          \o [p \in DOMAIN items[i].pieces |-> Event(items[i].kind, IF items[i].kind # "tool" THEN 0 ELSE n,
                                                     Unnamed, items[i].pieces[p])]
  BY DEF EventsOf, ToolEvent, n
<1>4. (IF items[i].kind # "tool" THEN 0 ELSE n) = NumberAfter(prev, items[i])
  BY <1>2 DEF NumberAfter
<1> QED
  BY <1>2, <1>3, <1>4 DEF CallEvents, PieceEvents, prev

(* One item more of an answer that came in one piece.                      *)
LEMMA ItemWritten ==
  ASSUME NEW format \in Formats, NEW prev, ContentsOK(prev), NEW x, ContentOK(x), x.kind \in Kinds,
         \A q \in DOMAIN x.pieces : x.pieces[q] # NoPiece,
         NEW w, TextTold(format, w, prev), CallsTold("chat", format, w, prev)
  PROVE  LET v == WriteAll(format, w, CallEvents(prev, x) \o PieceEvents(x, NumberAfter(prev, x))) IN
         TextTold(format, v, Append(prev, x)) /\ CallsTold("chat", format, v, Append(prev, x))
<1> DEFINE tool == NumberAfter(prev, x)
           a == CallEvents(prev, x)
           b == PieceEvents(x, tool)
           u == WriteAll(format, w, a)
           y == Trimmed(x, 0)
           begun == Append(prev, y)
           c == CallsAs("chat", prev)
<1>1. IsSeq(b)
  BY PieceEventsAre
<1>2. IsSeq(a)
  BY ShortShape DEF CallEvents
<1>3. WriteAll(format, w, a \o b) = WriteAll(format, u, b)
  <2> HIDE DEF a, b
  <2> QED
    BY <1>1, <1>2, WriteAllConcat
<1>4. ContentOK(y) /\ y.kind = x.kind /\ y.name = x.name /\ y.pieces = <<>>
  <2>1. Start(x.pieces, 0) = <<>>
    BY StartIs DEF ContentOK
  <2>2. IsSeq(<<>>)
    BY ShortShape
  <2> QED
    BY <2>1, <2>2, ContentsAre, ContentIs DEF Trimmed
<1>5. CallsOK(c)
  BY CallsAsShape
<1> HIDE DEF y, b
<1>6. StreamTold(format, u, begun, x.kind, tool)
  <2>1. CASE x.kind # "tool"
    <3>1. a = <<>>
      BY <2>1 DEF CallEvents
    <3>2. u = w
      BY <3>1, ShortShape, WriteAllAppend
    <3>3. SameTold("chat", prev, begun)
      BY <1>4, <2>1, NothingBegun
    <3> HIDE DEF u, begun
    <3>4. TextTold(format, w, begun) /\ CallsTold("chat", format, w, begun)
      BY <3>3, StayTold
    <3> QED
      BY <2>1, <3>2, <3>4 DEF StreamTold
  <2>2. CASE x.kind = "tool"
    <3> DEFINE n == Len(OfKind(prev, "tool"))
               e == Event("tool", n, x.name, NoPiece)
               v == WriteEvent(format, w, e)
    <3>1. a = <<e>> /\ tool = n
      BY <2>2 DEF CallEvents, NumberAfter
    <3>2. u = v
      <4> HIDE DEF e
      <4>1. <<e>> = Append(<<>>, e)
        OBVIOUS
      <4>2. IsSeq(<<>>)
        BY ShortShape
      <4>3. WriteAll(format, w, <<>>) = w
        BY <4>2, WriteAllAppend
      <4> DEFINE z == <<>>
      <4> HIDE DEF z
      <4>5. WriteAll(format, w, Append(z, e)) = WriteEvent(format, WriteAll(format, w, z), e)
        <5>1. IsSeq(z)
          BY <4>2 DEF z
        <5> QED
          BY <5>1, WriteAllAppend
      <4>4. WriteAll(format, w, Append(<<>>, e)) = WriteEvent(format, WriteAll(format, w, <<>>), e)
        BY <4>5 DEF z
      <4> QED
        BY <3>1, <4>1, <4>3, <4>4
    <3>3. NewNumber("chat", prev, y) = n
      BY DEF NewNumber
    <3>4. \A j \in DOMAIN c : c[j].tool # n
      <4>1. \A j \in DOMAIN CallsAs("chat", prev) : CallsAs("chat", prev)[j].tool # NewNumber("chat", prev, y)
        BY NewNumberApart
      <4> QED
        BY <3>3, <4>1
    <3>5. y.pieces = WithPiece(<<>>, NoPiece) /\ y.kind = "tool"
      BY <1>4, <2>2, FirstPiece
    <3>6. Follows("chat", prev, begun, Event("tool", NewNumber("chat", prev, y), y.name, NoPiece))
      BY <1>4, <1>5, <3>3, <3>4, <3>5, FollowsBegun
    <3>7. Follows("chat", prev, begun, e) /\ e.kind = "tool" /\ e.tool = n
      BY <1>4, <3>3, <3>6, EventIs
    <3> HIDE DEF e, begun, c, n
    <3>8. ~ Untold(format, w, c, e)
      BY <3>4, <3>7 DEF Untold
    <3>9. /\ TextTold(format, v, begun) /\ CallsTold("chat", format, v, begun)
          /\ format = "anthropic" => v.open = e.kind /\ (e.kind = "tool" => v.openTool = e.tool)
      BY <1>5, <3>7, <3>8, StepTold DEF c
    <3> HIDE DEF u, v
    <3> QED
      BY <3>1, <3>2, <3>7, <3>9 DEF StreamTold
  <2> QED
    BY <2>1, <2>2
<1>7. x.kind = "tool" => tool = Len(OfKind(prev, "tool"))
  BY DEF NumberAfter
<1> HIDE DEF tool, u
<1>8. StreamTold(format, WriteAll(format, u, PieceEvents(x, tool)), Append(prev, x), x.kind, tool)
  BY <1>6, <1>7, PiecesWritten DEF y
<1> QED
  BY <1>3, <1>8 DEF StreamTold, b, tool

\* An answer whose pieces are pieces.
Spoken(items) ==
  /\ ContentsOK(items)
  /\ \A i \in DOMAIN items : items[i].kind \in Kinds /\ \A q \in DOMAIN items[i].pieces : items[i].pieces[q] # NoPiece

LEMMA AllWritten ==
  ASSUME NEW format \in Formats, NEW items, Spoken(items)
  PROVE  LET v == WriteAll(format, Fresh, FlattenSeq([i \in DOMAIN items |-> EventsOf(items, i)])) IN
         TextTold(format, v, items) /\ CallsTold("chat", format, v, items)
<1> DEFINE ss == [i \in DOMAIN items |-> EventsOf(items, i)]
           n == Len(items)
           W(k) == WriteAll(format, Fresh, FlattenSeq(Start(ss, k)))
           P(k) == Start(items, k)
           T == {k \in 0 .. n : TextTold(format, W(k), P(k)) /\ CallsTold("chat", format, W(k), P(k))}
<1>0. ContentsOK(items) /\ IsSeq(items) /\ n \in Nat /\ DOMAIN items = 1 .. n
  BY ContentsAre, SeqShape DEF Spoken
<1>1. \A i \in 1 .. n : IsSeq(ss[i]) /\ ss[i] = EventsOf(items, i)
  BY <1>0, EventsShape
<1>2. IsSeq(ss) /\ Len(ss) = n
  <2>1. DOMAIN ss = 1 .. n /\ ss = [i \in 1 .. n |-> ss[i]]
    BY <1>0
  <2> HIDE DEF ss
  <2> QED
    BY <1>0, <2>1, SeqShape
<1> HIDE DEF ss
<1>3. 0 \in T
  <2>1. Start(ss, 0) = <<>> /\ Start(items, 0) = <<>>
    BY <1>0, <1>2, StartIs
  <2>2. FlattenSeq(<<>>) = <<>> /\ WriteAll(format, Fresh, <<>>) = Fresh
    BY FlattenAppend, ShortShape, WriteAllAppend
  <2>3. W(0) = Fresh /\ P(0) = <<>>
    BY <2>1, <2>2
  <2> HIDE DEF W, P
  <2>4. TextTold(format, W(0), P(0)) /\ CallsTold("chat", format, W(0), P(0))
    BY <2>3, NothingTold
  <2>5. 0 \in 0 .. n
    BY <1>0
  <2> QED
    BY <2>4, <2>5
<1>4. ASSUME NEW k \in 1 .. n, k - 1 \in T PROVE k \in T
  <2> DEFINE t == Start(ss, k - 1)
             s == FlattenSeq(t)
             x == items[k]
             prev == P(k - 1)
             before == W(k - 1)
             after == W(k)
             e == EventsOf(items, k)
             d == CallEvents(prev, x) \o PieceEvents(x, NumberAfter(prev, x))
  <2>1. /\ k \in 0 .. n /\ k - 1 \in 0 .. n /\ k \in 1 .. Len(ss) /\ k - 1 \in 0 .. Len(ss)
    BY <1>0, <1>2
  <2>2. /\ Start(ss, k) = Append(t, ss[k]) /\ IsSeq(t) /\ DOMAIN t = 1 .. k - 1
    BY <1>2, <2>1, StartIs
  <2>3. ss[k] = e /\ IsSeq(e)
    BY <1>1
  <2>4. \A i \in DOMAIN t : IsSeq(t[i])
    <3> TAKE i \in DOMAIN t
    <3>1. i \in 1 .. k - 1 /\ i \in 1 .. n
      BY <1>0, <2>2
    <3>2. t[i] = ss[i]
      BY <3>1 DEF Start
    <3> QED
      BY <1>1, <3>1, <3>2
  <2>5. ContentsOK(prev) /\ P(k) = Append(prev, x) /\ ContentOK(x) /\ k \in DOMAIN items
    BY <1>0, StartContents
  <2>6. e = d
    BY <1>0, EventsAre
  <2>7. x.kind \in Kinds /\ \A q \in DOMAIN x.pieces : x.pieces[q] # NoPiece
    BY <2>5 DEF Spoken
  <2>8. TextTold(format, before, prev) /\ CallsTold("chat", format, before, prev)
    BY <1>4
  <2> HIDE DEF t, x, P, e
  <2>9. FlattenSeq(Append(t, e)) = s \o e /\ IsSeq(s)
    BY <2>2, <2>3, <2>4, FlattenAppend, FlattenShape
  <2>10. WriteAll(format, Fresh, s \o e) = WriteAll(format, WriteAll(format, Fresh, s), e)
    <3> HIDE DEF s
    <3> QED
      BY <2>3, <2>9, WriteAllConcat
  <2>11. after = WriteAll(format, before, d)
    <3>1. after = WriteAll(format, Fresh, FlattenSeq(Append(t, e)))
      BY <2>2, <2>3
    <3>2. before = WriteAll(format, Fresh, s)
      BY DEF t
    <3> HIDE DEF after, before, s, d
    <3> QED
      BY <2>6, <2>9, <2>10, <3>1, <3>2
  <2> HIDE DEF before, after, prev
  <2>12. TextTold(format, after, Append(prev, x)) /\ CallsTold("chat", format, after, Append(prev, x))
    BY <2>5, <2>7, <2>8, <2>11, ItemWritten
  <2> QED
    BY <2>1, <2>5, <2>12 DEF after
<1> HIDE DEF T
<1>5. 0 .. n \subseteq T
  BY <1>0, <1>3, <1>4, UpTo
<1>6. n \in T
  BY <1>0, <1>5
<1>7. Start(ss, n) = ss /\ Start(items, n) = items
  BY <1>0, <1>2, StartIs
<1> QED
  BY <1>6, <1>7 DEF T, ss

LEMMA CallsOfAs ==
  ASSUME NEW format, NEW items, ContentsOK(items)
  PROVE  CallsOf(CallsAs(format, items)) = CallsOf(items)
<1> DEFINE c == CallsAs(format, items)
           calls == OfKind(items, "tool")
<1>1. /\ ContentsOK(c) /\ DOMAIN c = DOMAIN calls
      /\ \A j \in DOMAIN c : c[j].kind = "tool" /\ c[j].name = calls[j].name /\ c[j].pieces = calls[j].pieces
  BY CallsAsShape
<1> HIDE DEF c
<1>2. OfKind(c, "tool") = c
  BY <1>1, OfKindAllOrNone
<1>3. /\ CallsOf(c) = [i \in DOMAIN c |-> [name |-> c[i].name, pieces |-> c[i].pieces]]
      /\ CallsOf(items) = [i \in DOMAIN calls |-> [name |-> calls[i].name, pieces |-> calls[i].pieces]]
  BY <1>2 DEF CallsOf
<1> HIDE DEF calls
<1> QED
  BY <1>1, <1>3 DEF c

\* A stream that told all there was to tell.
ToldOf(format, v, items) ==
  LET h == HeardFrom(format, v.frames) IN
  /\ h.text = PiecesOf(OfKind(items, "text")) /\ h.thinking = PiecesOf(OfKind(items, "thinking")) /\ ~h.astray

\* A writer that knows how its answer ends.
Stopped(w, stop, failed) == [w EXCEPT !.stop = stop, !.failed = failed]

(* A stream that is closed, at whatever stop, told what was written to it. *)
LEMMA ClosedTells ==
  ASSUME NEW as, NEW format \in Formats, NEW w, NEW items, ContentsOK(items), CallsOK(CallsAs(as, items)),
         TextTold(format, w, items), format # "anthropic" => CallsTold(as, format, w, items),
         NEW stop, NEW failed
  PROVE  LET v == Close(format, Stopped(w, stop, failed)) IN
         /\ ToldOf(format, v, items)
         /\ CallsTold(as, format, w, items) => CallsOf(HeardFrom(format, v.frames).calls) = Tellable(format, CallsOf(items))
<1> DEFINE u == Stopped(w, stop, failed)
           text == PiecesOf(OfKind(items, "text"))
           thinking == PiecesOf(OfKind(items, "thinking"))
           calls == CallsAs(as, items)
           h == HeardFrom(format, Close(format, u).frames)
<1>1. WriterOK(w) /\ Plain(format, w, text, thinking) /\ CallsOK(calls)
  BY DEF TextTold
<1>2. CallsTold(as, format, w, items) <=> Tells(format, w, text, calls)
  BY DEF CallsTold
<1>3. CallsOf(calls) = CallsOf(items)
  BY CallsOfAs
<1> HIDE DEF text, thinking, calls
<1>4. /\ u.frames = w.frames /\ u.items = w.items /\ u.open = w.open /\ u.openTool = w.openTool
      /\ DOMAIN u = Writing
  BY <1>1 DEF WriterOK, Writing, Stopped
<1> HIDE DEF u
<1>5. WriterOK(u)
  BY <1>1, <1>4 DEF WriterOK
<1>6. Plain(format, u, text, thinking)
  BY <1>1, <1>4 DEF Plain
<1>7. Tells(format, u, text, calls) <=> Tells(format, w, text, calls)
  BY <1>4 DEF Tells, Blocks
<1>8. format # "anthropic" => Tells(format, u, text, calls)
  BY <1>2, <1>7
<1>9. /\ h.text = text /\ h.thinking = thinking /\ ~h.astray
      /\ Tells(format, u, text, calls) => CallsOf(h.calls) = Tellable(format, CallsOf(calls))
  BY <1>1, <1>5, <1>6, <1>8, CloseTells
<1> HIDE DEF h
<1> QED
  BY <1>2, <1>3, <1>7, <1>9 DEF ToldOf, h, u, text, thinking

LEMMA WholeIsTold ==
  ASSUME NEW format \in Formats, NEW items, Spoken(items), NEW stop, NEW failed
  PROVE  LET v == WriteStream(format, items, stop, failed) IN
         /\ ToldOf(format, v, items)
         /\ CallsOf(HeardFrom(format, v.frames).calls) = Tellable(format, CallsOf(items))
<1> DEFINE w == WriteAll(format, Fresh, FlattenSeq([i \in DOMAIN items |-> EventsOf(items, i)]))
           v == Close(format, Stopped(w, stop, failed))
<1>1. TextTold(format, w, items) /\ CallsTold("chat", format, w, items)
  BY AllWritten
<1>2. WriteStream(format, items, stop, failed) = v
  BY DEF WriteStream, Stopped
<1>3. ContentsOK(items) /\ CallsOK(CallsAs("chat", items))
  BY CallsAsShape DEF Spoken
<1> HIDE DEF w
<1> DEFINE own == "chat"
<1> HIDE DEF own
<1>4. /\ CallsOK(CallsAs(own, items)) /\ TextTold(format, w, items) /\ CallsTold(own, format, w, items)
      /\ ContentsOK(items)
  BY <1>1, <1>3 DEF own
<1>5. LET k == Close(format, Stopped(w, stop, failed)) IN
      /\ ToldOf(format, k, items)
      /\ CallsTold(own, format, w, items) => CallsOf(HeardFrom(format, k.frames).calls) = Tellable(format, CallsOf(items))
  BY <1>4, ClosedTells
<1> QED
  BY <1>2, <1>4, <1>5

-----------------------------------------------------------------------------
(* How calls are numbered, by the upstream and by its decoder.             *)

(* The number a call is told of by: that of its item, or its place.        *)
CallNumber(format, items, i) == IF format = "responses" THEN items[i].name - 1 ELSE Place(items, i) - 1

LEMMA CallNumberIs ==
  ASSUME NEW format, NEW items, ContentsOK(items), NEW i \in DOMAIN items, items[i].kind = "tool"
  PROVE  /\ Place(items, i) \in DOMAIN CallsAs(format, items)
         /\ CallsAs(format, items)[Place(items, i)].tool = CallNumber(format, items, i)
<1> DEFINE piece == NoPiece
           j == Place(items, i)
<1>1. LET c == CallsAs(format, items) IN
      /\ Place(items, i) \in DOMAIN c /\ c[Place(items, i)].name = items[i].name
      /\ c[Place(items, i)].tool = IF format = "responses" THEN items[i].name - 1 ELSE Place(items, i) - 1
      /\ CallsAs(format, Replaced(items, i, With(items[i], piece))) =
           Replaced(c, Place(items, i), With(c[Place(items, i)], piece))
      /\ i = Len(items) => Place(items, i) = Len(c)
  BY CallsAsGoOn
<1> QED
  BY <1>1 DEF CallNumber

(* It is not changed by what comes after it, ...                           *)
LEMMA PlaceKept ==
  ASSUME NEW items, IsSeq(items), NEW i \in DOMAIN items, NEW x
  PROVE  Place(Append(items, x), i) = Place(items, i) /\ Append(items, x)[i] = items[i]
<1> DEFINE more == Append(items, x)
<1>1. DOMAIN items = 1 .. Len(items) /\ Len(items) \in Nat
  BY SeqShape
<1>2. i - 1 \in 0 .. Len(items)
  BY <1>1
<1>3. Start(more, i - 1) = Start(items, i - 1)
  BY <1>2, StartOfAppend
<1>4. more[i] = items[i]
  BY AppendShape
<1> HIDE DEF more
<1> QED
  BY <1>3, <1>4 DEF Place, more

LEMMA CallNumberKept ==
  ASSUME NEW format, NEW items, IsSeq(items), NEW i \in DOMAIN items, NEW x
  PROVE  CallNumber(format, Append(items, x), i) = CallNumber(format, items, i)
<1>1. Place(Append(items, x), i) = Place(items, i) /\ Append(items, x)[i] = items[i]
  BY PlaceKept
<1> QED
  BY <1>1 DEF CallNumber

(* ... nor by what it goes on with; ...                                    *)
LEMMA CallNumberGoesOn ==
  ASSUME NEW format, NEW items, ContentsOK(items), NEW i \in DOMAIN items, NEW piece
  PROVE  /\ CallNumber(format, Replaced(items, i, With(items[i], piece)), i) = CallNumber(format, items, i)
         /\ Replaced(items, i, With(items[i], piece))[i].kind = items[i].kind
<1> DEFINE y == With(items[i], piece)
           changed == Replaced(items, i, y)
<1>1. ContentOK(items[i]) /\ IsSeq(items) /\ DOMAIN items = 1 .. Len(items) /\ Len(items) \in Nat
  BY ContentsAre, SeqShape
<1>2. y.kind = items[i].kind /\ y.name = items[i].name
  BY <1>1, WithIs
<1> HIDE DEF y
<1>3. \A j \in DOMAIN items : changed[j] = IF j = i THEN y ELSE items[j]
  BY <1>1, ReplaceShape
<1> HIDE DEF changed
<1>4. Start(changed, i - 1) = Start(items, i - 1)
  <2>1. \A j \in 1 .. i - 1 : j \in DOMAIN items /\ j # i
    BY <1>1
  <2>2. \A j \in 1 .. i - 1 : changed[j] = items[j]
    BY <1>3, <2>1
  <2> QED
    BY <2>2 DEF Start
<1>5. changed[i].kind = items[i].kind /\ changed[i].name = items[i].name
  BY <1>2, <1>3
<1> QED
  BY <1>4, <1>5 DEF Place, CallNumber, changed, y

(* ... and it is the next number there is.                                 *)
LEMMA CallNumberNew ==
  ASSUME NEW format, NEW items, ContentsOK(items), NEW x, x.kind = "tool"
  PROVE  CallNumber(format, Append(items, x), Len(items) + 1) = NewNumber(format, items, x)
<1> DEFINE more == Append(items, x)
           n == Len(items)
           m == Len(OfKind(items, "tool"))
<1>1. IsSeq(items) /\ n \in Nat
  BY ContentsAre, SeqShape
<1>2. more[n + 1] = x
  BY <1>1, AppendShape
<1>3. Start(more, n) = items
  <2>1. n \in 0 .. n
    BY <1>1
  <2>2. Start(more, n) = Start(items, n) /\ Start(items, n) = items
    BY <1>1, <2>1, StartOfAppend, StartIs
  <2> QED
    BY <2>2
<1>4. m \in Nat
  BY OfKindShape, ContentsAre, SeqShape
<1> HIDE DEF more, m
<1>5. Place(more, n + 1) = m + 1
  <2>1. (n + 1) - 1 = n
    BY <1>1
  <2> QED
    BY <1>2, <1>3, <2>1 DEF Place, m
<1>6. (m + 1) - 1 = m
  BY <1>4
<1> QED
  BY <1>2, <1>5, <1>6 DEF CallNumber, NewNumber, more, m

(* How many calls came before it.                                          *)
LEMMA CallNumberCounts ==
  ASSUME NEW items, ContentsOK(items), NEW i \in DOMAIN items, items[i].kind = "tool"
  PROVE  Cardinality({j \in 1 .. i - 1 : items[j].kind = "tool"}) = Place(items, i) - 1
<1> DEFINE m == Len(OfKind(Start(items, i - 1), "tool"))
<1>1. IsSeq(items) /\ DOMAIN items = 1 .. Len(items) /\ Len(items) \in Nat
  BY ContentsAre, SeqShape
<1>2. i \in 1 .. Len(items) + 1 /\ i - 1 \in 0 .. Len(items)
  BY <1>1
<1>3. Cardinality({j \in 1 .. i - 1 : items[j].kind = "tool"}) = m
  BY <1>2, CallsBefore
<1>4. m \in Nat
  <2>1. ContentsOK(Start(items, i - 1))
    BY <1>2, StartContents
  <2> QED
    BY <2>1, OfKindShape, ContentsAre, SeqShape
<1>5. Place(items, i) = m + 1
  BY DEF Place
<1> HIDE DEF m
<1> QED
  BY <1>3, <1>4, <1>5

-----------------------------------------------------------------------------
(* What an upstream said, each item under a name of its own.               *)
NumbersOK(format, items) ==
  /\ ContentsOK(items) /\ \A i \in DOMAIN items : items[i].name = i /\ items[i].kind \in Kinds
  /\ CallsOK(CallsAs(format, items))
  /\ format = "chat" => \A kind \in {"text", "thinking"} : Len(OfKind(items, kind)) <= 1

SaidItem(items, kind, pieces) == Content(kind, 0, Len(items) + 1, pieces)

LEMMA SaidItemIs ==
  ASSUME NEW items, NEW kind, NEW pieces, IsSeq(pieces)
  PROVE  LET x == SaidItem(items, kind, pieces) IN
         ContentOK(x) /\ x.kind = kind /\ x.name = Len(items) + 1 /\ x.pieces = pieces
BY ContentsAre, ContentIs DEF SaidItem

LEMMA NextNumberApart ==
  ASSUME NEW format, NEW items, NumbersOK(format, items), NEW kind, NEW pieces
  PROVE  \A j \in DOMAIN CallsAs(format, items) :
           CallsAs(format, items)[j].tool # NewNumber(format, items, SaidItem(items, kind, pieces))
<1> DEFINE x == SaidItem(items, kind, pieces)
           c == CallsAs(format, items)
           calls == OfKind(items, "tool")
<1>0. ContentsOK(items)
  BY DEF NumbersOK
<1>1. CASE format # "responses"
  BY <1>0, <1>1, NewNumberApart
<1>2. CASE format = "responses"
  <2>1. IsSeq(items) /\ DOMAIN items = 1 .. Len(items) /\ Len(items) \in Nat
    BY <1>0, ContentsAre, SeqShape
  <2>2. x.name = Len(items) + 1
    BY ContentIs DEF SaidItem
  <2>3. NewNumber(format, items, x) = Len(items)
    BY <1>2, <2>1, <2>2 DEF NewNumber
  <2> DEFINE number == NewNumber(format, items, x)
  <2> HIDE DEF x, number
  <2> TAKE j \in DOMAIN c
  <2>4. DOMAIN c = DOMAIN calls /\ c[j].tool = calls[j].name - 1
    BY <1>0, <1>2, CallsAsShape
  <2>5. PICK i \in DOMAIN items : calls[j] = items[i]
    BY <1>0, <2>4, OfKindMembers
  <2>6. calls[j].name = i
    BY <2>5 DEF NumbersOK
  <2> HIDE DEF c, calls
  <2>7. c[j].tool # Len(items)
    BY <2>1, <2>4, <2>5, <2>6
  <2> QED
    BY <2>3, <2>7 DEF c, x
<1> QED
  BY <1>1, <1>2

LEMMA NumbersBegun ==
  ASSUME NEW format, NEW items, NumbersOK(format, items), NEW kind \in Kinds,
         format = "chat" => kind = "tool" \/ OfKind(items, kind) = <<>>, NEW pieces, IsSeq(pieces)
  PROVE  NumbersOK(format, Append(items, SaidItem(items, kind, pieces)))
<1> DEFINE x == SaidItem(items, kind, pieces)
           more == Append(items, x)
           n == Len(items)
           c == CallsAs(format, items)
           d == CallsAs(format, more)
<1>1. ContentOK(x) /\ x.kind = kind /\ x.name = n + 1 /\ x.pieces = pieces
  BY SaidItemIs
<1>2. \A j \in DOMAIN c : c[j].tool # NewNumber(format, items, x)
  BY NextNumberApart
<1> HIDE DEF x
<1>3. /\ ContentsOK(items) /\ IsSeq(items) /\ DOMAIN items = 1 .. n /\ n \in Nat /\ CallsOK(c)
      /\ \A i \in DOMAIN items : items[i].name = i /\ items[i].kind \in Kinds
  BY ContentsAre, SeqShape DEF NumbersOK
<1>4. ContentsOK(more)
  BY <1>1, <1>3, ContentsAre
<1>5. \A i \in DOMAIN more : more[i].name = i /\ more[i].kind \in Kinds
  <2>1. DOMAIN more = 1 .. n + 1 /\ (\A i \in 1 .. n : more[i] = items[i]) /\ more[n + 1] = x
    BY <1>3, AppendShape
  <2> HIDE DEF more
  <2>2. \A i \in DOMAIN more : i \in 1 .. n \/ i = n + 1
    BY <1>3, <2>1
  <2> QED
    BY <1>1, <1>3, <2>1, <2>2
<1>6. CallsOK(d)
  <2>1. CASE kind # "tool"
    <3>1. d = c
      BY <1>1, <1>3, <2>1, CallsAsSame
    <3> QED
      BY <1>3, <3>1
  <2>2. CASE kind = "tool"
    <3>1. d = Append(c, NewCall(format, items, x))
      BY <1>1, <1>3, <2>2, CallsAsMore
    <3> HIDE DEF c, d, more
    <3>2. CallsOK(Append(c, Content("tool", NewNumber(format, items, x), x.name, x.pieces)))
      BY <1>1, <1>2, <1>3, CallBegun
    <3> QED
      BY <3>1, <3>2 DEF NewCall
  <2> QED
    BY <2>1, <2>2
<1>7. ASSUME format = "chat", NEW k \in {"text", "thinking"} PROVE Len(OfKind(more, k)) <= 1
  <2>1. CASE kind # k
    <3>1. OfKind(more, k) = OfKind(items, k)
      BY <1>1, <1>3, <2>1, ItemBegun
    <3> QED
      BY <1>7, <3>1 DEF NumbersOK
  <2>2. CASE kind = k
    <3>1. OfKind(more, k) = Append(OfKind(items, k), x)
      BY <1>1, <1>3, <2>2, ItemBegun
    <3>2. OfKind(items, k) = <<>>
      BY <1>7, <2>2
    <3>3. Len(Append(OfKind(items, k), x)) = Len(OfKind(items, k)) + 1 /\ Len(OfKind(items, k)) = 0
      BY <3>2, ShortShape, AppendShape
    <3> QED
      BY <3>1, <3>3
  <2> QED
    BY <2>1, <2>2
<1> HIDE DEF more, d, c
<1> QED
  BY <1>4, <1>5, <1>6, <1>7 DEF NumbersOK, d, more, x

LEMMA NumbersGoOn ==
  ASSUME NEW format, NEW items, NumbersOK(format, items), NEW at \in DOMAIN items, NEW piece
  PROVE  NumbersOK(format, Replaced(items, at, With(items[at], piece)))
<1> DEFINE y == With(items[at], piece)
           changed == Replaced(items, at, y)
           c == CallsAs(format, items)
           d == CallsAs(format, changed)
<1>1. /\ ContentsOK(items) /\ IsSeq(items) /\ CallsOK(c)
      /\ \A i \in DOMAIN items : items[i].name = i /\ items[i].kind \in Kinds
  BY ContentsAre DEF NumbersOK
<1>2. ContentOK(items[at])
  BY <1>1, ContentsAre
<1>3. ContentOK(y) /\ y.kind = items[at].kind /\ y.name = items[at].name
  BY <1>2, WithIs
<1>4. CallsOK(d)
  <2>1. CASE items[at].kind = "tool"
    <3> DEFINE j == Place(items, at)
    <3>1. j \in DOMAIN c /\ d = Replaced(c, j, With(c[j], piece))
      BY <1>1, <2>1, CallsAsGoOn
    <3> HIDE DEF c, d, j, changed
    <3>2. CallsOK(Replaced(c, j, With(c[j], piece)))
      BY <1>1, <3>1, CallGoesOn
    <3> QED
      BY <3>1, <3>2
  <2>2. CASE items[at].kind # "tool"
    <3> HIDE DEF y
    <3>1. OfKind(changed, "tool") = OfKind(items, "tool")
      BY <1>1, <1>3, <2>2, ReplaceOfKind
    <3>2. d = c
      <4> HIDE DEF changed
      <4> QED
        BY <3>1 DEF CallsAs
    <3> QED
      BY <1>1, <3>2
  <2> QED
    BY <2>1, <2>2
<1> HIDE DEF y, d
<1>5. ContentsOK(changed)
  BY <1>1, <1>3, ReplaceOfKind
<1>6. \A i \in DOMAIN changed : changed[i].name = i /\ changed[i].kind \in Kinds
  <2>1. DOMAIN changed = DOMAIN items /\ \A i \in DOMAIN items : changed[i] = IF i = at THEN y ELSE items[i]
    BY <1>1, ReplaceShape
  <2> HIDE DEF changed
  <2> QED
    BY <1>1, <1>3, <2>1
<1>7. ASSUME format = "chat", NEW k \in {"text", "thinking"} PROVE Len(OfKind(changed, k)) <= 1
  <2>1. Len(OfKind(changed, k)) = Len(OfKind(items, k))
    <3>1. CASE k # y.kind
      <4>1. OfKind(changed, k) = OfKind(items, k)
        BY <1>1, <1>3, <3>1, ReplaceOfKind
      <4> QED
        BY <4>1
    <3>2. CASE k = y.kind
      <4>1. OfKind(changed, k) = Replaced(OfKind(items, k), Place(items, at), y)
        BY <1>1, <1>3, <3>2, ReplaceOfKind
      <4>2. IsSeq(OfKind(items, k))
        BY <1>1, OfKindShape, ContentsAre
      <4> QED
        BY <4>1, <4>2, ReplaceShape
    <3> QED
      BY <3>1, <3>2
  <2> QED
    BY <1>7, <2>1 DEF NumbersOK
<1> HIDE DEF changed
<1> QED
  BY <1>4, <1>5, <1>6, <1>7 DEF NumbersOK, d, changed, y

(* The calls a decoder has seen are those that were said, in their order.   *)
CallNames(items) ==
  [j \in DOMAIN OfKind(items, "tool") |-> OfKind(items, "tool")[j].name - 1]

LEMMA NamesShape ==
  ASSUME NEW items, ContentsOK(items)
  PROVE  /\ IsSeq(CallNames(items)) /\ Len(CallNames(items)) = Len(OfKind(items, "tool"))
         /\ DOMAIN CallNames(items) = 1 .. Len(OfKind(items, "tool")) /\ Len(OfKind(items, "tool")) \in Nat
         /\ \A j \in DOMAIN CallNames(items) : CallNames(items)[j] = OfKind(items, "tool")[j].name - 1
<1> DEFINE calls == OfKind(items, "tool")
           names == [j \in DOMAIN calls |-> calls[j].name - 1]
<1>1. IsSeq(calls)
  BY OfKindShape, ContentsAre
<1> HIDE DEF calls
<1>2. DOMAIN calls = 1 .. Len(calls) /\ Len(calls) \in Nat
  BY <1>1, SeqShape
<1>3. DOMAIN names = 1 .. Len(calls) /\ names = [j \in 1 .. Len(calls) |-> names[j]]
  BY <1>2
<1>4. \A j \in DOMAIN names : names[j] = calls[j].name - 1
  OBVIOUS
<1>5. CallNames(items) = names
  BY DEF CallNames, calls
<1> HIDE DEF names
<1>6. IsSeq(names) /\ Len(names) = Len(calls)
  BY <1>2, <1>3, SeqShape
<1> QED
  BY <1>2, <1>3, <1>4, <1>5, <1>6 DEF calls

LEMMA NamesBegun ==
  ASSUME NEW items, ContentsOK(items), NEW x, ContentOK(x)
  PROVE  /\ x.kind # "tool" => CallNames(Append(items, x)) = CallNames(items)
         /\ x.kind = "tool" => CallNames(Append(items, x)) = Append(CallNames(items), x.name - 1)
<1> DEFINE calls == OfKind(items, "tool")
           more == Append(items, x)
           kind == "tool"
<1>0. ContentsOK(more)
  BY ContentsAre
<1> HIDE DEF kind
<1>1. CASE x.kind # kind
  <2>1. OfKind(more, kind) = OfKind(items, kind)
    BY <1>1, ItemBegun
  <2> QED
    BY <1>1, <2>1 DEF CallNames, kind
<1>2. CASE x.kind = kind
  <2>1. OfKind(more, kind) = Append(OfKind(items, kind), x)
    BY <1>2, ItemBegun
  <2> USE DEF kind
  <2> HIDE DEF more
  <2>2. IsSeq(calls)
    BY OfKindShape, ContentsAre
  <2> DEFINE s == CallNames(items)
             t == CallNames(more)
             u == OfKind(more, "tool")
  <2>3. IsSeq(s) /\ DOMAIN s = 1 .. Len(calls) /\ Len(s) = Len(calls) /\ Len(calls) \in Nat
    BY NamesShape
  <2>4. \A j \in DOMAIN s : s[j] = calls[j].name - 1
    BY NamesShape
  <2>5. IsSeq(t) /\ Len(t) = Len(u) /\ DOMAIN t = 1 .. Len(u)
    BY <1>0, NamesShape
  <2>6. \A j \in DOMAIN t : t[j] = u[j].name - 1
    BY <1>0, NamesShape
  <2>7. u = Append(calls, x)
    BY <2>1
  <2> HIDE DEF s, t, u, calls
  <2>8. Len(u) = Len(calls) + 1 /\ (\A j \in 1 .. Len(calls) : u[j] = calls[j]) /\ u[Len(calls) + 1] = x
    BY <2>2, <2>7, AppendShape
  <2> DEFINE v == Append(s, x.name - 1)
             n == Len(calls)
  <2>9. IsSeq(v) /\ Len(v) = n + 1 /\ (\A j \in 1 .. n : v[j] = s[j]) /\ v[n + 1] = x.name - 1
    BY <2>3, AppendShape
  <2> HIDE DEF v
  <2>10. \A j \in DOMAIN t : t[j] = v[j]
    <3> TAKE j \in DOMAIN t
    <3>1. j \in 1 .. n \/ j = n + 1
      BY <2>3, <2>5, <2>8
    <3>2. CASE j \in 1 .. n
      BY <2>3, <2>4, <2>6, <2>8, <2>9, <3>2
    <3>3. CASE j = n + 1
      BY <2>6, <2>8, <2>9, <3>3
    <3> QED
      BY <3>1, <3>2, <3>3
  <2>11. t = v
    BY <2>5, <2>8, <2>9, <2>10, SameSeq
  <2> QED
    BY <1>2, <2>11 DEF t, v, s, more
<1> QED
  BY <1>1, <1>2 DEF kind

LEMMA NamesGoOn ==
  ASSUME NEW items, ContentsOK(items), NEW at \in DOMAIN items, NEW piece
  PROVE  CallNames(Replaced(items, at, With(items[at], piece))) = CallNames(items)
<1> DEFINE y == With(items[at], piece)
           changed == Replaced(items, at, y)
           calls == OfKind(items, "tool")
           u == OfKind(changed, "tool")
           p == Place(items, at)
<1>1. ContentOK(items[at])
  BY ContentsAre
<1>2. ContentOK(y) /\ y.kind = items[at].kind /\ y.name = items[at].name
  BY <1>1, WithIs
<1> HIDE DEF y
<1>3. CASE y.kind # "tool"
  <2>1. OfKind(changed, "tool") = OfKind(items, "tool")
    BY <1>2, <1>3, ReplaceOfKind
  <2> HIDE DEF changed
  <2> QED
    BY <2>1 DEF CallNames, changed, y
<1>4. CASE y.kind = "tool"
  <2>1. p \in DOMAIN calls /\ calls[p] = items[at] /\ u = Replaced(calls, p, y)
    <3> DEFINE kind == "tool"
    <3> HIDE DEF kind
    <3>1. kind = y.kind
      BY <1>4 DEF kind
    <3>2. /\ Place(items, at) \in DOMAIN OfKind(items, kind)
          /\ OfKind(items, kind)[Place(items, at)] = items[at]
          /\ OfKind(Replaced(items, at, y), kind) = Replaced(OfKind(items, kind), Place(items, at), y)
      BY <1>2, <3>1, ReplaceOfKind
    <3> QED
      BY <3>2 DEF kind
  <2>2. IsSeq(calls)
    BY OfKindShape, ContentsAre
  <2> HIDE DEF calls, u, p
  <2>3. DOMAIN u = DOMAIN calls /\ \A i \in DOMAIN calls : u[i] = IF i = p THEN y ELSE calls[i]
    BY <2>1, <2>2, ReplaceShape
  <2>4. \A i \in DOMAIN calls : u[i].name = calls[i].name
    BY <1>2, <2>1, <2>3
  <2>5. [j \in DOMAIN u |-> u[j].name - 1] = [j \in DOMAIN calls |-> calls[j].name - 1]
    BY <2>3, <2>4
  <2> QED
    BY <2>5 DEF CallNames, u, calls, changed, y
<1> QED
  BY <1>3, <1>4

(* Whether a call was seen is whether it was said.                          *)
LEMMA NamesHold ==
  ASSUME NEW format, NEW items, NumbersOK(format, items), NEW i \in DOMAIN items, items[i].kind = "tool"
  PROVE  /\ Place(items, i) \in DOMAIN CallNames(items) /\ CallNames(items)[Place(items, i)] = i - 1
         /\ Contains(CallNames(items), i - 1)
<1> DEFINE p == Place(items, i)
           calls == OfKind(items, "tool")
           names == CallNames(items)
<1>1. ContentsOK(items) /\ items[i].name = i
  BY DEF NumbersOK
<1>2. ContentOK(items[i])
  BY <1>1, ContentsAre
<1>3. p \in DOMAIN calls /\ calls[p] = items[i]
  BY <1>1, <1>2, ReplaceOfKind
<1>4. IsSeq(calls) /\ DOMAIN calls = 1 .. Len(calls)
  BY <1>1, OfKindShape, ContentsAre, SeqShape
<1>5. DOMAIN names = 1 .. Len(calls) /\ Len(names) = Len(calls) /\ \A j \in DOMAIN names : names[j] = calls[j].name - 1
  BY <1>1, NamesShape
<1> HIDE DEF p, calls, names
<1>6. p \in DOMAIN names /\ names[p] = i - 1
  BY <1>1, <1>3, <1>4, <1>5
<1>7. \E k \in 1 .. Len(names) : names[k] = i - 1
  BY <1>5, <1>6
<1>8. Contains(names, i - 1)
  BY <1>7 DEF Contains
<1> QED
  BY <1>6, <1>8 DEF p, names

LEMMA NextUnheld ==
  ASSUME NEW format, NEW items, NumbersOK(format, items)
  PROVE  ~ Contains(CallNames(items), Len(items))
<1> DEFINE calls == OfKind(items, "tool")
           names == CallNames(items)
<1>1. ContentsOK(items) /\ \A i \in DOMAIN items : items[i].name = i
  BY DEF NumbersOK
<1>2. DOMAIN items = 1 .. Len(items) /\ Len(items) \in Nat
  BY <1>1, ContentsAre, SeqShape
<1>3. IsSeq(calls) /\ DOMAIN calls = 1 .. Len(calls)
  BY <1>1, OfKindShape, ContentsAre, SeqShape
<1>4. DOMAIN names = 1 .. Len(calls) /\ Len(names) = Len(calls) /\ \A j \in DOMAIN names : names[j] = calls[j].name - 1
  BY <1>1, NamesShape
<1>5. \A j \in DOMAIN calls : \E i \in DOMAIN items : calls[j] = items[i]
  BY <1>1, OfKindMembers
<1> HIDE DEF calls, names
<1>6. ASSUME NEW k \in 1 .. Len(names) PROVE names[k] # Len(items)
  <2>1. k \in DOMAIN calls /\ names[k] = calls[k].name - 1
    BY <1>3, <1>4, <1>6
  <2>2. PICK i \in DOMAIN items : calls[k] = items[i]
    BY <1>5, <2>1
  <2>3. calls[k].name = i
    BY <1>1, <2>2
  <2>4. i - 1 # Len(items)
    BY <1>2, <2>2
  <2> QED
    BY <2>1, <2>3, <2>4
<1>7. ~ Contains(names, Len(items))
  BY <1>6 DEF Contains
<1> QED
  BY <1>7 DEF names

-----------------------------------------------------------------------------
(* What a decoder makes of the four frames of an upstream.                  *)
LEMMA OpenDecoded ==
  ASSUME NEW as, NEW d, NEW at, NEW kind, NEW name
  PROVE  LET f == Frame("open", at, kind, name, NoPiece) IN
         /\ kind # "tool" => DecodeFrame(as, d, f) = <<>> /\ Decoded(as, d, f) = d
         /\ kind = "tool" =>
              DecodeFrame(as, d, f) = <<Event("tool", IF as = "anthropic" THEN Len(d.tools) ELSE at, name, NoPiece)>>
         /\ kind = "tool" /\ ~ Contains(d.tools, at) => Decoded(as, d, f).tools = Append(d.tools, at)
<1> DEFINE f == Frame("open", at, kind, name, NoPiece)
<1>1. f.type = "open" /\ f.at = at /\ f.kind = kind /\ f.name = name /\ f.piece = NoPiece
  BY FrameIs
<1> HIDE DEF f
<1>2. /\ kind # "tool" => DecodeFrame(as, d, f) = <<>>
      /\ kind = "tool" => DecodeFrame(as, d, f) = <<ToolEvent(IF as = "anthropic" THEN Len(d.tools) ELSE at, name, NoPiece)>>
  <2>1. CASE kind = "tool"
    BY <1>1, <2>1 DEF DecodeFrame
  <2>2. CASE kind # "tool"
    BY <1>1, <2>2 DEF DecodeFrame
  <2> QED
    BY <2>1, <2>2
<1>3. /\ kind # "tool" => Decoded(as, d, f) = d
      /\ kind = "tool" /\ ~ Contains(d.tools, at) => Decoded(as, d, f).tools = Append(d.tools, at)
  BY <1>1 DEF Decoded
<1> QED
  BY <1>2, <1>3 DEF f, ToolEvent

LEMMA WholeDecoded ==
  ASSUME NEW as, NEW d, NEW at, NEW name, NEW piece
  PROVE  LET f == Frame("whole", at, "tool", name, piece) IN
         /\ Contains(d.tools, at) => DecodeFrame(as, d, f) = <<>> /\ Decoded(as, d, f) = d
         /\ ~ Contains(d.tools, at) =>
              DecodeFrame(as, d, f) = <<Event("tool", at, name, piece)>> /\ Decoded(as, d, f).tools = Append(d.tools, at)
<1> DEFINE f == Frame("whole", at, "tool", name, piece)
<1>1. f.type = "whole" /\ f.at = at /\ f.kind = "tool" /\ f.name = name /\ f.piece = piece
  BY FrameIs
<1> HIDE DEF f
<1>2. /\ Contains(d.tools, at) => DecodeFrame(as, d, f) = <<>>
      /\ ~ Contains(d.tools, at) => DecodeFrame(as, d, f) = <<ToolEvent(at, name, piece)>>
  BY <1>1 DEF DecodeFrame
<1>3. /\ Contains(d.tools, at) => Decoded(as, d, f) = d
      /\ ~ Contains(d.tools, at) => Decoded(as, d, f).tools = Append(d.tools, at)
  BY <1>1 DEF Decoded
<1> QED
  BY <1>2, <1>3 DEF f, ToolEvent

LEMMA PieceDecoded ==
  ASSUME NEW as, NEW d, NEW at, NEW kind, NEW piece
  PROVE  LET f == Frame("piece", at, kind, Unnamed, piece) IN
         /\ Decoded(as, d, f) = d
         /\ DecodeFrame(as, d, f) = <<Event(kind, IF kind = "tool" THEN ToolOf(as, d, at) ELSE 0, Unnamed, piece)>>
<1> DEFINE f == Frame("piece", at, kind, Unnamed, piece)
<1>1. f.type = "piece" /\ f.at = at /\ f.kind = kind /\ f.name = Unnamed /\ f.piece = piece
  BY FrameIs
<1> HIDE DEF f
<1>2. CASE kind = "tool"
  <2>1. DecodeFrame(as, d, f) = <<ToolEvent(ToolOf(as, d, at), Unnamed, piece)>>
    BY <1>1, <1>2 DEF DecodeFrame
  <2> QED
    BY <1>1, <1>2, <2>1 DEF f, ToolEvent, Decoded
<1>3. CASE kind # "tool"
  <2>1. DecodeFrame(as, d, f) = <<Event(kind, 0, Unnamed, piece)>>
    BY <1>1, <1>3 DEF DecodeFrame
  <2> QED
    BY <1>1, <1>3, <2>1 DEF f, Decoded
<1> QED
  BY <1>2, <1>3

(* An Anthropic block is found again under the number of its call.          *)
LEMMA BlockFound ==
  ASSUME NEW d, IsSeq(d.tools), IsInjective(d.tools), NEW p \in DOMAIN d.tools
  PROVE  ToolOf("anthropic", d, d.tools[p]) = p - 1
<1> DEFINE tools == d.tools
           at == tools[p]
           k == SelectInSeq(tools, LAMBDA block : block = at)
           I == {i \in 1 .. Len(tools) : tools[i] = at}
<1>1. DOMAIN tools = 1 .. Len(tools) /\ Len(tools) \in Nat
  BY SeqShape
<1>2. \A i, j \in DOMAIN tools : tools[i] = tools[j] => i = j
  BY DEF IsInjective
<1>3. I = {p}
  BY <1>1, <1>2
<1>4. k = IF I # {} THEN Min(I) ELSE 0
  BY DEF SelectInSeq
<1> HIDE DEF k, I
<1>5. p \in Nat \ {0}
  BY <1>1
<1>6. Min({p}) = p
  BY <1>5 DEF Min
<1>7. k = p
  BY <1>3, <1>4, <1>6
<1>8. ToolOf("anthropic", d, at) = IF k = 0 THEN 0 ELSE k - 1
  BY DEF ToolOf, k
<1> QED
  BY <1>5, <1>7, <1>8

-----------------------------------------------------------------------------
(* What is kept while the upstream goes on.                                *)

(* What a client has been told of what was said so far: all of it, but for *)
(* the calls of an Anthropic stream once one of them went on after         *)
(* something else; the call that was last told of is the block that is     *)
(* open.                                                                   *)
Current(as, w, items, last) ==
  last # 0 /\ items[last].kind = "tool" => w.open = "tool" /\ w.openTool = CallNumber(as, items, last)
Telling(as, format, w, items, last, across) ==
  /\ TextTold(format, w, items)
  /\ ~ (format = "anthropic" /\ across) => CallsTold(as, format, w, items)
  /\ format = "anthropic" => Current(as, w, items, last)

Collecting(as, got, items) ==
  /\ ContentsOK(got)
  /\ \A kind \in {"text", "thinking"} : PiecesOf(OfKind(got, kind)) = PiecesOf(OfKind(items, kind))
  /\ OfKind(got, "tool") = CallsAs(as, items)

LEMMA TellingStays ==
  ASSUME NEW as, NEW format, NEW w, NEW items, IsSeq(items), NEW last \in 0 .. Len(items), NEW across,
         Telling(as, format, w, items, last, across), NEW x, SameTold(as, items, Append(items, x))
  PROVE  Telling(as, format, w, Append(items, x), last, across)
<1> DEFINE more == Append(items, x)
<1>1. /\ TextTold(format, w, items) => TextTold(format, w, more)
      /\ CallsTold(as, format, w, items) => CallsTold(as, format, w, more)
  BY StayTold
<1>2. Current(as, w, items, last) => Current(as, w, more, last)
  <2>1. CASE last = 0
    BY <2>1 DEF Current
  <2>2. CASE last # 0
    <3>1. DOMAIN items = 1 .. Len(items) /\ Len(items) \in Nat
      BY SeqShape
    <3>2. last \in DOMAIN items
      BY <2>2, <3>1
    <3>3. more[last] = items[last]
      BY <3>2, AppendShape
    <3>4. CallNumber(as, more, last) = CallNumber(as, items, last)
      BY <3>2, CallNumberKept
    <3> HIDE DEF more
    <3> QED
      BY <3>3, <3>4 DEF Current
  <2> QED
    BY <2>1, <2>2
<1> HIDE DEF more
<1> QED
  BY <1>1, <1>2 DEF Telling, more

OpenFor(format, v, e) ==
  format = "anthropic" => v.open = e.kind /\ (e.kind = "tool" => v.openTool = e.tool)

LEMMA StepOpens ==
  ASSUME NEW as, NEW format \in Formats, NEW w, NEW items, TextTold(format, w, items),
         CallsOK(CallsAs(as, items)), format # "anthropic" => CallsTold(as, format, w, items),
         NEW changed, NEW e, Follows(as, items, changed, e)
  PROVE  OpenFor(format, WriteEvent(format, w, e), e)
<1> DEFINE text == PiecesOf(OfKind(items, "text"))
           thinking == PiecesOf(OfKind(items, "thinking"))
           calls == CallsAs(as, items)
           v == WriteEvent(format, w, e)
<1>1. Proper(calls, e)
  BY DEF Follows
<1>2. /\ WriterOK(w) /\ Plain(format, w, text, thinking)
      /\ CallsOK(calls) /\ (format # "anthropic" => Tells(format, w, text, calls))
  BY DEF TextTold, CallsTold
<1> HIDE DEF text, thinking, calls
<1>3. format = "anthropic" => v.open = e.kind /\ (e.kind = "tool" => v.openTool = e.tool)
  BY <1>1, <1>2, EventTells
<1> HIDE DEF v
<1> QED
  BY <1>3 DEF OpenFor, v

LEMMA TellingGoesOn ==
  ASSUME NEW as, NEW format \in Formats, NEW w, NEW items, NEW last, NEW across \in BOOLEAN,
         Telling(as, format, w, items, last, across), CallsOK(CallsAs(as, items)),
         NEW changed, NEW e, Follows(as, items, changed, e), NEW next, NEW over \in BOOLEAN,
         ~ over => ~ across,
         format = "anthropic" /\ ~ over => ~ Untold(format, w, CallsAs(as, items), e),
         next # 0 /\ changed[next].kind = "tool" => e.kind = "tool" /\ e.tool = CallNumber(as, changed, next)
  PROVE  Telling(as, format, WriteEvent(format, w, e), changed, next, over)
<1> DEFINE v == WriteEvent(format, w, e)
<1>1. TextTold(format, w, items) /\ (format # "anthropic" => CallsTold(as, format, w, items))
  BY DEF Telling
<1>2. /\ TextTold(format, v, changed)
      /\ CallsTold(as, format, w, items) /\ ~ Untold(format, w, CallsAs(as, items), e) =>
           CallsTold(as, format, v, changed)
      /\ format = "anthropic" => v.open = e.kind /\ (e.kind = "tool" => v.openTool = e.tool)
  <2>1. TextTold(format, v, changed)
    <3>1. CASE format = "anthropic"
      BY <1>1, <3>1, StepTold
    <3>2. CASE format # "anthropic"
      BY <1>1, <3>2, StepTold
    <3> QED
      BY <3>1, <3>2
  <2>2. CallsTold(as, format, w, items) /\ ~ Untold(format, w, CallsAs(as, items), e) =>
          CallsTold(as, format, v, changed)
    BY <1>1, StepTold
  <2>3. format = "anthropic" => v.open = e.kind /\ (e.kind = "tool" => v.openTool = e.tool)
    <3>1. OpenFor(format, v, e)
      BY <1>1, StepOpens
    <3> HIDE DEF v
    <3> QED
      BY <3>1 DEF OpenFor
  <2> QED
    BY <2>1, <2>2, <2>3
<1>3. format # "anthropic" => ~ Untold(format, w, CallsAs(as, items), e)
  BY DEF Untold
<1> HIDE DEF v
<1>4. ~ (format = "anthropic" /\ over) => CallsTold(as, format, v, changed)
  BY <1>2, <1>3 DEF Telling
<1>5. format = "anthropic" => Current(as, v, changed, next)
  BY <1>2 DEF Current
<1> QED
  BY <1>2, <1>4, <1>5 DEF Telling, v

LEMMA CollectingStays ==
  ASSUME NEW as, NEW got, NEW items, Collecting(as, got, items), NEW changed, SameTold(as, items, changed)
  PROVE  Collecting(as, got, changed)
BY DEF Collecting, SameTold

LEMMA CollectingGoesOn ==
  ASSUME NEW as, NEW got, NEW items, Collecting(as, got, items), CallsOK(CallsAs(as, items)),
         NEW changed, NEW e, Follows(as, items, changed, e)
  PROVE  Collecting(as, Collect(got, e), changed)
<1> DEFINE c == Collect(got, e)
           calls == OfKind(got, "tool")
<1>1. ContentsOK(got) /\ calls = CallsAs(as, items)
  BY DEF Collecting
<1>2. CallsOK(calls) /\ Proper(calls, e)
  BY <1>1 DEF Follows
<1>3. /\ ContentsOK(c)
      /\ OfKind(c, "tool") = IF e.kind = "tool" THEN CollectTool(calls, e) ELSE calls
      /\ \A kind \in {"text", "thinking"} :
           PiecesOf(OfKind(c, kind)) = IF kind = e.kind THEN Append(PiecesOf(OfKind(got, kind)), e.piece)
                                       ELSE PiecesOf(OfKind(got, kind))
  BY <1>1, <1>2, CollectKinds
<1> HIDE DEF c, calls
<1>4. OfKind(c, "tool") = CallsAs(as, changed)
  BY <1>1, <1>3 DEF Follows, CallsAfter
<1>5. ASSUME NEW kind \in {"text", "thinking"}
      PROVE  PiecesOf(OfKind(c, kind)) = PiecesOf(OfKind(changed, kind))
  <2>1. PiecesOf(OfKind(got, kind)) = PiecesOf(OfKind(items, kind))
    BY DEF Collecting
  <2>2. PiecesOf(OfKind(changed, kind)) = PiecesAfter(kind, PiecesOf(OfKind(items, kind)), e)
    BY DEF Follows
  <2> QED
    BY <1>3, <2>1, <2>2 DEF PiecesAfter
<1> QED
  BY <1>3, <1>4, <1>5 DEF Collecting, c

LEMMA NothingCollected ==
  ASSUME NEW as
  PROVE  Collecting(as, <<>>, <<>>) /\ NumbersOK(as, <<>>) /\ CallNames(<<>>) = <<>>
<1>1. ContentsOK(<<>>) /\ OfKind(<<>>, "tool") = <<>> /\ CallsAs(as, <<>>) = <<>> /\ CallsOK(<<>>)
  BY ContentsAre, OfKindAppend, NothingTold DEF Formats, Upstreams
<1>2. \A kind : OfKind(<<>>, kind) = <<>>
  BY OfKindAppend
<1>3. Len(<<>>) = 0 /\ DOMAIN <<>> = {}
  BY ShortShape
<1>4. CallNames(<<>>) = <<>>
  <2>1. IsSeq(CallNames(<<>>)) /\ Len(CallNames(<<>>)) = Len(OfKind(<<>>, "tool"))
    BY <1>1, NamesShape
  <2> QED
    BY <1>1, <1>3, <2>1, EmptyIs
<1> DEFINE z == <<>>
<1>5. Collecting(as, z, z)
  <2>1. ContentsOK(z) /\ (\A kind : OfKind(z, kind) = z) /\ CallsAs(as, z) = z
    BY <1>1, <1>2
  <2> HIDE DEF z
  <2> QED
    BY <2>1 DEF Collecting
<1>6. NumbersOK(as, z)
  <2>1. ContentsOK(z) /\ DOMAIN z = {} /\ CallsOK(CallsAs(as, z)) /\ \A kind : Len(OfKind(z, kind)) = 0
    BY <1>1, <1>2, <1>3
  <2> HIDE DEF z
  <2>2. \A kind : Len(OfKind(z, kind)) <= 1
    BY <2>1
  <2>3. \A i \in DOMAIN z : z[i].name = i /\ z[i].kind \in Kinds
    BY <2>1
  <2> QED
    BY <2>1, <2>2, <2>3 DEF NumbersOK
<1> QED
  BY <1>4, <1>5, <1>6

-----------------------------------------------------------------------------
(* What every state knows while the upstream goes on.                      *)
Numbered ==
  /\ NumbersOK(from, said)
  /\ streamed /\ from # "chat" => decoder.tools = CallNames(said)
Collected == streamed /\ asked = "body" => Collecting(from, contents, said)
Relaying == IF Relayed THEN Telling(from, to, writer, said, latest, crossed) ELSE writer = Fresh
Under == Numbered /\ Collected /\ Relaying

(* The events of a frame, none or one, go to the writer or the Collector.  *)
LEMMA RelayedNone ==
  ASSUME Shaped, NEW frame, Relay(frame), streamed => DecodeFrame(from, decoder, frame) = <<>>
  PROVE  writer' = writer /\ contents' = contents /\ decoder' = IF streamed THEN Decoded(from, decoder, frame) ELSE decoder
<1> DEFINE events == DecodeFrame(from, decoder, frame)
<1>1. CASE ~ streamed
  BY <1>1 DEF Relay
<1>2. CASE streamed
  <2>1. WriteAll(to, writer, <<>>) = writer
    BY ShortShape, WriteAllAppend
  <2>2. CollectAll(contents, <<>>) = contents
    BY CollectAllAppend
  <2>3. FoldLeft(Collect, contents, <<>>) = contents
    BY <2>2 DEF CollectAll
  <2> QED
    BY <1>2, <2>1, <2>3 DEF Relay
<1> QED
  BY <1>1, <1>2

LEMMA OneWritten ==
  ASSUME NEW format, NEW w, NEW e
  PROVE  WriteAll(format, w, <<e>>) = WriteEvent(format, w, e)
<1> DEFINE z == <<>>
<1>1. IsSeq(z) /\ Append(z, e) = <<e>>
  BY ShortShape
<1> HIDE DEF z
<1>2. WriteAll(format, w, Append(z, e)) = WriteEvent(format, WriteAll(format, w, z), e)
  <2>1. IsSeq(z)
    BY <1>1
  <2> QED
    BY <2>1, WriteAllAppend
<1>3. WriteAll(format, w, z) = w
  BY ShortShape, WriteAllAppend DEF z
<1> QED
  BY <1>1, <1>2, <1>3

LEMMA RelayedOne ==
  ASSUME Shaped, NEW frame, Relay(frame), NEW e, streamed => DecodeFrame(from, decoder, frame) = <<e>>
  PROVE  /\ decoder' = IF streamed THEN Decoded(from, decoder, frame) ELSE decoder
         /\ writer' = IF Relayed THEN WriteEvent(to, writer, e) ELSE writer
         /\ streamed /\ asked = "body" => contents' = Collect(contents, e)
<1>0. asked \in {"stream", "body"}
  BY DEF Shaped, AnswerTypeOK
<1>1. CASE ~ streamed
  BY <1>1 DEF Relay, Relayed
<1>2. CASE streamed
  <2>3. WriteAll(to, writer, <<e>>) = WriteEvent(to, writer, e)
    BY OneWritten
  <2>4. CollectAll(contents, <<e>>) = Collect(contents, e)
    BY CollectAllAppend
  <2>5. FoldLeft(Collect, contents, <<e>>) = Collect(contents, e)
    BY <2>4 DEF CollectAll
  <2> QED
    BY <1>0, <1>2, <2>3, <2>5 DEF Relay, Relayed
<1> QED
  BY <1>1, <1>2

(* A frame that comes to nothing, and one that comes to an event.          *)
LEMMA KeptSilent ==
  ASSUME Shaped, Under, NEW frame, Relay(frame), streamed => DecodeFrame(from, decoder, frame) = <<>>,
         NEW x, said' = Append(said, x), SameTold(from, said, Append(said, x)),
         latest' = latest, UNCHANGED <<way, crossed>>
  PROVE  Collected' /\ Relaying'
<1>1. writer' = writer /\ contents' = contents
  BY RelayedNone
<1>2. IsSeq(said) /\ latest \in 0 .. Len(said)
  BY ContentsAre DEF Shaped, AnswerTypeOK
<1>3. from' = from /\ to' = to /\ streamed' = streamed /\ asked' = asked
  BY DEF way
<1> DEFINE more == Append(said, x)
<1>4. Collected'
  <2>1. Collecting(from, contents, said) => Collecting(from, contents, more)
    BY CollectingStays
  <2> HIDE DEF more
  <2>2. said' = more
    BY DEF more
  <2> QED
    BY <1>1, <1>3, <2>1, <2>2 DEF Collected, Under
<1>5. Relaying'
  <2>1. Telling(from, to, writer, said, latest, crossed) => Telling(from, to, writer, more, latest, crossed)
    BY <1>2, TellingStays
  <2> HIDE DEF more
  <2>2. said' = more
    BY DEF more
  <2> QED
    BY <1>1, <1>3, <2>1, <2>2 DEF Relaying, Relayed, Under
<1> QED
  BY <1>4, <1>5

LEMMA KeptTold ==
  ASSUME Shaped, Under, NEW frame, Relay(frame),
         NEW e, streamed => DecodeFrame(from, decoder, frame) = <<e>>,
         Follows(from, said, said', e), crossed' \in BOOLEAN, ~ crossed' => ~ crossed,
         Relayed /\ to = "anthropic" /\ ~ crossed' => ~ Untold(to, writer, CallsAs(from, said), e),
         latest' # 0 /\ said'[latest'].kind = "tool" => e.kind = "tool" /\ e.tool = CallNumber(from, said', latest'),
         UNCHANGED way
  PROVE  Collected' /\ Relaying'
<1>1. /\ writer' = IF Relayed THEN WriteEvent(to, writer, e) ELSE writer
      /\ streamed /\ asked = "body" => contents' = Collect(contents, e)
  BY RelayedOne
<1>2. CallsOK(CallsAs(from, said)) /\ crossed \in BOOLEAN /\ to \in Formats
  BY DEF Under, Numbered, NumbersOK, Shaped, AnswerTypeOK
<1>3. from' = from /\ to' = to /\ streamed' = streamed /\ asked' = asked
  BY DEF way
<1> DEFINE more == said'
           next == latest'
           over == crossed'
<1>4. Collected'
  <2>1. Collecting(from, contents, said) => Collecting(from, Collect(contents, e), more)
    BY <1>2, CollectingGoesOn
  <2> HIDE DEF more
  <2>2. said' = more
    BY DEF more
  <2> QED
    BY <1>1, <1>3, <2>1, <2>2 DEF Collected, Under
<1>5. Relaying'
  <2>1. CASE Relayed
    <3> HIDE DEF more, next, over
    <3>1. Telling(from, to, writer, said, latest, crossed)
      BY <2>1 DEF Relaying, Under
    <3>2. /\ Follows(from, said, more, e) /\ over \in BOOLEAN /\ (~ over => ~ crossed)
          /\ to = "anthropic" /\ ~ over => ~ Untold(to, writer, CallsAs(from, said), e)
          /\ next # 0 /\ more[next].kind = "tool" => e.kind = "tool" /\ e.tool = CallNumber(from, more, next)
      BY <2>1 DEF more, next, over
    <3>3. Telling(from, to, WriteEvent(to, writer, e), more, next, over)
      BY <1>2, <3>1, <3>2, TellingGoesOn
    <3> QED
      BY <1>1, <1>3, <2>1, <3>3 DEF Relaying, Relayed, more, next, over
  <2>2. CASE ~ Relayed
    BY <1>1, <1>3, <2>2 DEF Relaying, Relayed, Under
  <2> QED
    BY <2>1, <2>2
<1> QED
  BY <1>4, <1>5

-----------------------------------------------------------------------------
(* Every step of the upstream keeps it.                                    *)

LEMMA SaidIs ==
  ASSUME Shaped, Numbered
  PROVE  /\ ContentsOK(said) /\ IsSeq(said) /\ DOMAIN said = 1 .. Len(said) /\ Len(said) \in Nat
         /\ NumbersOK(from, said) /\ CallsOK(CallsAs(from, said)) /\ crossed \in BOOLEAN
         /\ NextPiece # NoPiece
<1>1. ContentsOK(said) /\ NumbersOK(from, said) /\ crossed \in BOOLEAN
  BY DEF Shaped, AnswerTypeOK, Numbered
<1>2. IsSeq(said) /\ DOMAIN said = 1 .. Len(said) /\ Len(said) \in Nat
  BY <1>1, ContentsAre, SeqShape
<1>3. CallsOK(CallsAs(from, said))
  BY <1>1 DEF NumbersOK
<1>4. Len(PiecesOf(said)) \in Nat
  BY <1>1, PiecesCounted
<1>5. NextPiece # NoPiece
  BY <1>4 DEF NextPiece, Pieces, NoPiece
<1> QED
  BY <1>1, <1>2, <1>3, <1>5

(* An upstream and the gateway mean the same number by a new call.         *)
LEMMA NumberNew ==
  ASSUME Shaped, Numbered, NEW x, ContentOK(x), x.name = Len(said) + 1
  PROVE  /\ from # "chat" => NumberOf(Append(said, x), Len(said) + 1) = Len(said)
         /\ streamed => (IF from = "anthropic" THEN Len(decoder.tools)
                         ELSE NumberOf(Append(said, x), Len(said) + 1)) = NewNumber(from, said, x)
<1> DEFINE n == Len(said)
           more == Append(said, x)
           at == NumberOf(more, n + 1)
           calls == OfKind(said, "tool")
<1>1. ContentsOK(said) /\ IsSeq(said) /\ DOMAIN said = 1 .. n /\ n \in Nat
  BY SaidIs
<1>2. (n + 1) - 1 = n /\ x.name - 1 = n
  BY <1>1
<1>3. NewNumber(from, said, x) = IF from = "responses" THEN n ELSE Len(calls)
  BY <1>2 DEF NewNumber
<1>4. from # "chat" => at = n
  BY <1>2 DEF NumberOf
<1>5. CASE from = "responses"
  BY <1>3, <1>4, <1>5
<1>6. CASE from = "anthropic"
  <2>1. streamed => Len(decoder.tools) = Len(CallNames(said))
    BY <1>6 DEF Numbered
  <2>2. Len(CallNames(said)) = Len(calls)
    BY <1>1, NamesShape
  <2> HIDE DEF at, calls, more
  <2> QED
    BY <1>3, <1>4, <1>6, <2>1, <2>2 DEF at, more
<1>7. CASE from = "chat"
  <2>1. ContentsOK(more) /\ Len(more) = n + 1
    BY <1>1, ContentsAre, AppendShape
  <2>2. n + 1 \in 1 .. Len(more) + 1 /\ n \in 0 .. n
    BY <1>1, <2>1
  <2>3. Start(more, n) = said
    <3>1. Start(more, n) = Start(said, n)
      BY <1>1, <2>2, StartOfAppend
    <3>2. Start(said, n) = said
      BY <1>1, StartIs
    <3> QED
      BY <3>1, <3>2
  <2> HIDE DEF more
  <2>4. Cardinality({j \in 1 .. (n + 1) - 1 : more[j].kind = "tool"}) = Len(OfKind(Start(more, (n + 1) - 1), "tool"))
    BY <2>1, <2>2, CallsBefore
  <2>5. at = Cardinality({j \in 1 .. (n + 1) - 1 : more[j].kind = "tool"})
    BY <1>7 DEF NumberOf
  <2>6. at = Len(calls)
    BY <1>2, <2>3, <2>4, <2>5
  <2> HIDE DEF at, calls
  <2> QED
    BY <1>3, <1>7, <2>6 DEF at, more
<1>8. from \in {"chat", "anthropic", "responses"}
  BY DEF Shaped, AnswerTypeOK, Upstreams
<1> QED
  BY <1>5, <1>6, <1>7, <1>8

(* A call is begun, with a piece or without.                               *)
LEMMA ToolBegins ==
  ASSUME Shaped, Under, NEW piece, NEW pieces, pieces = WithPiece(<<>>, piece), NEW frame, Relay(frame),
         streamed => DecodeFrame(from, decoder, frame) =
           <<Event("tool", NewNumber(from, said, SaidItem(said, "tool", pieces)), Len(said) + 1, piece)>>,
         streamed /\ from # "chat" => Decoded(from, decoder, frame).tools = Append(decoder.tools, Len(said)),
         said' = Append(said, SaidItem(said, "tool", pieces)), latest' = Len(said) + 1,
         UNCHANGED <<way, crossed>>
  PROVE  Under'
<1> DEFINE x == SaidItem(said, "tool", pieces)
           n == Len(said)
           number == NewNumber(from, said, x)
           e == Event("tool", number, n + 1, piece)
           c == CallsAs(from, said)
           more == Append(said, x)
<1>1. /\ ContentsOK(said) /\ IsSeq(said) /\ DOMAIN said = 1 .. n /\ n \in Nat
      /\ NumbersOK(from, said) /\ CallsOK(c) /\ crossed \in BOOLEAN
  BY SaidIs DEF Under
<1>2. IsSeq(pieces)
  BY FirstPiece
<1>3. ContentOK(x) /\ x.kind = "tool" /\ x.name = n + 1 /\ x.pieces = WithPiece(<<>>, piece)
  <2>1. ContentOK(x) /\ x.kind = "tool" /\ x.name = n + 1 /\ x.pieces = pieces
    BY <1>2, SaidItemIs
  <2> QED
    BY <2>1
<1>4. \A j \in DOMAIN c : c[j].tool # number
  BY <1>1, NextNumberApart
<1>5. NumbersOK(from, more)
  <2> DEFINE kind == "tool"
  <2> HIDE DEF kind
  <2>1. kind \in Kinds /\ (from = "chat" => kind = "tool" \/ OfKind(said, kind) = <<>>)
    BY DEF kind, Kinds
  <2>2. NumbersOK(from, Append(said, SaidItem(said, kind, pieces)))
    BY <1>1, <1>2, <2>1, NumbersBegun
  <2> QED
    BY <2>2 DEF kind
<1>6. more[n + 1] = x
  BY <1>1, AppendShape
<1>7. CallNumber(from, more, n + 1) = number
  BY <1>1, <1>3, CallNumberNew
<1>8. CallNames(more) = Append(CallNames(said), n)
  <2>1. CallNames(more) = Append(CallNames(said), x.name - 1)
    BY <1>1, <1>3, NamesBegun
  <2>2. x.name - 1 = n
    BY <1>1, <1>3
  <2> QED
    BY <2>1, <2>2
<1>9. Follows(from, said, more, e)
  <2>1. Follows(from, said, more, Event("tool", number, x.name, piece))
    <3> HIDE DEF x
    <3> QED
      BY <1>1, <1>3, <1>4, FollowsBegun
  <2> QED
    BY <1>3, <2>1
<1>10. e.kind = "tool" /\ e.tool = number
  BY EventIs
<1>11. streamed => DecodeFrame(from, decoder, frame) = <<e>>
  OBVIOUS
<1>12. said' = more /\ latest' = n + 1
  OBVIOUS
<1> HIDE DEF x, e, c, number, more
<1>13. ~ Untold(to, writer, c, e)
  BY <1>4, <1>10 DEF Untold
<1>14. Collected' /\ Relaying'
  <2>1. Follows(from, said, said', e)
    BY <1>9, <1>12
  <2>2. crossed' \in BOOLEAN /\ (~ crossed' => ~ crossed)
    BY <1>1
  <2>3. e.kind = "tool" /\ e.tool = CallNumber(from, said', latest')
    BY <1>7, <1>10, <1>12
  <2>4. ~ Untold(to, writer, CallsAs(from, said), e)
    BY <1>13 DEF c
  <2>5. UNCHANGED way
    OBVIOUS
  <2> QED
    BY <1>11, <2>1, <2>2, <2>3, <2>4, <2>5, KeptTold
<1>15. Numbered'
  <2>1. from' = from /\ streamed' = streamed
    BY DEF way
  <2>2. streamed => decoder' = Decoded(from, decoder, frame)
    BY <1>11, RelayedOne
  <2>3. streamed /\ from # "chat" => decoder.tools = CallNames(said)
    BY DEF Under, Numbered
  <2>4. streamed /\ from # "chat" => decoder'.tools = CallNames(more)
    BY <1>8, <2>2, <2>3
  <2> QED
    BY <1>5, <1>12, <2>1, <2>4 DEF Numbered
<1> QED
  BY <1>14, <1>15 DEF Under

LEMMA BeginsTells ==
  ASSUME Shaped, Under, NEW kind \in Kinds, Begins(kind)
  PROVE  Under'
<1> DEFINE n == Len(said)
           z == <<>>
           x == SaidItem(said, kind, z)
           more == Append(said, x)
           at == NumberOf(more, n + 1)
           frame == Frame("open", at, kind, n + 1, NoPiece)
<1>1. /\ ContentsOK(said) /\ IsSeq(said) /\ DOMAIN said = 1 .. n /\ n \in Nat
      /\ NumbersOK(from, said)
  BY SaidIs DEF Under
<1>2. Len(more) = n + 1
  BY <1>1, AppendShape
<1>3. /\ said' = more /\ latest' = (IF kind = "tool" THEN n + 1 ELSE latest)
      /\ Relay(frame) /\ UNCHANGED <<way, crossed>>
  BY <1>2 DEF Begins, SaidItem
<1>4. from = "chat" => kind = "tool" \/ OfKind(said, kind) = <<>>
  BY DEF Begins
<1>5. IsSeq(z)
  BY ShortShape
<1>6. ContentOK(x) /\ x.kind = kind /\ x.name = n + 1 /\ x.pieces = z
  <2> HIDE DEF z
  <2> QED
    BY <1>5, SaidItemIs
<1>7. /\ kind # "tool" => DecodeFrame(from, decoder, frame) = <<>> /\ Decoded(from, decoder, frame) = decoder
      /\ kind = "tool" =>
           DecodeFrame(from, decoder, frame) =
             <<Event("tool", IF from = "anthropic" THEN Len(decoder.tools) ELSE at, n + 1, NoPiece)>>
      /\ kind = "tool" /\ ~ Contains(decoder.tools, at) => Decoded(from, decoder, frame).tools = Append(decoder.tools, at)
  BY OpenDecoded
<1> HIDE DEF frame
<1>8. CASE kind # "tool"
  <2>1. SameTold(from, said, more)
    <3> HIDE DEF x
    <3> QED
      BY <1>1, <1>6, <1>8, NothingBegun
  <2>2. NumbersOK(from, more)
    <3> HIDE DEF z
    <3> QED
      BY <1>1, <1>4, <1>5, NumbersBegun
  <2>3. CallNames(more) = CallNames(said)
    <3> HIDE DEF x
    <3> QED
      BY <1>1, <1>6, <1>8, NamesBegun
  <2> HIDE DEF x
  <2>4. Collected' /\ Relaying'
    <3>1. streamed => DecodeFrame(from, decoder, frame) = <<>>
      BY <1>7, <1>8
    <3>2. said' = Append(said, x) /\ SameTold(from, said, Append(said, x)) /\ latest' = latest
      BY <1>3, <1>8, <2>1
    <3> QED
      BY <1>3, <3>1, <3>2, KeptSilent
  <2> HIDE DEF more
  <2>5. Numbered'
    <3>1. from' = from /\ streamed' = streamed
      BY <1>3 DEF way
    <3>2. decoder' = decoder
      BY <1>3, <1>7, <1>8, RelayedNone
    <3> QED
      BY <1>3, <2>2, <2>3, <3>1, <3>2 DEF Numbered, Under
  <2> QED
    BY <2>4, <2>5 DEF Under
<1>9. CASE kind = "tool"
  <2>1. /\ from # "chat" => at = n
        /\ streamed => (IF from = "anthropic" THEN Len(decoder.tools) ELSE at) = NewNumber(from, said, x)
    <3> HIDE DEF x
    <3> QED
      BY <1>6, NumberNew DEF Under
  <2> DEFINE number == NewNumber(from, said, x)
             piece == NoPiece
  <2>2. streamed => DecodeFrame(from, decoder, frame) = <<Event("tool", number, n + 1, NoPiece)>>
    <3> HIDE DEF number, at
    <3> QED
      BY <1>7, <1>9, <2>1 DEF number
  <2>3. streamed /\ from # "chat" => Decoded(from, decoder, frame).tools = Append(decoder.tools, n)
    <3>1. ~ Contains(CallNames(said), n)
      BY <1>1, NextUnheld
    <3>2. streamed /\ from # "chat" => decoder.tools = CallNames(said)
      BY DEF Under, Numbered
    <3> HIDE DEF at
    <3> QED
      BY <1>7, <1>9, <2>1, <3>1, <3>2
  <2>4. z = WithPiece(<<>>, piece)
    BY FirstPiece
  <2>5. /\ said' = Append(said, SaidItem(said, "tool", z)) /\ latest' = n + 1
        /\ streamed => DecodeFrame(from, decoder, frame) =
             <<Event("tool", NewNumber(from, said, SaidItem(said, "tool", z)), n + 1, piece)>>
    BY <1>3, <1>9, <2>2
  <2> HIDE DEF z, piece
  <2> QED
    BY <1>3, <2>3, <2>4, <2>5, ToolBegins
<1> QED
  BY <1>8, <1>9

LEMMA SaysWholeTells ==
  ASSUME Shaped, Under, SaysWhole
  PROVE  Under'
<1> DEFINE n == Len(said)
           piece == NextPiece
           pieces == <<piece>>
           x == SaidItem(said, "tool", pieces)
           more == Append(said, x)
           at == NumberOf(more, n + 1)
           frame == Frame("whole", at, "tool", n + 1, piece)
<1>1. /\ ContentsOK(said) /\ IsSeq(said) /\ DOMAIN said = 1 .. n /\ n \in Nat
      /\ NumbersOK(from, said) /\ piece # NoPiece
  BY SaidIs DEF Under
<1>2. Len(more) = n + 1
  BY <1>1, AppendShape
<1>3. /\ said' = more /\ latest' = n + 1
      /\ Relay(frame) /\ UNCHANGED <<way, crossed>> /\ from = "responses"
  BY <1>2 DEF SaysWhole, SaidItem
<1>4. pieces = WithPiece(<<>>, piece) /\ IsSeq(pieces)
  BY <1>1, FirstPiece, ShortShape
<1>5. ContentOK(x) /\ x.name = n + 1
  <2> HIDE DEF pieces
  <2> QED
    BY <1>4, SaidItemIs
<1>6. at = n
  <2> HIDE DEF x
  <2> QED
    BY <1>3, <1>5, NumberNew DEF Under
<1>7. NewNumber(from, said, x) = n
  BY <1>1, <1>3, <1>5 DEF NewNumber
<1>8. streamed => ~ Contains(decoder.tools, at)
  <2>1. ~ Contains(CallNames(said), n)
    BY <1>1, NextUnheld
  <2>2. streamed => decoder.tools = CallNames(said)
    BY <1>3 DEF Under, Numbered
  <2> HIDE DEF at
  <2> QED
    BY <1>6, <2>1, <2>2
<1> HIDE DEF at
<1>9. ~ Contains(decoder.tools, at) =>
        DecodeFrame(from, decoder, frame) = <<Event("tool", at, n + 1, piece)>>
        /\ Decoded(from, decoder, frame).tools = Append(decoder.tools, at)
  <2> HIDE DEF piece
  <2> QED
    BY WholeDecoded
<1> HIDE DEF frame, piece, pieces
<1>10. /\ streamed => DecodeFrame(from, decoder, frame) =
            <<Event("tool", NewNumber(from, said, SaidItem(said, "tool", pieces)), n + 1, piece)>>
       /\ streamed /\ from # "chat" => Decoded(from, decoder, frame).tools = Append(decoder.tools, n)
  BY <1>6, <1>7, <1>8, <1>9
<1> QED
  BY <1>3, <1>4, <1>10, ToolBegins

LEMMA FinishesTells ==
  ASSUME Shaped, Under, NEW i \in DOMAIN said, Finishes(i)
  PROVE  Under'
<1> DEFINE at == NumberOf(said, i)
           frame == Frame("whole", at, "tool", said[i].name, Last(said[i].pieces))
<1>1. /\ from = "responses" /\ said[i].kind = "tool" /\ Relay(frame)
      /\ UNCHANGED <<way, said, latest, crossed, ended, body>>
  BY DEF Finishes
<1>2. at = i - 1
  BY <1>1 DEF NumberOf
<1>3. streamed => Contains(decoder.tools, at)
  <2>1. NumbersOK(from, said)
    BY DEF Under, Numbered
  <2>2. Contains(CallNames(said), i - 1)
    BY <1>1, <2>1, NamesHold
  <2>3. streamed => decoder.tools = CallNames(said)
    BY <1>1 DEF Under, Numbered
  <2> QED
    BY <1>2, <2>2, <2>3
<1>4. streamed => DecodeFrame(from, decoder, frame) = <<>> /\ Decoded(from, decoder, frame) = decoder
  <2> HIDE DEF at
  <2> QED
    BY <1>3, WholeDecoded
<1> HIDE DEF frame
<1>5. writer' = writer /\ contents' = contents /\ decoder' = decoder
  BY <1>1, <1>4, RelayedNone
<1> QED
  BY <1>1, <1>5 DEF Under, Numbered, Collected, Relaying, Relayed, way

(* A piece of a call is told under the number of the call.                 *)
LEMMA NumberOld ==
  ASSUME Shaped, Numbered, streamed, NEW i \in DOMAIN said, said[i].kind = "tool"
  PROVE  ToolOf(from, decoder, NumberOf(said, i)) = CallNumber(from, said, i)
<1>1. NumbersOK(from, said) /\ ContentsOK(said) /\ said[i].name = i
  BY SaidIs DEF NumbersOK
<1>2. CASE from = "chat"
  <2>1. Cardinality({j \in 1 .. i - 1 : said[j].kind = "tool"}) = Place(said, i) - 1
    BY <1>1, CallNumberCounts
  <2>2. NumberOf(said, i) = Place(said, i) - 1
    BY <1>2, <2>1 DEF NumberOf
  <2> QED
    BY <1>2, <2>2 DEF ToolOf, CallNumber
<1>3. CASE from = "responses"
  <2>1. NumberOf(said, i) = i - 1
    BY <1>3 DEF NumberOf
  <2> QED
    BY <1>1, <1>3, <2>1 DEF ToolOf, CallNumber
<1>4. CASE from = "anthropic"
  <2>1. NumberOf(said, i) = i - 1
    BY <1>4 DEF NumberOf
  <2>2. decoder.tools = CallNames(said)
    BY <1>4 DEF Numbered
  <2>3. Place(said, i) \in DOMAIN CallNames(said) /\ CallNames(said)[Place(said, i)] = i - 1
    BY <1>1, NamesHold
  <2>4. IsSeq(decoder.tools) /\ IsInjective(decoder.tools)
    BY DEF Shaped, AnswerTypeOK
  <2> DEFINE p == Place(said, i)
  <2> HIDE DEF p
  <2>5. p \in DOMAIN decoder.tools /\ decoder.tools[p] = NumberOf(said, i)
    BY <2>1, <2>2, <2>3 DEF p
  <2>6. ToolOf("anthropic", decoder, decoder.tools[p]) = p - 1
    BY <2>4, <2>5, BlockFound
  <2>7. CallNumber(from, said, i) = p - 1
    BY <1>4 DEF CallNumber, p
  <2> QED
    BY <1>4, <2>5, <2>6, <2>7
<1>5. from \in {"chat", "anthropic", "responses"}
  BY DEF Shaped, AnswerTypeOK, Upstreams
<1> QED
  BY <1>2, <1>3, <1>4, <1>5

LEMMA SaysTells ==
  ASSUME Shaped, Under, NEW i \in DOMAIN said, Says(i)
  PROVE  Under'
<1> DEFINE piece == NextPiece
           kind == said[i].kind
           at == NumberOf(said, i)
           frame == Frame("piece", at, kind, Unnamed, piece)
           tool == IF kind = "tool" THEN ToolOf(from, decoder, at) ELSE 0
           e == Event(kind, tool, Unnamed, piece)
           changed == Replaced(said, i, With(said[i], piece))
           c == CallsAs(from, said)
<1>1. /\ ContentsOK(said) /\ IsSeq(said) /\ DOMAIN said = 1 .. Len(said) /\ Len(said) \in Nat
      /\ NumbersOK(from, said) /\ CallsOK(c) /\ crossed \in BOOLEAN /\ piece # NoPiece
  BY SaidIs DEF Under
<1>2. kind \in Kinds
  BY <1>1 DEF NumbersOK
<1>3. said' = changed
  BY DEF Says, Replaced, With
<1>4. /\ latest' = i /\ crossed' = (crossed \/ (kind = "tool" /\ latest # i)) /\ Relay(frame)
      /\ UNCHANGED way
  BY DEF Says
<1>5. kind # "tool" => i = Len(said) \/ Len(OfKind(said, kind)) <= 1
  <2>1. from = "chat" \/ i = Len(said) \/ kind = "tool"
    BY DEF Says
  <2>2. from = "chat" /\ kind # "tool" => Len(OfKind(said, kind)) <= 1
    BY <1>1, <1>2 DEF NumbersOK, Kinds
  <2> QED
    BY <2>1, <2>2
<1>6. streamed /\ kind = "tool" => tool = CallNumber(from, said, i)
  BY NumberOld DEF Under
<1>7. kind = "tool" => CallNumber(from, said, i) = c[Place(said, i)].tool
  BY <1>1, CallNumberIs
<1>8. /\ CallNumber(from, changed, i) = CallNumber(from, said, i)
      /\ changed[i].kind = kind
  <2> HIDE DEF piece
  <2> QED
    BY <1>1, CallNumberGoesOn
<1>9. streamed => Follows(from, said, changed, e)
  <2>1. SUFFICES ASSUME streamed PROVE Follows(from, said, changed, e)
    OBVIOUS
  <2> HIDE DEF tool, piece
  <2>2. kind = "tool" => tool = c[Place(said, i)].tool
    BY <1>6, <1>7, <2>1
  <2> QED
    BY <1>1, <1>2, <1>5, <2>2, FollowsPiece
<1>10. Decoded(from, decoder, frame) = decoder /\ DecodeFrame(from, decoder, frame) = <<e>>
  <2> HIDE DEF piece, at
  <2> QED
    BY PieceDecoded
<1>11. e.kind = kind /\ e.tool = tool
  BY EventIs
<1>12. NumbersOK(from, changed) /\ CallNames(changed) = CallNames(said)
  <2> HIDE DEF piece
  <2>1. NumbersOK(from, changed)
    BY <1>1, NumbersGoOn
  <2>2. CallNames(changed) = CallNames(said)
    BY <1>1, NamesGoOn
  <2> QED
    BY <2>1, <2>2
<1> HIDE DEF frame, e, changed, c, tool, piece, at
<1>13. Numbered'
  <2>1. from' = from /\ streamed' = streamed
    BY <1>4 DEF way
  <2>2. decoder' = decoder
    BY <1>4, <1>10, RelayedOne
  <2> QED
    BY <1>3, <1>12, <2>1, <2>2 DEF Numbered, Under
<1>14. Relayed /\ to = "anthropic" /\ ~ crossed' => ~ Untold(to, writer, c, e)
  <2>1. SUFFICES ASSUME Relayed, to = "anthropic", ~ crossed', kind = "tool"
                 PROVE  writer.open = "tool" /\ writer.openTool = e.tool
    BY <1>11 DEF Untold
  <2>2. latest = i /\ i # 0
    <3>1. i # 0
      BY <1>1
    <3>2. ~ (crossed \/ (kind = "tool" /\ latest # i))
      BY <1>4, <2>1
    <3>3. latest = i
      BY <2>1, <3>2
    <3> QED
      BY <3>1, <3>3
  <2>3. Current(from, writer, said, latest)
    BY <2>1 DEF Under, Relaying, Telling
  <2>4. streamed
    BY <2>1 DEF Relayed
  <2> QED
    BY <1>6, <1>11, <2>1, <2>2, <2>3, <2>4 DEF Current
<1>15. CASE streamed
  <2>1. Follows(from, said, said', e)
    BY <1>3, <1>9, <1>15
  <2>2. crossed' \in BOOLEAN /\ (~ crossed' => ~ crossed)
    BY <1>1, <1>4
  <2>3. latest' # 0 /\ said'[latest'].kind = "tool" => e.kind = "tool" /\ e.tool = CallNumber(from, said', latest')
    BY <1>3, <1>4, <1>6, <1>8, <1>11, <1>15
  <2>4. Relayed /\ to = "anthropic" /\ ~ crossed' => ~ Untold(to, writer, CallsAs(from, said), e)
    BY <1>14 DEF c
  <2>5. Collected' /\ Relaying'
    BY <1>4, <1>10, <2>1, <2>2, <2>3, <2>4, KeptTold
  <2> QED
    BY <1>13, <2>5 DEF Under
<1>16. CASE ~ streamed
  <2>1. writer' = writer /\ contents' = contents
    BY <1>4, <1>16, RelayedNone
  <2>2. streamed' = streamed /\ asked' = asked
    BY <1>4 DEF way
  <2>3. Collected' /\ Relaying'
    BY <1>16, <2>1, <2>2 DEF Collected, Relaying, Relayed, Under
  <2> QED
    BY <1>13, <2>3 DEF Under
<1> QED
  BY <1>15, <1>16

-----------------------------------------------------------------------------
(* What it comes to when the upstream ends.                                *)

(* A body read item by item has what was said, whichever order it has it   *)
(* in.                                                                     *)
LEMMA OfKindTwice ==
  ASSUME NEW items, ContentsOK(items), NEW a, NEW kind
  PROVE  OfKind(OfKind(items, a), kind) = IF a = kind THEN OfKind(items, a) ELSE <<>>
<1> DEFINE s == OfKind(items, a)
<1>1. ContentsOK(s)
  BY OfKindShape
<1>2. \A p \in DOMAIN s : s[p].kind = a
  BY OfKindMembers
<1> HIDE DEF s
<1>3. CASE a = kind
  BY <1>1, <1>2, <1>3, OfKindAllOrNone DEF s
<1>4. CASE a # kind
  BY <1>1, <1>2, <1>4, OfKindAllOrNone DEF s
<1> QED
  BY <1>3, <1>4

LEMMA SpokenOfKind ==
  ASSUME NEW items, Spoken(items), NEW a
  PROVE  Spoken(OfKind(items, a))
<1> DEFINE s == OfKind(items, a)
<1>1. ContentsOK(items)
  BY DEF Spoken
<1>2. ContentsOK(s)
  BY <1>1, OfKindShape
<1>3. \A p \in DOMAIN s : \E i \in DOMAIN items : s[p] = items[i]
  BY <1>1, OfKindMembers
<1> HIDE DEF s
<1> QED
  BY <1>2, <1>3 DEF Spoken, s

LEMMA SpokenConcat ==
  ASSUME NEW s, Spoken(s), NEW t, Spoken(t)
  PROVE  Spoken(s \o t)
<1> DEFINE u == s \o t
<1>1. ContentsOK(s) /\ ContentsOK(t) /\ IsSeq(s) /\ IsSeq(t)
  BY ContentsAre DEF Spoken
<1>2. ContentsOK(u)
  BY <1>1, ContentsConcat
<1>3. \A i \in DOMAIN u : \/ i \in DOMAIN s /\ u[i] = s[i]
                          \/ i - Len(s) \in DOMAIN t /\ u[i] = t[i - Len(s)]
  BY <1>1, ConcatShape
<1> HIDE DEF u
<1>4. ASSUME NEW i \in DOMAIN u
      PROVE  u[i].kind \in Kinds /\ \A q \in DOMAIN u[i].pieces : u[i].pieces[q] # NoPiece
  <2>1. CASE i \in DOMAIN s /\ u[i] = s[i]
    BY <2>1 DEF Spoken
  <2>2. CASE i - Len(s) \in DOMAIN t /\ u[i] = t[i - Len(s)]
    <3> DEFINE j == i - Len(s)
    <3> HIDE DEF j
    <3>1. j \in DOMAIN t /\ u[i] = t[j]
      BY <2>2 DEF j
    <3> QED
      BY <3>1 DEF Spoken
  <2> QED
    BY <1>3, <2>1, <2>2
<1> QED
  BY <1>2, <1>4 DEF Spoken, u

LEMMA SaidSpoken ==
  ASSUME Shaped
  PROVE  Spoken(said) /\ Spoken(DecodeResponse)
<1>1. Spoken(said)
  <2>1. ContentsOK(said)
    BY DEF Shaped
  <2>2. ASSUME NEW i \in DOMAIN said
        PROVE  said[i].kind \in Kinds /\ \A q \in DOMAIN said[i].pieces : said[i].pieces[q] # NoPiece
    <3>1. said[i].kind \in Kinds /\ Range(said[i].pieces) \subseteq 1 .. MaxPieces
      BY DEF Shaped, AnswerTypeOK
    <3>2. \A q \in DOMAIN said[i].pieces : said[i].pieces[q] \in 1 .. MaxPieces
      BY <3>1 DEF Range
    <3> QED
      BY <3>1, <3>2, TranslationAssumption DEF NoPiece
  <2> QED
    BY <2>1, <2>2 DEF Spoken
<1>2. Spoken(OfKind(said, "thinking")) /\ Spoken(OfKind(said, "text")) /\ Spoken(OfKind(said, "tool"))
  BY <1>1, SpokenOfKind
<1>3. Spoken(OfKind(said, "thinking") \o OfKind(said, "text"))
  BY <1>2, SpokenConcat
<1>4. Spoken((OfKind(said, "thinking") \o OfKind(said, "text")) \o OfKind(said, "tool"))
  BY <1>2, <1>3, SpokenConcat
<1> QED
  BY <1>1, <1>4 DEF DecodeResponse

LEMMA DecodedKinds ==
  ASSUME Shaped, NEW kind \in Kinds
  PROVE  OfKind(DecodeResponse, kind) = OfKind(said, kind)
<1>1. ContentsOK(said)
  BY DEF Shaped
<1> DEFINE a == OfKind(said, "thinking")
           b == OfKind(said, "text")
           c == OfKind(said, "tool")
<1>2. ContentsOK(a) /\ ContentsOK(b) /\ ContentsOK(c)
  BY <1>1, OfKindShape
<1>3. /\ OfKind(a, kind) = IF "thinking" = kind THEN a ELSE <<>>
      /\ OfKind(b, kind) = IF "text" = kind THEN b ELSE <<>>
      /\ OfKind(c, kind) = IF "tool" = kind THEN c ELSE <<>>
  BY <1>1, OfKindTwice
<1>4. CASE from # "chat"
  BY <1>4 DEF DecodeResponse
<1>5. CASE from = "chat"
  <2>1. DecodeResponse = (a \o b) \o c
    BY <1>5 DEF DecodeResponse
  <2> HIDE DEF a, b, c
  <2>2. ContentsOK(a \o b)
    BY <1>2, ContentsConcat
  <2> DEFINE ab == a \o b
  <2>3. OfKind(ab, kind) = OfKind(a, kind) \o OfKind(b, kind)
    BY <1>2, OfKindConcat
  <2> HIDE DEF ab
  <2>4. OfKind(ab \o c, kind) = OfKind(ab, kind) \o OfKind(c, kind)
    <3>1. ContentsOK(ab)
      BY <2>2 DEF ab
    <3> QED
      BY <1>2, <3>1, OfKindConcat
  <2>5. OfKind(DecodeResponse, kind) = (OfKind(a, kind) \o OfKind(b, kind)) \o OfKind(c, kind)
    BY <2>1, <2>3, <2>4 DEF ab
  <2>6. IsSeq(a) /\ IsSeq(b) /\ IsSeq(c) /\ IsSeq(<<>>)
    BY <1>2, ContentsAre, ShortShape
  <2>7. \A s : IsSeq(s) => (s \o <<>>) \o <<>> = s /\ (<<>> \o s) \o <<>> = s /\ (<<>> \o <<>>) \o s = s
    <3> TAKE s
    <3> HAVE IsSeq(s)
    <3>1. s \o <<>> = s /\ <<>> \o s = s
      BY ConcatIs
    <3>2. <<>> \o <<>> = <<>>
      BY <2>6, ConcatIs
    <3> QED
      BY <3>1, <3>2
  <2>8. CASE kind = "thinking"
    <3>1. OfKind(DecodeResponse, kind) = (a \o <<>>) \o <<>>
      BY <1>3, <2>5, <2>8
    <3> QED
      BY <2>6, <2>7, <2>8, <3>1 DEF a
  <2>9. CASE kind = "text"
    <3>1. OfKind(DecodeResponse, kind) = (<<>> \o b) \o <<>>
      BY <1>3, <2>5, <2>9
    <3> QED
      BY <2>6, <2>7, <2>9, <3>1 DEF b
  <2>10. CASE kind = "tool"
    <3>1. OfKind(DecodeResponse, kind) = (<<>> \o <<>>) \o c
      BY <1>3, <2>5, <2>10
    <3> QED
      BY <2>6, <2>7, <2>10, <3>1 DEF c
  <2> QED
    BY <2>8, <2>9, <2>10 DEF Kinds
<1> QED
  BY <1>4, <1>5

(* What the client gets in one piece, read so or collected, is what was    *)
(* said.                                                                   *)
SaidIn(whole) ==
  /\ ContentsOK(whole)
  /\ \A kind \in {"text", "thinking"} : PiecesOf(OfKind(whole, kind)) = PiecesOf(OfKind(said, kind))
  /\ CallsOf(whole) = CallsOf(said)

LEMMA SaidInBody ==
  ASSUME Shaped
  PROVE  SaidIn(DecodeResponse)
<1>1. ContentsOK(DecodeResponse)
  BY DecodedShape
<1>2. \A kind \in Kinds : OfKind(DecodeResponse, kind) = OfKind(said, kind)
  BY DecodedKinds
<1>3. OfKind(DecodeResponse, "tool") = OfKind(said, "tool")
  BY <1>2 DEF Kinds
<1> DEFINE whole == DecodeResponse
<1> HIDE DEF whole
<1>4. CallsOf(whole) = CallsOf(said)
  BY <1>3 DEF CallsOf, whole
<1> QED
  BY <1>1, <1>2, <1>4 DEF SaidIn, Kinds, whole

LEMMA SaidInContents ==
  ASSUME Shaped, Under, streamed, asked = "body"
  PROVE  SaidIn(contents)
<1> DEFINE c == CallsAs(from, said)
<1>1. /\ ContentsOK(contents) /\ OfKind(contents, "tool") = c
      /\ \A kind \in {"text", "thinking"} : PiecesOf(OfKind(contents, kind)) = PiecesOf(OfKind(said, kind))
  BY DEF Under, Collected, Collecting
<1>2. CallsOK(c) /\ ContentsOK(said)
  BY SaidIs DEF Under
<1>3. CallsOf(c) = CallsOf(said)
  BY <1>2, CallsOfAs
<1> HIDE DEF c
<1>4. OfKind(c, "tool") = c
  BY <1>2, OfKindAllOrNone DEF CallsOK
<1>5. CallsOf(contents) = CallsOf(c)
  BY <1>1, <1>4 DEF CallsOf
<1> QED
  BY <1>1, <1>3, <1>5 DEF SaidIn

LEMMA AnswerIs ==
  ASSUME NEW text, NEW thinking, NEW calls, NEW ending
  PROVE  LET a == Answer(text, thinking, calls, ending) IN
         a.text = text /\ a.thinking = thinking /\ a.calls = calls /\ a.ending = ending
BY DEF Answer

LEMMA BodyTold ==
  ASSUME NEW whole, SaidIn(whole), NEW format, NEW stop, NEW failed
  PROVE  LET b == EncodeResponse(format, whole, stop, failed)
             thoughts == PiecesOf(OfKind(said, "thinking")) IN
         /\ b.text = PiecesOf(OfKind(said, "text")) /\ b.calls = Tellable(format, CallsOf(said))
         /\ format = "anthropic" => Range(b.thinking) = Range(thoughts)
         /\ format \notin {"anthropic", "responses"} => b.thinking = thoughts
<1> DEFINE b == EncodeResponse(format, whole, stop, failed)
           thoughts == PiecesOf(OfKind(said, "thinking"))
           own == OfKind(whole, "thinking")
<1>1. /\ b.text = PiecesOf(OfKind(whole, "text")) /\ b.thinking = ThoughtsOf(format, whole)
      /\ b.calls = Tellable(format, CallsOf(whole))
  BY AnswerIs DEF EncodeResponse
<1>2. /\ PiecesOf(OfKind(whole, "text")) = PiecesOf(OfKind(said, "text"))
      /\ PiecesOf(own) = thoughts /\ CallsOf(whole) = CallsOf(said) /\ ContentsOK(own)
  BY OfKindShape DEF SaidIn
<1>3. Range(PiecesOf(Reverse(own))) = Range(PiecesOf(own))
  BY <1>2, ReversedPieces
<1>4. ThoughtsOf(format, whole) = CASE format = "anthropic" -> PiecesOf(Reverse(own))
                                    [] format = "responses" -> <<>>
                                    [] OTHER                -> PiecesOf(own)
  BY DEF ThoughtsOf
<1> HIDE DEF b, thoughts, own
<1>5. format = "anthropic" => ThoughtsOf(format, whole) = PiecesOf(Reverse(own))
  BY <1>4
<1>6. format \notin {"anthropic", "responses"} => ThoughtsOf(format, whole) = PiecesOf(own)
  BY <1>4
<1> QED
  BY <1>1, <1>2, <1>3, <1>5, <1>6 DEF b, thoughts

(* A stream the gateway ends tells what was said: the one it wrote as it   *)
(* came, but for the calls it took up again, and the one it makes of a     *)
(* body.                                                                   *)
LEMMA RelayedEndTells ==
  ASSUME Shaped, Under, Relayed, NEW stop, NEW failed
  PROVE  LET v == Close(to, Stopped(writer, stop, failed)) IN
         /\ ToldOf(to, v, said)
         /\ (to = "anthropic" /\ crossed) \/ CallsOf(HeardFrom(to, v.frames).calls) = Tellable(to, CallsOf(said))
<1> DEFINE v == Close(to, Stopped(writer, stop, failed))
<1>1. ContentsOK(said) /\ CallsOK(CallsAs(from, said)) /\ to \in Formats
  BY SaidIs DEF Under, Shaped, AnswerTypeOK
<1>2. Telling(from, to, writer, said, latest, crossed)
  BY DEF Under, Relaying
<1>3. /\ TextTold(to, writer, said) /\ (to # "anthropic" => CallsTold(from, to, writer, said))
      /\ ~ (to = "anthropic" /\ crossed) => CallsTold(from, to, writer, said)
  BY <1>2 DEF Telling
<1>4. ToldOf(to, v, said)
  BY <1>1, <1>3, ClosedTells
<1>5. CallsTold(from, to, writer, said) => CallsOf(HeardFrom(to, v.frames).calls) = Tellable(to, CallsOf(said))
  BY <1>1, <1>3, ClosedTells
<1> HIDE DEF v
<1> QED
  BY <1>3, <1>4, <1>5 DEF v

LEMMA MadeEndTells ==
  ASSUME Shaped, NEW stop, NEW failed
  PROVE  LET v == WriteStream(to, DecodeResponse, stop, failed) IN
         ToldOf(to, v, said) /\ CallsOf(HeardFrom(to, v.frames).calls) = Tellable(to, CallsOf(said))
<1> DEFINE whole == DecodeResponse
           v == WriteStream(to, whole, stop, failed)
<1>1. Spoken(whole) /\ to \in Formats
  BY SaidSpoken DEF Shaped, AnswerTypeOK
<1>2. SaidIn(whole)
  BY SaidInBody
<1> HIDE DEF whole
<1>3. ToldOf(to, v, whole) /\ CallsOf(HeardFrom(to, v.frames).calls) = Tellable(to, CallsOf(whole))
  BY <1>1, WholeIsTold
<1> HIDE DEF v
<1> QED
  BY <1>2, <1>3 DEF ToldOf, SaidIn, v, whole

LEMMA FreshHeard ==
  ASSUME NEW format
  PROVE  ~ HeardFrom(format, Fresh.frames).astray
<1>1. Fresh.frames = <<>> /\ IsSeq(<<>>)
  BY ShortShape DEF Fresh
<1>2. HeardFrom(format, <<>>) = Silence
  BY <1>1, HeardAppend
<1>3. Silence.astray = FALSE
  BY DEF Silence
<1> QED
  BY <1>1, <1>2, <1>3

(* So whatever the upstream ends with, what it said is told whole.         *)
LEMMA EndTold ==
  ASSUME Shaped, Under, ended = "none", NEW stop, NEW failed \in BOOLEAN, NEW broken \in BOOLEAN,
         Hand(stop, failed, broken), broken => ended' \notin Stops,
         UNCHANGED <<way, said, latest, crossed>>
  PROVE  AnswerToldWhole'
<1> DEFINE whole == IF streamed THEN contents ELSE DecodeResponse
           texts == PiecesOf(OfKind(said, "text"))
           thoughts == PiecesOf(OfKind(said, "thinking"))
           h == HeardFrom(to, writer'.frames)
           calls == Tellable(to, CallsOf(said))
<1>1. /\ to' = to /\ asked' = asked /\ said' = said /\ crossed' = crossed /\ Relayed' = Relayed
      /\ asked \in {"stream", "body"}
  BY DEF way, Relayed, Shaped, AnswerTypeOK
<1>2. body = NoBody
  BY DEF Shaped, AnswerTypeOK
<1>3. Heard' = h
  BY <1>1 DEF Heard
<1>c. asked # "body" =>
        (AnswerToldWhole' <=>
           /\ ~ h.astray
           /\ ended' \in Stops =>
                /\ Told'.text = texts /\ Told'.thinking = thoughts
                /\ (to = "anthropic" /\ Relayed /\ crossed) \/ Told'.calls = calls)
  BY <1>1, <1>3 DEF AnswerToldWhole
<1> HIDE DEF whole
<1>4. CASE Relayed
  <2>1. writer' = Close(to, Stopped(writer, stop, failed \/ broken)) /\ body' = body
    BY <1>4 DEF Hand, Stopped
  <2>2. /\ ToldOf(to, writer', said)
        /\ (to = "anthropic" /\ crossed) \/ CallsOf(h.calls) = calls
    <3> DEFINE fail == failed \/ broken
    <3> HIDE DEF fail
    <3>1. LET v == Close(to, Stopped(writer, stop, fail)) IN
          /\ ToldOf(to, v, said)
          /\ (to = "anthropic" /\ crossed) \/ CallsOf(HeardFrom(to, v.frames).calls) = calls
      BY <1>4, RelayedEndTells
    <3> QED
      BY <2>1, <3>1 DEF fail
  <2>3. ~ h.astray /\ h.text = texts /\ h.thinking = thoughts
    BY <2>2 DEF ToldOf
  <2>4. asked = "stream"
    BY <1>4 DEF Relayed
  <2>5. Told' = Answer(h.text, h.thinking, CallsOf(h.calls), h.ending)
    BY <1>1, <1>2, <1>3, <2>1, <2>4 DEF Told, NoBody
  <2> HIDE DEF h
  <2>6. Told'.text = h.text /\ Told'.thinking = h.thinking /\ Told'.calls = CallsOf(h.calls)
    BY <2>5, AnswerIs
  <2> DEFINE told == Told'
  <2> HIDE DEF told
  <2>7. told.text = texts /\ told.thinking = thoughts
        /\ ((to = "anthropic" /\ crossed) \/ told.calls = calls)
    BY <2>2, <2>3, <2>6 DEF told
  <2> QED
    BY <1>4, <1>c, <2>3, <2>4, <2>7 DEF told
<1>5. CASE ~ Relayed /\ broken
  <2>1. writer' = writer
    BY <1>5 DEF Hand
  <2>2. writer = Fresh
    BY <1>5 DEF Under, Relaying
  <2>3. ~ h.astray
    BY <2>1, <2>2, FreshHeard
  <2> HIDE DEF h
  <2> QED
    BY <1>3, <1>5, <2>3 DEF AnswerToldWhole
<1>6. CASE ~ Relayed /\ ~ broken /\ asked = "stream"
  <2>1. ~ streamed
    BY <1>6 DEF Relayed
  <2>2. writer' = WriteStream(to, DecodeResponse, stop, failed) /\ body' = body
    BY <1>6, <2>1 DEF Hand
  <2>3. ToldOf(to, writer', said) /\ CallsOf(h.calls) = calls
    BY <2>2, MadeEndTells
  <2>4. ~ h.astray /\ h.text = texts /\ h.thinking = thoughts
    BY <2>3 DEF ToldOf
  <2>5. Told' = Answer(h.text, h.thinking, CallsOf(h.calls), h.ending)
    BY <1>1, <1>2, <1>3, <1>6, <2>2 DEF Told, NoBody
  <2> HIDE DEF h
  <2>6. Told'.text = h.text /\ Told'.thinking = h.thinking /\ Told'.calls = CallsOf(h.calls)
    BY <2>5, AnswerIs
  <2> DEFINE told == Told'
  <2> HIDE DEF told
  <2>7. told.text = texts /\ told.thinking = thoughts /\ told.calls = calls
    BY <2>3, <2>4, <2>6 DEF told
  <2> QED
    BY <1>6, <1>c, <2>4, <2>7 DEF told
<1>7. CASE ~ Relayed /\ ~ broken /\ asked = "body"
  <2>1. /\ writer' = writer
        /\ body' = IF Encodes(to, CallsOf(whole)) THEN EncodeResponse(to, whole, stop, failed) ELSE ErrorBody
    BY <1>7 DEF Hand, whole
  <2>2. writer = Fresh
    BY <1>7 DEF Under, Relaying
  <2>3. ~ h.astray
    BY <2>1, <2>2, FreshHeard
  <2>4. SaidIn(whole)
    BY <1>7, SaidInBody, SaidInContents DEF whole
  <2>5. CallsOf(whole) = CallsOf(said)
    BY <2>4 DEF SaidIn
  <2>6. Told' = body'
    BY <1>1, <1>7 DEF Told
  <2> HIDE DEF h
  <2> DEFINE told == Told'
             encodes == Encodes(to, CallsOf(said))
  <2>7. AnswerToldWhole' <=>
          (ended' \in Stops =>
             IF ~ encodes THEN told = ErrorBody
             ELSE /\ told.text = texts
                  /\ CASE to = "responses" -> TRUE
                       [] to = "anthropic" -> Range(told.thinking) = Range(thoughts)
                       [] OTHER            -> told.thinking = thoughts
                  /\ (to = "anthropic" /\ Relayed /\ crossed) \/ told.calls = calls)
    BY <1>1, <1>3, <1>7, <2>3 DEF AnswerToldWhole
  <2>8. CASE ~ encodes
    <3>1. told = ErrorBody
      BY <2>1, <2>5, <2>6, <2>8
    <3> HIDE DEF told, encodes
    <3> QED
      BY <2>7, <2>8, <3>1
  <2>9. CASE encodes
    <3>1. body' = EncodeResponse(to, whole, stop, failed)
      BY <2>1, <2>5, <2>9
    <3>2. /\ body'.text = texts /\ body'.calls = calls
          /\ to = "anthropic" => Range(body'.thinking) = Range(thoughts)
          /\ to \notin {"anthropic", "responses"} => body'.thinking = thoughts
      BY <2>4, <3>1, BodyTold
    <3> HIDE DEF told, encodes, calls, texts, thoughts
    <3>3. /\ told.text = texts /\ told.calls = calls
          /\ to = "anthropic" => Range(told.thinking) = Range(thoughts)
          /\ to \notin {"anthropic", "responses"} => told.thinking = thoughts
      BY <2>6, <3>2 DEF told
    <3>4. CASE to = "responses"
      BY <2>7, <2>9, <3>3, <3>4
    <3>5. CASE to = "anthropic"
      BY <2>7, <2>9, <3>3, <3>5
    <3>6. CASE to \notin {"anthropic", "responses"}
      BY <2>7, <2>9, <3>3, <3>6
    <3> QED
      BY <3>4, <3>5, <3>6
  <2> QED
    BY <2>8, <2>9
<1> QED
  BY <1>1, <1>4, <1>5, <1>6, <1>7

(* Before that a client has been told nothing amiss.                       *)
LEMMA UnderTold ==
  ASSUME Shaped, Under, ended = "none"
  PROVE  AnswerToldWhole
<1>1. ~ Heard.astray
  <2>1. CASE Relayed
    <3>1. Plain(to, writer, PiecesOf(OfKind(said, "text")), PiecesOf(OfKind(said, "thinking")))
      BY <2>1 DEF Under, Relaying, Telling, TextTold
    <3> QED
      BY <3>1 DEF Plain, Heard
  <2>2. CASE ~ Relayed
    <3>1. writer = Fresh
      BY <2>2 DEF Under, Relaying
    <3> QED
      BY <3>1, FreshHeard DEF Heard
  <2> QED
    BY <2>1, <2>2
<1> QED
  BY <1>1 DEF AnswerToldWhole, Stops

TellsSoFar == ended = "none" => Under
ToldAtTheEnd == ended # "none" => AnswerToldWhole
Faithful == Shaped /\ Closed /\ TellsSoFar /\ ToldAtTheEnd

LEMMA FaithfulAtFirst == AnswerInit => Faithful
<1> SUFFICES ASSUME AnswerInit PROVE Faithful
  OBVIOUS
<1>1. Shaped /\ Closed
  BY AnswerInitHolds
<1>2. /\ said = <<>> /\ decoder.tools = <<>> /\ writer = Fresh /\ contents = <<>> /\ ended = "none" /\ latest = 0
      /\ to \in Formats
  BY DEF AnswerInit
<1>3. Collecting(from, said, said) /\ NumbersOK(from, said) /\ CallNames(said) = decoder.tools
  BY <1>2, NothingCollected
<1>4. TextTold(to, Fresh, said) /\ CallsTold(from, to, Fresh, said)
  BY <1>2, NothingTold
<1>5. Telling(from, to, writer, said, latest, crossed)
  BY <1>2, <1>4 DEF Telling, Current
<1>6. Under
  BY <1>2, <1>3, <1>5 DEF Under, Numbered, Collected, Relaying
<1> QED
  BY <1>1, <1>2, <1>6 DEF Faithful, TellsSoFar, ToldAtTheEnd

LEMMA FaithfulAlways == Faithful /\ [AnswerNext]_answerVars => Faithful'
<1> SUFFICES ASSUME Faithful, [AnswerNext]_answerVars PROVE Faithful'
  OBVIOUS
<1>0. Shaped' /\ Closed' /\ Shaped
  BY AnswerNextKeeps DEF Faithful
<1>1. ASSUME AnswerNext, ended = "none" PROVE TellsSoFar' /\ ToldAtTheEnd'
  <2>0. Under
    BY <1>1 DEF Faithful, TellsSoFar
  <2>1. ASSUME Under', ended' = "none" PROVE TellsSoFar' /\ ToldAtTheEnd'
    BY <2>1 DEF TellsSoFar, ToldAtTheEnd
  <2>2. ASSUME NEW kind \in Kinds, Begins(kind) PROVE TellsSoFar' /\ ToldAtTheEnd'
    <3>1. Under' /\ ended' = "none"
      BY <1>0, <1>1, <2>0, <2>2, BeginsTells DEF Begins
    <3> QED
      BY <2>1, <3>1
  <2>3. ASSUME SaysWhole PROVE TellsSoFar' /\ ToldAtTheEnd'
    <3>1. Under' /\ ended' = "none"
      BY <1>0, <1>1, <2>0, <2>3, SaysWholeTells DEF SaysWhole
    <3> QED
      BY <2>1, <3>1
  <2>4. ASSUME NEW i \in DOMAIN said, Says(i) PROVE TellsSoFar' /\ ToldAtTheEnd'
    <3>1. Under' /\ ended' = "none"
      BY <1>0, <1>1, <2>0, <2>4, SaysTells DEF Says
    <3> QED
      BY <2>1, <3>1
  <2>5. ASSUME NEW i \in DOMAIN said, Finishes(i) PROVE TellsSoFar' /\ ToldAtTheEnd'
    <3>1. Under' /\ ended' = "none"
      BY <1>0, <1>1, <2>0, <2>5, FinishesTells DEF Finishes
    <3> QED
      BY <2>1, <3>1
  <2>6. ASSUME NEW stop \in Stops, Ends(stop) PROVE TellsSoFar' /\ ToldAtTheEnd'
    <3> DEFINE told == IF streamed THEN StopOf(from, decoder, stop) ELSE stop
    <3>1. /\ Hand(told, FALSE, FALSE) /\ ended' # "none"
          /\ UNCHANGED <<way, said, latest, crossed>>
      BY <2>6 DEF Ends, Stops
    <3> HIDE DEF told
    <3>2. AnswerToldWhole'
      BY <1>0, <1>1, <2>0, <3>1, EndTold
    <3> QED
      BY <3>1, <3>2 DEF TellsSoFar, ToldAtTheEnd
  <2>7. ASSUME Fails PROVE TellsSoFar' /\ ToldAtTheEnd'
    <3>1. Hand("", TRUE, FALSE) /\ ended' # "none" /\ UNCHANGED <<way, said, latest, crossed>>
      BY <2>7 DEF Fails
    <3>2. AnswerToldWhole'
      BY <1>0, <1>1, <2>0, <3>1, EndTold
    <3> QED
      BY <3>1, <3>2 DEF TellsSoFar, ToldAtTheEnd
  <2>8. ASSUME Breaks PROVE TellsSoFar' /\ ToldAtTheEnd'
    <3>1. /\ Hand("", FALSE, TRUE) /\ ended' # "none" /\ ended' \notin Stops
          /\ UNCHANGED <<way, said, latest, crossed>>
      BY <2>8 DEF Breaks, Stops
    <3>2. AnswerToldWhole'
      BY <1>0, <1>1, <2>0, <3>1, EndTold
    <3> QED
      BY <3>1, <3>2 DEF TellsSoFar, ToldAtTheEnd
  <2> QED
    BY <1>1, <2>2, <2>3, <2>4, <2>5, <2>6, <2>7, <2>8 DEF AnswerNext
<1>2. ASSUME ended # "none" \/ UNCHANGED answerVars PROVE TellsSoFar' /\ ToldAtTheEnd'
  <2>1. UNCHANGED answerVars
    BY <1>2 DEF AnswerNext, Begins, SaysWhole, Says, Finishes, Ends, Fails, Breaks
  <2>2. /\ from' = from /\ to' = to /\ streamed' = streamed /\ asked' = asked /\ said' = said
        /\ latest' = latest /\ crossed' = crossed /\ decoder' = decoder /\ writer' = writer
        /\ contents' = contents /\ ended' = ended /\ body' = body
    BY <2>1 DEF answerVars, way
  <2>3. TellsSoFar => TellsSoFar'
    BY <2>2 DEF TellsSoFar, Under, Numbered, Collected, Relaying, Relayed
  <2>4. ToldAtTheEnd => ToldAtTheEnd'
    BY <2>2 DEF ToldAtTheEnd, AnswerToldWhole, Heard, Told, Relayed
  <2> QED
    BY <2>3, <2>4 DEF Faithful
<1> QED
  BY <1>0, <1>1, <1>2 DEF Faithful

(* An answer that ended reaches the client with every text, thought and    *)
(* argument in its order and every call apart, whichever two formats       *)
(* translateResponse goes between, however many items there are and        *)
(* however they take turns, and no stream tells a piece of what is not     *)
(* open.                                                                   *)
THEOREM AnswerIsToldWhole == AnswerSpec => []AnswerToldWhole
<1>1. AnswerInit => Faithful
  BY FaithfulAtFirst
<1>2. Faithful /\ [AnswerNext]_answerVars => Faithful'
  BY FaithfulAlways
<1>3. Faithful => AnswerToldWhole
  BY UnderTold DEF Faithful, TellsSoFar, ToldAtTheEnd
<1> QED
  BY <1>1, <1>2, <1>3, PTL DEF AnswerSpec
=============================================================================
