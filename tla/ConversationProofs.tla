------------------------- MODULE ConversationProofs -------------------------
(***************************************************************************)
(* What is said at one end of a connection is what is heard at the other,  *)
(* however the bytes are cut up on the way, and no command goes            *)
(* unanswered: for any lines, sizes of a length, buffers and limits.       *)
(*                                                                         *)
(* The argument follows the two streams of cells.  What the server has not *)
(* handled yet is upBuf \o upNet; what the client has not printed yet is   *)
(* part \o down.  Either begins with the first cell of the next frame,     *)
(* ends with the last cell that was sent, unless a reset has cut it off,   *)
(* and every cell in it is followed by the rest of its frame and the       *)
(* beginning of the next (Linked).  A step of the network moves a cell     *)
(* from one half of a stream to the other, so it changes nothing, or cuts  *)
(* its end off; a step of an end takes a whole frame from the front or     *)
(* adds cells at the back.                                                 *)
(***************************************************************************)
EXTENDS Conversation, SequenceTheorems, TLAPS

Cell == Nat \X Nat

(* Every cell of s belongs to a frame of the given sizes, and is followed  *)
(* by the rest of that frame and the beginning of the next.                *)
InFrame(s, sizes, j) ==
  /\ s[j][1] \in DOMAIN sizes
  /\ s[j][2] \in 1..sizes[s[j][1]]
RestFollows(s, sizes, j) ==
  \A m \in 1..(sizes[s[j][1]] - s[j][2]) :
    j + m <= Len(s) => s[j + m] = <<s[j][1], s[j][2] + m>>
NextFollows(s, sizes, j) ==
  LET e == j + (sizes[s[j][1]] - s[j][2]) + 1
  IN  e <= Len(s) => s[e] = <<s[j][1] + 1, 1>>
Linked(s, sizes) ==
  \A j \in 1..Len(s) :
    InFrame(s, sizes, j) /\ RestFollows(s, sizes, j) /\ NextFollows(s, sizes, j)

Up == upBuf \o upNet
Down == part \o down

(* How many cells of frame Len(told) have been sent.                       *)
Sent == IF left = SizeDown THEN SizeDown ELSE SizeDown - left

UpInv ==
  ~lost /\ sock # "closed" =>
    /\ Linked(Up, SizesUp)
    /\ Up # <<>> => Up[1] = <<Len(handled) + 1, 1>>
    /\ upEnd # "reset" => IF Up = <<>>
                          THEN Len(handled) = Len(said)
                          ELSE Up[Len(Up)] = <<Len(said), SizesUp[Len(said)]>>

Streaming == sock # "closed" /\ upEnd # "reset"

DownInv ==
  unsent # "part" =>
    /\ Linked(Down, SizesDown)
    /\ Down # <<>> => Down[1] = <<Len(printed) + 1, 1>>
    /\ Streaming => IF Down = <<>>
                    THEN Len(printed) = Len(told) /\ left = SizeDown
                    ELSE Down[Len(Down)] = <<Len(told), Sent>>
    /\ expect \in {HeaderSize, SizeDown}

(* An end that has closed: the server is done with this connection, and so *)
(* is the client, before the server's kernel knows.                        *)
ClosedInv ==
  /\ sock = "closed" => at = "wait" /\ outbox = <<>>
  /\ upEnd # "open" => Released

(* The frame in front of the outbox has been begun.                        *)
BegunInv ==
  left # SizeDown => /\ outbox # <<>> /\ told # <<>>
                     /\ told[Len(told)] = Head(outbox)

ToldOrToTell == {told[k] : k \in DOMAIN told} \cup {outbox[k] : k \in DOMAIN outbox}

(* Every command handled is answered, in what was sent or is to be sent.   *)
AnswerInv ==
  ~Disturbed /\ ~Released =>
    \A i \in 1..Len(handled) : said[i].slashes > 0 => i \in ToldOrToTell

Typed ==
  /\ ConversationTypeOK
  /\ {upNet, upBuf, down, part} \subseteq Seq(Cell)
  /\ printed \in Seq(Nat)
  /\ {handled, told, outbox} \subseteq Seq(0..Len(said))

ConvInv ==
  /\ Typed
  /\ HandledInOrder /\ PrintedInOrder
  /\ UpInv /\ DownInv
  /\ ClosedInv /\ BegunInv /\ AnswerInv

-----------------------------------------------------------------------------
(* Sequences and cells.                                                    *)

(* The cells of a frame, one by one.                                       *)
LEMMA CellsFacts ==
  ASSUME NEW i \in Nat, NEW n \in Nat
  PROVE  /\ Cells(i, n) \in Seq(Cell)
         /\ Len(Cells(i, n)) = n
         /\ \A k \in 1..n : Cells(i, n)[k] = <<i, k>>
BY DEF Cells, Cell

(* Where the cells are when something is added at the back.                *)
LEMMA ConcatFacts ==
  ASSUME NEW S, NEW s \in Seq(S), NEW c \in Seq(S)
  PROVE  /\ s \o c \in Seq(S) /\ Len(s \o c) = Len(s) + Len(c)
         /\ \A k \in 1..Len(s) : (s \o c)[k] = s[k]
         /\ \A k \in 1..Len(c) : (s \o c)[Len(s) + k] = c[k]
<1>1. /\ Len(s) \in Nat /\ Len(c) \in Nat
      /\ s \o c \in Seq(S) /\ Len(s \o c) = Len(s) + Len(c)
      /\ \A k \in 1..(Len(s) + Len(c)) :
            (s \o c)[k] = IF k <= Len(s) THEN s[k] ELSE c[k - Len(s)]
  BY ConcatProperties, LenProperties
<1>2. \A k \in 1..Len(s) : k \in 1..(Len(s) + Len(c)) /\ k <= Len(s)
  BY <1>1
<1>3. \A k \in 1..Len(c) : /\ Len(s) + k \in 1..(Len(s) + Len(c))
                           /\ ~(Len(s) + k <= Len(s))
                           /\ (Len(s) + k) - Len(s) = k
  BY <1>1
<1> QED
  BY <1>1, <1>2, <1>3

(* What is taken from the front of a sequence.                             *)
LEMMA FirstFacts ==
  ASSUME NEW S, NEW s \in Seq(S), NEW n \in 0..Len(s)
  PROVE  /\ First(s, n) \in Seq(S)
         /\ Len(First(s, n)) = n
         /\ \A k \in 1..n : First(s, n)[k] = s[k]
<1>1. \A k \in 1..n : s[k] \in S
  BY ElementOfSeq
<1> QED
  BY <1>1, SubSeqProperties DEF First

(* And what is left behind it.                                             *)
LEMMA AfterFacts ==
  ASSUME NEW S, NEW s \in Seq(S), NEW n \in 0..Len(s)
  PROVE  /\ After(s, n) \in Seq(S)
         /\ Len(After(s, n)) = Len(s) - n
         /\ \A k \in 1..(Len(s) - n) : After(s, n)[k] = s[n + k]
<1>1. \A k \in (n + 1)..Len(s) : s[k] \in S
  BY ElementOfSeq
<1>2. /\ SubSeq(s, n + 1, Len(s)) \in Seq(S)
      /\ Len(SubSeq(s, n + 1, Len(s))) = IF n + 1 <= Len(s) THEN Len(s) - (n + 1) + 1 ELSE 0
      /\ \A k \in 1..(Len(s) - (n + 1) + 1) : SubSeq(s, n + 1, Len(s))[k] = s[(n + 1) + k - 1]
  BY <1>1, SubSeqProperties
<1> QED
  BY <1>2 DEF After

(* A stream in three parts.                                                *)
Associate(a, b, c) == (a \o b) \o c = a \o (b \o c)

(* However a stream in three parts is read, it is the same stream.         *)
LEMMA PartsAssociate ==
  ASSUME NEW S, NEW a \in Seq(S), NEW b \in Seq(S), NEW c \in Seq(S)
  PROVE  Associate(a, b, c)
BY ConcatAssociative DEF Associate

(* Cells that arrive leave the stream as it is.                            *)
LEMMA Regrouped ==
  ASSUME NEW S, NEW b \in Seq(S), NEW s \in Seq(S), NEW k \in 0..Len(s)
  PROVE  (b \o First(s, k)) \o After(s, k) = b \o s
<1>1. First(s, k) \in Seq(S) /\ After(s, k) \in Seq(S)
  BY FirstFacts, AfterFacts
<1>2. First(s, k) \o After(s, k) = s
  <2>1. /\ Len(s) \in Nat
        /\ 1 \in 1..(Len(s) + 1) /\ k \in 0..Len(s) /\ k \in (1 - 1)..Len(s)
        /\ Len(s) \in k..Len(s)
    BY LenProperties
  <2>2. SubSeq(s, 1, k) \o SubSeq(s, k + 1, Len(s)) = SubSeq(s, 1, Len(s))
    BY <2>1, ConcatAdjacentSubSeq
  <2> QED
    BY <2>2, SubSeqFull DEF First, After
<1>3. Associate(b, First(s, k), After(s, k))
  BY <1>1, PartsAssociate, Zenon
<1> QED
  BY <1>2, <1>3 DEF Associate

(* What is taken from its first half is taken from the stream.             *)
LEMMA TakenFromFront ==
  ASSUME NEW S, NEW b \in Seq(S), NEW s \in Seq(S), NEW k \in 0..Len(b)
  PROVE  /\ First(b, k) = First(b \o s, k)
         /\ After(b, k) \o s = After(b \o s, k)
<1>1. /\ b \o s \in Seq(S) /\ Len(b \o s) = Len(b) + Len(s)
      /\ Len(b) \in Nat /\ Len(s) \in Nat
      /\ k \in 0..Len(b) /\ k \in 0..Len(b \o s)
  BY ConcatProperties, LenProperties
<1>2. First(b, k) = First(b \o s, k)
  <2>1. /\ First(b, k) \in Seq(S) /\ First(b \o s, k) \in Seq(S)
        /\ Len(First(b, k)) = k /\ Len(First(b \o s, k)) = k
        /\ \A j \in 1..k : First(b, k)[j] = b[j] /\ First(b \o s, k)[j] = (b \o s)[j]
    BY <1>1, FirstFacts
  <2>2. \A j \in 1..k : (b \o s)[j] = b[j]
    BY ConcatProperties
  <2> QED
    BY <2>1, <2>2, SeqEqual
<1>3. After(b, k) \o s = After(b \o s, k)
  <2> DEFINE a == After(b, k)
             n == Len(b) - k
  <2>1. /\ a \in Seq(S) /\ Len(a) = n
        /\ \A j \in 1..n : a[j] = b[k + j]
    BY <1>1, AfterFacts
  <2>2. /\ After(b \o s, k) \in Seq(S) /\ Len(After(b \o s, k)) = Len(b \o s) - k
        /\ \A j \in 1..(Len(b \o s) - k) : After(b \o s, k)[j] = (b \o s)[k + j]
    BY <1>1, AfterFacts
  <2>3. n \in Nat /\ k + n = Len(b) /\ Len(b \o s) - k = n + Len(s) /\ k \in Nat
    BY <1>1
  <2> HIDE DEF a, n
  <2>4. /\ a \o s \in Seq(S) /\ Len(a \o s) = Len(a) + Len(s)
        /\ \A j \in 1..Len(a) : (a \o s)[j] = a[j]
        /\ \A j \in 1..Len(s) : (a \o s)[Len(a) + j] = s[j]
    <3>1. a \in Seq(S)
      BY <2>1
    <3> QED
      BY <3>1, ConcatFacts
  <2>5. /\ \A j \in 1..Len(b) : (b \o s)[j] = b[j]
        /\ \A j \in 1..Len(s) : (b \o s)[Len(b) + j] = s[j]
    BY ConcatFacts
  <2>6. ASSUME NEW j \in 1..n
        PROVE  (a \o s)[j] = (b \o s)[k + j]
    <3>1. k + j \in 1..Len(b)
      BY <1>1, <2>3
    <3> QED
      BY <2>1, <2>4, <2>5, <3>1
  <2>7. ASSUME NEW j \in 1..Len(s)
        PROVE  (a \o s)[n + j] = (b \o s)[k + (n + j)]
    <3>1. k + (n + j) = Len(b) + j
      BY <1>1, <2>3
    <3> QED
      BY <2>1, <2>4, <2>5, <3>1
  <2>8. ASSUME NEW j \in 1..(n + Len(s))
        PROVE  (a \o s)[j] = (b \o s)[k + j]
    <3>1. CASE j <= n
      <4>1. j \in 1..n
        BY <2>3, <3>1
      <4> QED
        BY <2>6, <4>1
    <3>2. CASE j > n
      <4>1. j - n \in 1..Len(s) /\ n + (j - n) = j
        BY <1>1, <2>3, <3>2
      <4> QED
        BY <2>7, <4>1
    <3>3. j <= n \/ j > n
      BY <1>1, <2>3
    <3> QED
      BY <3>1, <3>2, <3>3
  <2>9. /\ Len(a \o s) = n + Len(s) /\ Len(After(b \o s, k)) = n + Len(s)
        /\ \A j \in 1..(n + Len(s)) : (a \o s)[j] = After(b \o s, k)[j]
    BY <2>1, <2>2, <2>3, <2>4, <2>8
  <2> QED
    BY <2>2, <2>4, <2>9, SeqEqual DEF a
<1> QED
  BY <1>2, <1>3

-----------------------------------------------------------------------------
(* Streams of frames.                                                      *)

(* How much of a frame is left after one of its cells.                     *)
LEMMA RestIsNat ==
  ASSUME NEW n \in Nat, NEW k \in 1..n
  PROVE  n - k \in Nat /\ k \in Nat
OBVIOUS

(* What is left of a stream after some cells are taken is linked.          *)
LEMMA LinkedAfter ==
  ASSUME NEW s \in Seq(Cell), NEW sizes \in Seq(Nat), NEW n \in 0..Len(s),
         Linked(s, sizes)
  PROVE  Linked(After(s, n), sizes)
<1> DEFINE t == After(s, n)
<1>1. Len(t) = Len(s) - n /\ \A k \in 1..Len(t) : t[k] = s[n + k]
  BY AfterFacts
<1> SUFFICES ASSUME NEW j \in 1..Len(t)
             PROVE  InFrame(t, sizes, j) /\ RestFollows(t, sizes, j) /\ NextFollows(t, sizes, j)
  BY DEF Linked
<1>2. n + j \in 1..Len(s) /\ t[j] = s[n + j]
  BY <1>1
<1>3. InFrame(s, sizes, n + j) /\ RestFollows(s, sizes, n + j) /\ NextFollows(s, sizes, n + j)
  BY <1>2 DEF Linked
<1> HIDE DEF t
<1>4. InFrame(t, sizes, j)
  BY <1>2, <1>3 DEF InFrame
<1>5. sizes[s[n + j][1]] \in Nat /\ s[n + j][2] \in 1..sizes[s[n + j][1]]
  BY <1>3, LenProperties, ElementOfSeq DEF InFrame
<1> DEFINE f == s[n + j][1]
<1>6. PICK k \in Nat, x \in Nat : s[n + j][2] = k /\ x = sizes[f] - k
  <2>1. sizes[f] - s[n + j][2] \in Nat /\ s[n + j][2] \in Nat
    BY <1>5, RestIsNat, Zenon
  <2> QED
    BY <2>1
<1> HIDE DEF f
<1>7. /\ Len(s) \in Nat /\ n \in Nat /\ n <= Len(s) /\ j \in Nat /\ j >= 1
      /\ j <= Len(t) /\ Len(t) = Len(s) - n
  BY <1>1, LenProperties
<1>8. t[j][1] = f /\ t[j][2] = k
  BY <1>2, <1>6 DEF f
<1>9. RestFollows(t, sizes, j)
  <2>1. ASSUME NEW m \in 1..x, j + m <= Len(t)
        PROVE  t[j + m] = <<f, k + m>>
    <3>1. j + m \in 1..Len(t) /\ n + (j + m) = (n + j) + m /\ (n + j) + m <= Len(s)
      BY <1>7, <2>1
    <3>2. s[(n + j) + m] = <<f, k + m>>
      BY <1>3, <1>6, <2>1, <3>1 DEF RestFollows, f
    <3> QED
      BY <1>1, <3>1, <3>2
  <2> QED
    BY <1>6, <1>8, <2>1 DEF RestFollows
<1>10. NextFollows(t, sizes, j)
  <2>1. ASSUME j + x + 1 <= Len(t)
        PROVE  t[j + x + 1] = <<f + 1, 1>>
    <3>1. j + x + 1 \in 1..Len(t) /\ n + (j + x + 1) = (n + j) + x + 1 /\ (n + j) + x + 1 <= Len(s)
      BY <1>7, <2>1
    <3>2. s[(n + j) + x + 1] = <<f + 1, 1>>
      BY <1>3, <1>6, <3>1 DEF NextFollows, f
    <3> QED
      BY <1>1, <3>1, <3>2
  <2> QED
    BY <1>6, <1>8, <2>1 DEF NextFollows
<1> QED
  BY <1>4, <1>9, <1>10

(* The front of a stream that begins with a frame.                         *)
LEMMA LinkedFront ==
  ASSUME NEW s \in Seq(Cell), NEW sizes \in Seq(Nat), Linked(s, sizes), s # <<>>,
         NEW i \in Nat, s[1] = <<i, 1>>
  PROVE  /\ i \in DOMAIN sizes
         /\ \A n \in 1..Len(s) : n <= sizes[i] => First(s, n) = Cells(i, n)
         /\ sizes[i] < Len(s) => s[sizes[i] + 1] = <<i + 1, 1>>
<1>1. 1 \in 1..Len(s)
  BY EmptySeq
<1>2. InFrame(s, sizes, 1) /\ RestFollows(s, sizes, 1) /\ NextFollows(s, sizes, 1)
  BY <1>1 DEF Linked
<1>3. i \in DOMAIN sizes /\ 1 \in 1..sizes[i] /\ sizes[i] \in Nat
  BY <1>2, LenProperties, ElementOfSeq DEF InFrame
<1>4. ASSUME NEW n \in 1..Len(s), n <= sizes[i]
      PROVE  First(s, n) = Cells(i, n)
  <2>1. \A k \in 1..n : s[k] = <<i, k>>
    <3> SUFFICES ASSUME NEW k \in 1..n, k # 1 PROVE s[k] = <<i, k>>
      OBVIOUS
    <3>1. k - 1 \in 1..(sizes[i] - 1) /\ 1 + (k - 1) <= Len(s)
      BY <1>3, <1>4
    <3>2. s[1 + (k - 1)] = <<i, 1 + (k - 1)>>
      BY <1>2, <3>1 DEF RestFollows
    <3> QED
      BY <3>2
  <2>2. /\ First(s, n) \in Seq(Cell) /\ Len(First(s, n)) = n
        /\ \A k \in 1..n : First(s, n)[k] = s[k]
    BY FirstFacts
  <2>3. /\ Cells(i, n) \in Seq(Cell) /\ Len(Cells(i, n)) = n
        /\ \A k \in 1..n : Cells(i, n)[k] = <<i, k>>
    <3>1. n \in Nat
      BY LenProperties
    <3> QED
      BY <3>1, CellsFacts, Zenon
  <2>4. /\ Len(First(s, n)) = Len(Cells(i, n))
        /\ \A k \in 1..Len(First(s, n)) : First(s, n)[k] = Cells(i, n)[k]
    BY <2>1, <2>2, <2>3
  <2> QED
    BY <2>2, <2>3, <2>4, SeqEqual
<1>5. sizes[i] < Len(s) => s[sizes[i] + 1] = <<i + 1, 1>>
  <2>1. 1 + (sizes[i] - 1) + 1 = sizes[i] + 1
    BY <1>3
  <2> QED
    BY <1>2, <1>3, <2>1 DEF NextFollows
<1> QED
  BY <1>3, <1>4, <1>5

(* A stream is linked whatever frames have been sent after it.             *)
LEMMA LinkedMoreSizes ==
  ASSUME NEW s \in Seq(Cell), NEW sizes, NEW more, Linked(s, sizes),
         DOMAIN sizes \subseteq DOMAIN more,
         \A i \in DOMAIN sizes : more[i] = sizes[i]
  PROVE  Linked(s, more)
BY DEF Linked, InFrame, RestFollows, NextFollows

(* s ends with cell h of frame i, or with frame i - 1 if h is 0.           *)
EndsAt(s, sizes, i, h) ==
  s # <<>> => IF h = 0 THEN s[Len(s)] = <<i - 1, sizes[i - 1]>> /\ i - 1 \in DOMAIN sizes
                       ELSE s[Len(s)] = <<i, h>>

(* c has the cells of frame i after cell h, or the first of them.          *)
Continues(c, sizes, i, h) ==
  h + Len(c) <= sizes[i] /\ \A j \in 1..Len(c) : c[j] = <<i, h + j>>

(* More cells of the frame sent last, or of the next one.                  *)
LEMMA LinkedExtended ==
  ASSUME NEW s \in Seq(Cell), NEW sizes \in Seq(Nat), Linked(s, sizes),
         NEW i \in DOMAIN sizes, NEW h \in Nat, NEW c \in Seq(Cell),
         Continues(c, sizes, i, h), EndsAt(s, sizes, i, h)
  PROVE  Linked(s \o c, sizes)
<1> DEFINE t == s \o c
           L == Len(s)
<1>1. /\ t \in Seq(Cell) /\ Len(t) = L + Len(c)
      /\ \A j \in 1..L : t[j] = s[j]
      /\ \A j \in 1..Len(c) : t[L + j] = <<i, h + j>>
  <2>1. /\ t \in Seq(Cell) /\ Len(t) = L + Len(c)
        /\ \A j \in 1..L : t[j] = s[j]
        /\ \A j \in 1..Len(c) : t[L + j] = c[j]
    BY ConcatFacts
  <2> QED
    BY <2>1 DEF Continues
<1>2. L \in Nat /\ Len(c) \in Nat /\ i \in Nat /\ \A f \in DOMAIN sizes : sizes[f] \in Nat
  BY LenProperties, ElementOfSeq
<1> HIDE DEF t, L
<1>3. PICK C \in Nat, R \in Nat :
        /\ C = Len(c) /\ Len(t) = L + C
        /\ R = sizes[i] /\ h + C <= R
  BY <1>1, <1>2 DEF Continues
<1>4. ASSUME NEW j \in 1..L
      PROVE  InFrame(t, sizes, j) /\ RestFollows(t, sizes, j) /\ NextFollows(t, sizes, j)
  <2>1. PICK f \in DOMAIN sizes, k \in Nat : s[j] = <<f, k>> /\ k \in 1..sizes[f]
    <3>1. InFrame(s, sizes, j)
      BY <1>4 DEF Linked, L
    <3>2. s[j] \in Nat \X Nat
      BY ElementOfSeq, <1>4 DEF L, Cell
    <3>3. s[j] = <<s[j][1], s[j][2]>> /\ s[j][2] \in Nat
      BY <3>2
    <3> QED
      BY <3>1, <3>3 DEF InFrame
  <2>2. PICK x \in Nat : x = sizes[f] - k
    BY <1>2, <2>1
  <2>3. /\ j \in Nat /\ j >= 1 /\ j <= L
        /\ L \in Nat /\ C \in Nat /\ x \in Nat /\ k \in Nat /\ h \in Nat
    BY <1>2, <1>4
  <2>4. f \in Nat
    BY LenProperties
  <2>5. /\ \A m \in 1..x : j + m <= L => s[j + m] = <<f, k + m>>
        /\ j + x + 1 <= L => s[j + x + 1] = <<f + 1, 1>>
    <3>1. RestFollows(s, sizes, j) /\ NextFollows(s, sizes, j)
      BY <1>4 DEF Linked, L
    <3>2. s[j][1] = f /\ s[j][2] = k /\ sizes[s[j][1]] - s[j][2] = x
      BY <2>1, <2>2
    <3> QED
      BY <3>1, <3>2 DEF RestFollows, NextFollows, L
  <2>6. ASSUME j + x >= L
        PROVE  s[L] = <<f, k + (L - j)>>
    <3>1. CASE j = L
      BY <2>1, <3>1, <1>2
    <3>2. CASE j # L
      <4>1. L - j \in 1..x /\ j + (L - j) = L
        BY <3>2, <2>6, <2>3
      <4>2. j + (L - j) <= L
        BY <4>1, <2>3
      <4>3. s[j + (L - j)] = <<f, k + (L - j)>>
        BY <4>1, <4>2, <2>5
      <4> QED
        BY <4>1, <4>3
    <3> QED
      BY <3>1, <3>2
  <2>7. s # <<>>
    BY <1>4 DEF L
  <2>8. /\ \A m \in 1..x : j + m <= L + C => t[j + m] = <<f, k + m>>
        /\ j + x + 1 <= L + C => t[j + x + 1] = <<f + 1, 1>>
    <3>1. CASE j + x < L
      <4>1. j + x + 1 \in 1..L
        BY <3>1, <2>3
      <4>2. ASSUME NEW m \in 1..x PROVE j + m \in 1..L /\ j + m <= L
        BY <3>1, <2>3
      <4>3. \A m \in 1..x : t[j + m] = <<f, k + m>>
        BY <4>2, <1>1, <2>5
      <4>4. t[j + x + 1] = <<f + 1, 1>>
        <5>1. j + x + 1 <= L
          BY <4>1, <2>3
        <5> QED
          BY <4>1, <5>1, <1>1, <2>5
      <4> QED
        BY <4>3, <4>4
    <3>2. CASE j + x >= L /\ h = 0
      <4>1. s[L] = <<i - 1, sizes[i - 1]>> /\ s[L] = <<f, k + (L - j)>>
        BY <2>6, <2>7, <3>2 DEF L, EndsAt
      <4>2. f = i - 1 /\ sizes[f] = k + (L - j)
        BY <4>1
      <4>3. j + x = L /\ f + 1 = i
        <5>1. x = (k + (L - j)) - k
          BY <2>2, <4>2
        <5>2. i \in Nat
          BY <1>2
        <5>3. f + 1 = i
          BY <4>2, <2>4, <5>2
        <5> QED
          BY <5>1, <5>3, <2>3
      <4>4. ASSUME NEW m \in 1..x PROVE j + m \in 1..L /\ j + m <= L
        BY <4>3, <2>3
      <4>5. L + 1 <= L + C => t[L + 1] = <<f + 1, 1>>
        <5>1. ASSUME L + 1 <= L + C PROVE 1 \in 1..Len(c)
          BY <5>1, <1>2, <1>3
        <5>2. h + 1 = 1
          BY <3>2
        <5> QED
          BY <5>1, <5>2, <1>1, <4>3
      <4> QED
        BY <4>3, <4>4, <4>5, <1>1, <2>5
    <3>3. CASE j + x >= L /\ h # 0
      <4>1. s[L] = <<i, h>> /\ s[L] = <<f, k + (L - j)>>
        BY <2>6, <2>7, <3>3 DEF L, EndsAt
      <4>2. f = i /\ h = k + (L - j)
        BY <4>1
      <4>3. ASSUME NEW m \in 1..x, j + m <= L + C
            PROVE  t[j + m] = <<f, k + m>>
        <5>1. CASE j + m <= L
          <6>1. j + m \in 1..L
            BY <5>1, <2>3, <4>3
          <6> QED
            BY <5>1, <6>1, <1>1, <2>5, <4>3
        <5>2. CASE j + m > L
          <6>1. PICK y \in 1..C : y = j + m - L
            BY <5>2, <4>3, <2>3
          <6>2. L + y = j + m /\ h + y = k + m
            BY <6>1, <4>2, <4>3, <2>3
          <6> QED
            BY <6>1, <6>2, <1>1, <1>3, <4>2
        <5> QED
          BY <5>1, <5>2, <2>3, <4>3
      <4>4. ~(j + x + 1 <= L + C)
        <5>1. x = R - k /\ h + C <= R
          BY <4>2, <1>3, <2>2
        <5>2. h = k + (L - j)
          BY <4>2
        <5> QED
          BY <5>1, <5>2, <2>3
      <4> QED
        BY <4>3, <4>4
    <3>4. j + x < L \/ j + x >= L
      BY <2>3
    <3> QED
      BY <3>1, <3>2, <3>3, <3>4
  <2>9. t[j][1] = f /\ t[j][2] = k /\ sizes[t[j][1]] - t[j][2] = x
    <3>1. t[j] = <<f, k>>
      BY <1>1, <2>1
    <3> QED
      BY <2>2, <3>1
  <2>10. InFrame(t, sizes, j)
    BY <2>1, <2>9 DEF InFrame
  <2>11. Len(t) = L + C
    BY <1>3
  <2>12. RestFollows(t, sizes, j)
    BY <2>8, <2>9, <2>11 DEF RestFollows
  <2>13. NextFollows(t, sizes, j)
    BY <2>8, <2>9, <2>11 DEF NextFollows
  <2> QED
    BY <2>10, <2>12, <2>13
<1>5. ASSUME NEW y \in 1..C
      PROVE  LET j == L + y
             IN  InFrame(t, sizes, j) /\ RestFollows(t, sizes, j) /\ NextFollows(t, sizes, j)
  <2> DEFINE j == L + y
  <2>1. t[j] = <<i, h + y>> /\ h + y \in 1..R
    <3>1. y \in 1..Len(c)
      BY <1>3
    <3>2. h + y \in Nat /\ h + y >= 1 /\ h + y <= R
      BY <1>3, <1>2
    <3> QED
      BY <3>1, <3>2, <1>1
  <2>2. InFrame(t, sizes, j)
    BY <2>1, <1>3 DEF InFrame
  <2>3. ASSUME NEW m \in 1..(R - (h + y)), j + m <= L + C
        PROVE  t[j + m] = <<i, (h + y) + m>>
    <3>1. y + m \in 1..Len(c) /\ L + (y + m) = j + m /\ h + (y + m) = (h + y) + m
      <4>1. /\ y \in Nat /\ y >= 1 /\ m \in Nat /\ m >= 1
            /\ L \in Nat /\ h \in Nat /\ C = Len(c)
        BY <1>2, <1>3
      <4> QED
        BY <2>3, <4>1
    <3> QED
      BY <3>1, <1>1
  <2>4. ~(j + (R - (h + y)) + 1 <= L + C)
    <3>1. y \in Nat /\ L \in Nat /\ h \in Nat /\ R \in Nat /\ C \in Nat /\ h + C <= R
      BY <1>2, <1>3
    <3> QED
      BY <3>1
  <2> HIDE DEF j
  <2>5. RestFollows(t, sizes, j) /\ NextFollows(t, sizes, j)
    <3>1. t[j][1] = i /\ t[j][2] = h + y /\ sizes[t[j][1]] - t[j][2] = R - (h + y)
      BY <1>3, <2>1
    <3>2. Len(t) = L + C
      BY <1>3
    <3>3. RestFollows(t, sizes, j)
      BY <2>3, <3>1, <3>2 DEF RestFollows
    <3>4. NextFollows(t, sizes, j)
      BY <2>4, <3>1, <3>2 DEF NextFollows
    <3> QED
      BY <3>3, <3>4
  <2> QED
    BY <2>2, <2>5 DEF j
<1>6. \A j \in 1..Len(t) : j \in 1..L \/ \E y \in 1..C : j = L + y
  <2> SUFFICES ASSUME NEW j \in 1..(L + C), ~(j \in 1..L)
               PROVE  \E y \in 1..C : j = L + y
    BY <1>3
  <2>1. j - L \in 1..C /\ j = L + (j - L)
    BY <1>2
  <2> QED
    BY <2>1
<1> QED
  BY <1>4, <1>5, <1>6 DEF Linked, t

(* The beginning of a linked stream is linked.                             *)
LEMMA LinkedFirst ==
  ASSUME NEW b \in Seq(Cell), NEW s \in Seq(Cell), NEW sizes \in Seq(Nat),
         Linked(b \o s, sizes)
  PROVE  Linked(b, sizes)
<1>1. /\ Len(b) \in Nat /\ Len(s) \in Nat /\ Len(b \o s) = Len(b) + Len(s)
      /\ \A j \in 1..Len(b) : (b \o s)[j] = b[j]
  BY ConcatProperties, LenProperties
<1> SUFFICES ASSUME NEW j \in 1..Len(b)
             PROVE  InFrame(b, sizes, j) /\ RestFollows(b, sizes, j) /\ NextFollows(b, sizes, j)
  BY DEF Linked
<1>2. (b \o s)[j] = b[j] /\ j \in 1..Len(b \o s)
  BY <1>1
<1>3. InFrame(b \o s, sizes, j) /\ RestFollows(b \o s, sizes, j) /\ NextFollows(b \o s, sizes, j)
  BY <1>2 DEF Linked
<1>4. InFrame(b, sizes, j)
  BY <1>2, <1>3 DEF InFrame
<1>5. \A e : e \in Int /\ e >= 1 /\ e <= Len(b) => e <= Len(b \o s) /\ (b \o s)[e] = b[e]
  BY <1>1
<1>6. RestFollows(b, sizes, j)
  <2> SUFFICES ASSUME NEW m \in 1..(sizes[b[j][1]] - b[j][2]), j + m <= Len(b)
               PROVE  b[j + m] = <<b[j][1], b[j][2] + m>>
    BY DEF RestFollows
  <2>1. j + m \in Int /\ j + m >= 1
    OBVIOUS
  <2> QED
    BY <1>2, <1>3, <1>5, <2>1 DEF RestFollows
<1>7. NextFollows(b, sizes, j)
  <2>1. PICK x \in Nat : x = sizes[b[j][1]] - b[j][2]
    BY <1>4, LenProperties, ElementOfSeq DEF InFrame
  <2>2. j + x + 1 \in Int /\ j + x + 1 >= 1
    BY <2>1
  <2>3. j + x + 1 <= Len(b \o s) => (b \o s)[j + x + 1] = <<b[j][1] + 1, 1>>
    BY <1>2, <1>3, <2>1 DEF NextFollows
  <2>4. j + x + 1 <= Len(b) => b[j + x + 1] = <<b[j][1] + 1, 1>>
    BY <1>5, <2>2, <2>3
  <2> QED
    BY <2>1, <2>4 DEF NextFollows
<1> QED
  BY <1>4, <1>6, <1>7

-----------------------------------------------------------------------------
(* The operators of the model.                                             *)

(* The sizes of the frames: a length, and a text unless it is empty.       *)
LEMMA SizesUpFacts ==
  ASSUME said \in Seq(Lines)
  PROVE  /\ SizesUp \in Seq({HeaderSize, SizeDown}) /\ SizesUp \in Seq(Nat)
         /\ Len(SizesUp) = Len(said) /\ DOMAIN SizesUp = 1..Len(said)
         /\ \A i \in 1..Len(said) : SizesUp[i] = Size(said[i])
<1>1. HeaderSize \in Nat /\ SizeDown \in Nat
  BY ConversationAssumption DEF SizeDown
<1>2. DOMAIN said = 1..Len(said) /\ Len(said) \in Nat
  BY LenProperties
<1>3. SizesUp = [i \in 1..Len(said) |-> Size(said[i])]
  BY <1>2 DEF SizesUp
<1>4. \A i \in 1..Len(said) : Size(said[i]) \in {HeaderSize, SizeDown}
  BY <1>1 DEF Size, SizeDown
<1> QED
  BY <1>1, <1>2, <1>3, <1>4

(* To the client there are no empty texts.                                 *)
LEMMA SizesDownFacts ==
  ASSUME told \in Seq(Nat)
  PROVE  /\ SizesDown \in Seq({HeaderSize, SizeDown}) /\ SizesDown \in Seq(Nat)
         /\ Len(SizesDown) = Len(told) /\ DOMAIN SizesDown = 1..Len(told)
         /\ \A i \in 1..Len(told) : SizesDown[i] = SizeDown
<1>1. HeaderSize \in Nat /\ SizeDown \in Nat
  BY ConversationAssumption DEF SizeDown
<1>2. Len(told) \in Nat /\ DOMAIN told = 1..Len(told)
  BY LenProperties
<1>3. SizesDown = [i \in 1..Len(told) |-> SizeDown]
  BY <1>2 DEF SizesDown
<1> QED
  BY <1>1, <1>2, <1>3

(* A whole frame is recognised as the frame it is.                         *)
LEMMA FrameIsKnown ==
  ASSUME NEW sizes \in Seq({HeaderSize, SizeDown}), NEW i \in DOMAIN sizes
  PROVE  FrameIn(Cells(i, sizes[i]), sizes) = i
<1>1. \A j \in DOMAIN sizes : j \in Nat /\ sizes[j] \in Nat /\ 1 \in 1..sizes[j]
  BY ConversationAssumption, LenProperties, ElementOfSeq DEF SizeDown
<1>2. \A j \in DOMAIN sizes : Cells(j, sizes[j])[1] = <<j, 1>>
  BY <1>1, CellsFacts
<1>3. \A j \in DOMAIN sizes : Cells(i, sizes[i]) = Cells(j, sizes[j]) => i = j
  <2> SUFFICES ASSUME NEW j \in DOMAIN sizes, Cells(i, sizes[i]) = Cells(j, sizes[j])
               PROVE  i = j
    OBVIOUS
  <2>1. <<i, 1>> = <<j, 1>>
    BY <1>2
  <2> QED
    BY <2>1
<1> QED
  BY <1>3 DEF FrameIn

(* What is taken for a frame is one that was sent, or none.                *)
LEMMA FrameInTyped ==
  ASSUME NEW s, NEW sizes \in Seq(Nat)
  PROVE  FrameIn(s, sizes) \in 0..Len(sizes)
<1>1. DOMAIN sizes = 1..Len(sizes) /\ Len(sizes) \in Nat
  BY LenProperties
<1>2. CASE \E i \in DOMAIN sizes : s = Cells(i, sizes[i])
  <2>1. FrameIn(s, sizes) \in DOMAIN sizes
    BY <1>2 DEF FrameIn
  <2> QED
    BY <1>1, <2>1
<1>3. CASE ~ \E i \in DOMAIN sizes : s = Cells(i, sizes[i])
  BY <1>1, <1>3 DEF FrameIn
<1> QED
  BY <1>2, <1>3

(* The length at the beginning of a frame says how long the frame is.      *)
LEMMA LengthIsKnown ==
  ASSUME NEW sizes \in Seq(Nat), NEW i \in DOMAIN sizes
  PROVE  Announced(Cells(i, HeaderSize), sizes) = {sizes[i]}
<1>1. \A j \in DOMAIN sizes : j \in Nat
  BY LenProperties
<1>2. HeaderSize \in Nat /\ 1 \in 1..HeaderSize
  BY ConversationAssumption
<1>3. \A j \in DOMAIN sizes : Cells(j, HeaderSize)[1] = <<j, 1>>
  BY <1>1, <1>2, CellsFacts
<1>4. \A j \in DOMAIN sizes : Cells(i, HeaderSize) = Cells(j, HeaderSize) => i = j
  <2> SUFFICES ASSUME NEW j \in DOMAIN sizes, Cells(i, HeaderSize) = Cells(j, HeaderSize)
               PROVE  i = j
    OBVIOUS
  <2>1. <<i, 1>> = <<j, 1>>
    BY <1>3
  <2> QED
    BY <2>1
<1>5. {j \in DOMAIN sizes : Cells(i, HeaderSize) = Cells(j, HeaderSize)} = {i}
  BY <1>4
<1> QED
  BY <1>5 DEF Announced

(* Whatever is read as a length announces one of the frame sizes.          *)
LEMMA AnnouncedTyped ==
  ASSUME NEW s, NEW sizes \in Seq({HeaderSize, SizeDown})
  PROVE  Announced(s, sizes) \subseteq FrameSizes
<1>1. /\ HeaderSize \in Nat /\ MaxGarbage \in Nat
      /\ \A i \in DOMAIN sizes : sizes[i] \in {HeaderSize, SizeDown}
  BY ConversationAssumption, ElementOfSeq, LenProperties
<1>2. {HeaderSize, SizeDown} \subseteq FrameSizes
  BY <1>1 DEF FrameSizes, SizeDown
<1>3. HeaderSize..(HeaderSize + MaxGarbage) \subseteq FrameSizes
  BY <1>1 DEF FrameSizes
<1> QED
  BY <1>1, <1>2, <1>3 DEF Announced

(* What a history becomes, and that it goes on counting.                   *)
LEMMA RecordFacts ==
  ASSUME NEW n \in Nat, NEW history \in Seq(0..n), NEW i \in 0..n
  PROVE  Record(history, i) \in Seq(0..n)
BY AppendProperties DEF Record

(* A history that counts goes on counting with the next number.            *)
LEMMA RecordCounts ==
  ASSUME NEW history \in Seq(Nat), history = Natural(Len(history))
  PROVE  /\ Record(history, Len(history) + 1) = Natural(Len(history) + 1)
         /\ Len(Record(history, Len(history) + 1)) = Len(history) + 1
<1> DEFINE n == Len(history)
<1>1. n \in Nat /\ \A k \in 1..n : history[k] = k
  BY LenProperties DEF Natural
<1>2. history # <<>> => history[n] # 0
  <2>1. history # <<>> => n \in 1..n
    BY EmptySeq, LenProperties
  <2> QED
    BY <1>1, <2>1
<1>3. Record(history, n + 1) = Append(history, n + 1)
  BY <1>2 DEF Record
<1>4. /\ Append(history, n + 1) \in Seq(Nat)
      /\ Len(Append(history, n + 1)) = n + 1
      /\ \A k \in 1..(n + 1) : Append(history, n + 1)[k] = k
  BY <1>1, AppendProperties
<1>5. /\ Natural(n + 1) \in Seq(Nat) /\ Len(Natural(n + 1)) = n + 1
      /\ \A k \in 1..(n + 1) : Natural(n + 1)[k] = k
  BY <1>1 DEF Natural
<1>6. Append(history, n + 1) = Natural(n + 1)
  <2>1. /\ Len(Append(history, n + 1)) = Len(Natural(n + 1))
        /\ \A k \in 1..Len(Append(history, n + 1)) : Append(history, n + 1)[k] = Natural(n + 1)[k]
    BY <1>4, <1>5
  <2> QED
    BY <1>4, <1>5, <2>1, SeqEqual
<1> QED
  BY <1>3, <1>4, <1>6

-----------------------------------------------------------------------------
(* What handle_message answers.                                            *)

(* Whatever the words, the number of slashes and the rights: a message     *)
(* before the login, and a message that starts with a slash, is answered   *)
(* (handle_message, its tables, and execute_command).                      *)
LEMMA OnlyChatIsUnanswered ==
  ASSUME NEW r, NEW m, NEW o \in Outcomes(r, m),
         r = "nobody" \/ m.slashes # 0
  PROVE  o.answers \in Nat \ {0}
<1>1. ASSUME NEW n \in Nat, NEW e
      PROVE  Outcome(n, e).answers = n
  BY DEF Outcome
<1>2. \A x \in Answered : x.answers = 1
  BY <1>1 DEF Answered
<1>3. \A x \in Anonymous(m) : x.answers = 1
  BY <1>1, <1>2 DEF Anonymous
<1>4. \A key, n : \A x \in UserCommand(key, n) : x.answers \in {1, 2}
  BY <1>1, <1>2 DEF UserCommand
<1>5. \A n : \A x \in AdminCommand(n) : x.answers \in {1, 2}
  BY <1>1, <1>2 DEF AdminCommand
<1>6. \A x \in Dispatch(r, m) : x.answers \in {1, 2}
  <2>1. Lua(m).broadcasts \in {0, 1} /\ ~Lua(m).handled
    BY DEF Lua, Script
  <2>2. Lua(m).broadcasts + (IF Lua(m).handled THEN 0 ELSE 1) \in {1, 2}
    BY <2>1
  <2> QED
    BY <1>1, <1>2, <1>4, <1>5, <2>2 DEF Dispatch
<1> QED
  BY <1>3, <1>6 DEF Outcomes

(* An outcome counts frames.                                               *)
LEMMA OutcomesTyped ==
  ASSUME NEW r, NEW m, NEW o \in Outcomes(r, m)
  PROVE  o.answers \in Nat
<1>1. CASE r = "nobody" \/ m.slashes # 0
  BY <1>1, OnlyChatIsUnanswered
<1>2. CASE r # "nobody" /\ m.slashes = 0
  BY <1>2 DEF Outcomes, Outcome
<1> QED
  BY <1>1, <1>2

-----------------------------------------------------------------------------
(* What a step leaves alone.                                               *)

(* The stream to the server, if no end of it moves.                        *)
LEMMA UpKept ==
  ASSUME UpInv, Up' = Up, UNCHANGED <<said, handled>>,
         lost => lost', sock = "closed" => sock' = "closed",
         upEnd = "reset" => upEnd' = "reset"
  PROVE  UpInv'
BY DEF UpInv, SizesUp, Linked, InFrame, RestFollows, NextFollows

(* The stream to the client, if no end of it moves.                        *)
LEMMA DownKept ==
  ASSUME DownInv, Down' = Down, UNCHANGED <<printed, told, left, expect>>,
         unsent = "part" => unsent' = "part", Streaming' => Streaming
  PROVE  DownInv'
BY DEF DownInv, SizesDown, Sent, Linked, InFrame, RestFollows, NextFollows

(* Cells added at the back of a half are added at the back of the stream.  *)
LEMMA UpExtended ==
  ASSUME Typed, NEW c \in Seq(Cell), upNet' = upNet \o c, upBuf' = upBuf
  PROVE  Up' = Up \o c
<1>1. upBuf \in Seq(Cell) /\ upNet \in Seq(Cell)
  BY DEF Typed
<1>2. Associate(upBuf, upNet, c)
  BY <1>1, PartsAssociate, Zenon
<1> QED
  BY <1>2 DEF Up, Associate

(* Likewise to the client.                                                 *)
LEMMA DownExtended ==
  ASSUME Typed, NEW c \in Seq(Cell), down' = down \o c, part' = part
  PROVE  Down' = Down \o c
<1>1. part \in Seq(Cell) /\ down \in Seq(Cell)
  BY DEF Typed
<1>2. Associate(part, down, c)
  BY <1>1, PartsAssociate, Zenon
<1> QED
  BY <1>2 DEF Down, Associate

(* The frame in front of the outbox.                                       *)
LEMMA BegunKept ==
  ASSUME BegunInv, UNCHANGED <<left, told, outbox>>
  PROVE  BegunInv'
BY DEF BegunInv

(* The answers, if none is given or taken away.                            *)
LEMMA AnswerKept ==
  ASSUME AnswerInv, UNCHANGED <<said, handled, told, outbox>>,
         Disturbed => Disturbed', Released => Released'
  PROVE  AnswerInv'
BY DEF AnswerInv, ToldOrToTell

(* Before the frames are counted, all the server has to say is the outbox. *)
LEMMA OutboxEmpty ==
  ASSUME BegunInv, outbox = <<>>
  PROVE  left = SizeDown
BY DEF BegunInv

(* A step that moves no cell and begins, finishes or adds no frame.        *)
LEMMA NothingMoves ==
  ASSUME ConvInv,
         UNCHANGED <<said, part, expect, printed, upNet, upBuf, down, lost>>,
         UNCHANGED <<rights, handled, outbox, left, told, unsent>>,
         typing' \in {"typing", "leaving", "joining", "exited"},
         recving' \in {"on", "last", "returned"},
         sock' \in {"open", "expelled", "doomed", "closed"},
         at' \in {"wait", "peek"}, edge' \in BOOLEAN,
         upEnd' \in {"open", "fin", "reset"}, upEnd = "reset" <=> upEnd' = "reset",
         sock = "closed" <=> sock' = "closed", Released => Released', ClosedInv'
  PROVE  ConvInv'
<1> USE DEF ConvInv
<1>1. Typed'
  BY DEF Typed, ConversationTypeOK
<1>2. UpInv'
  BY UpKept DEF Up
<1>3. DownInv'
  BY DownKept DEF Down, Streaming
<1>4. BegunInv' /\ AnswerInv'
  BY BegunKept, AnswerKept DEF Disturbed
<1> QED
  BY <1>1, <1>2, <1>3, <1>4 DEF HandledInOrder, PrintedInOrder, Natural

(* The steps of which that is true.                                        *)
LEMMA QuietSteps ==
  ASSUME ConvInv,
         \/ StopTyping \/ CloseSocket \/ Join \/ RecvEnd \/ ArriveFin
         \/ Wake \/ PeekNothing \/ PeekEnd \/ PeekShort \/ Expel
         \/ UNCHANGED vars
  PROVE  ConvInv'
<1>0. Typed /\ ConversationTypeOK /\ ClosedInv
  BY DEF ConvInv, Typed
<1> USE DEF clientVars, netVars, loopVars, sendVars
<1>1. CASE StopTyping
  BY <1>0, <1>1, NothingMoves DEF StopTyping, Released, ClosedInv, ConversationTypeOK
<1>2. CASE CloseSocket
  BY <1>0, <1>2, NothingMoves DEF CloseSocket, Released, ClosedInv, ConversationTypeOK
<1>3. CASE Join
  BY <1>0, <1>3, NothingMoves DEF Join, Released, ClosedInv, ConversationTypeOK
<1>4. CASE RecvEnd
  BY <1>0, <1>4, NothingMoves DEF RecvEnd, Released, ClosedInv, ConversationTypeOK
<1>5. CASE ArriveFin
  BY <1>0, <1>5, NothingMoves DEF ArriveFin, Released, ClosedInv, ConversationTypeOK
<1>6. CASE Wake
  BY <1>0, <1>6, NothingMoves DEF Wake, Idle, Released, ClosedInv, ConversationTypeOK
<1>7. CASE PeekNothing
  BY <1>0, <1>7, NothingMoves
     DEF PeekNothing, Peeking, LeaveRecvLoop, Released, ClosedInv, ConversationTypeOK
<1>8. CASE PeekEnd
  BY <1>0, <1>8, NothingMoves
     DEF PeekEnd, Peeking, LeaveRecvLoop, Released, ClosedInv, ConversationTypeOK
<1>9. CASE PeekShort
  BY <1>0, <1>9, NothingMoves
     DEF PeekShort, Peeking, LeaveRecvLoop, Released, ClosedInv, ConversationTypeOK
<1>10. CASE Expel
  BY <1>0, <1>10, NothingMoves DEF Expel, Idle, Released, ClosedInv, ConversationTypeOK
<1>11. CASE UNCHANGED vars
  BY <1>0, <1>11, NothingMoves DEF vars, Released, ClosedInv, ConversationTypeOK
<1> QED
  BY <1>1, <1>2, <1>3, <1>4, <1>5, <1>6, <1>7, <1>8, <1>9, <1>10, <1>11

(* A reset at most takes what has not been received.                       *)
LEMMA ResetKept ==
  ASSUME Typed, DownInv, Reset, UNCHANGED <<part, printed, told, expect>>,
         unsent = "part" => unsent' = "part", ~Streaming'
  PROVE  DownInv'
<1>1. CASE down' = down
  BY <1>1 DEF DownInv, Down, SizesDown, Linked, InFrame, RestFollows, NextFollows
<1>2. CASE down' = <<>>
  <2>1. part \in Seq(Cell) /\ down \in Seq(Cell) /\ SizesDown \in Seq(Nat)
    <3>1. told \in Seq(Nat)
      BY LenProperties DEF Typed
    <3> QED
      BY <3>1, SizesDownFacts DEF Typed
  <2>2. part \o down' = part
    BY <1>2, <2>1, ConcatEmptySeq
  <2>3. Linked(Down, SizesDown) => Linked(part, SizesDown)
    BY <2>1, LinkedFirst DEF Down
  <2>4. part # <<>> => Down # <<>> /\ Down[1] = part[1]
    BY <2>1 DEF Down
  <2> QED
    <3>1. Down' = part /\ SizesDown' = SizesDown
      BY <2>2 DEF Down, SizesDown
    <3> QED
      BY <3>1, <2>3, <2>4 DEF DownInv
<1> QED
  BY <1>1, <1>2 DEF Reset

(* What a reset leaves.                                                    *)
LEMMA ResetTyped ==
  ASSUME Typed, Reset
  PROVE  down' \in Seq(Cell) /\ Len(down') <= Capacity
<1>1. <<>> \in Seq(Cell) /\ Len(<<>>) = 0
  OBVIOUS
<1>2. Capacity \in Nat /\ 0 <= Capacity
  BY ConversationAssumption
<1>3. down \in Seq(Cell) /\ Len(down) <= Capacity
  BY DEF Typed, ConversationTypeOK
<1> QED
  BY <1>1, <1>2, <1>3 DEF Reset

(* The client's kernel gives the connection up: the end of the stream to   *)
(* the server is lost, and all of the other.                               *)
LEMMA ArriveResetStep ==
  ASSUME ConvInv, ArriveReset
  PROVE  ConvInv'
<1> USE DEF ConvInv, clientVars, loopVars, sendVars
<1>0. Typed /\ ConversationTypeOK
  BY DEF Typed
<1>1. /\ Released /\ sock # "closed"
      /\ upEnd' = "reset" /\ edge' = TRUE /\ upNet' = <<>> /\ down' = <<>>
      /\ UNCHANGED <<upBuf, said, typing, recving, part, expect, printed>>
      /\ UNCHANGED <<sock, rights, at, handled, lost, outbox, left, told, unsent>>
  BY DEF ArriveReset
<1>2. Typed'
  <2>1. down' \in Seq(Cell) /\ Len(down') <= Capacity
    BY <1>0, <1>1, ResetTyped DEF Reset
  <2> QED
    BY <1>0, <1>1, <2>1 DEF Typed, ConversationTypeOK
<1>3. UpInv'
  <2> SUFFICES ASSUME ~lost
               PROVE  /\ Linked(Up', SizesUp)
                      /\ Up' # <<>> => Up'[1] = <<Len(handled) + 1, 1>>
    BY <1>1 DEF UpInv, SizesUp
  <2>1. upBuf \in Seq(Cell) /\ upNet \in Seq(Cell) /\ SizesUp \in Seq(Nat)
    BY <1>0, SizesUpFacts DEF Typed, ConversationTypeOK
  <2>2. Up' = upBuf
    BY <1>1, <2>1, ConcatEmptySeq DEF Up
  <2>3. Linked(upBuf, SizesUp)
    BY <1>1, <2>1, LinkedFirst DEF UpInv, Up
  <2>4. upBuf # <<>> => Up # <<>> /\ Up[1] = upBuf[1]
    BY <2>1 DEF Up
  <2> QED
    BY <1>1, <2>2, <2>3, <2>4 DEF UpInv
<1>4. DownInv'
  BY <1>0, <1>1, ResetKept DEF Reset, Streaming
<1>5. BegunInv' /\ AnswerInv' /\ ClosedInv'
  BY <1>1, BegunKept, AnswerKept DEF Disturbed, Released, ClosedInv
<1> QED
  BY <1>1, <1>2, <1>3, <1>4, <1>5 DEF HandledInOrder, PrintedInOrder, Natural

(* What is taken from the receive buffer and dropped, and a descriptor     *)
(* that is closed: nothing is promised of that stream any more.            *)
LEMMA DroppingSteps ==
  ASSUME ConvInv, TakePart \/ Sweep
  PROVE  ConvInv'
<1>0. Typed /\ ConversationTypeOK
  BY DEF ConvInv, Typed
<1> USE DEF clientVars, netVars, loopVars, sendVars
<1>1. CASE TakePart
  <2> USE <1>1 DEF TakePart, LeaveRecvLoop, ConvInv
  <2>1. Typed'
    BY <1>0 DEF Typed, ConversationTypeOK
  <2>2. DownInv'
    BY DownKept DEF Down, Streaming, Released
  <2>3. BegunInv'
    BY BegunKept
  <2> QED
    BY <2>1, <2>2, <2>3 DEF UpInv, ClosedInv, AnswerInv, Disturbed, HandledInOrder,
       PrintedInOrder, Natural, Peeked, Peeking, Released
<1>2. CASE Sweep
  <2> USE <1>2 DEF Sweep, ConvInv
  <2>1. Typed'
    <3>1. Len(down') <= Capacity /\ down' \in Seq(Cell) /\ upBuf' \in Seq(Cell)
      <4>1. Reset /\ upBuf' = <<>>
        BY DEF Reset
      <4> QED
        BY <1>0, <4>1, ResetTyped
    <3> QED
      BY <1>0, <3>1 DEF Typed, ConversationTypeOK
  <2>2. DownInv'
    BY ResetKept DEF Reset, Streaming
  <2>3. BegunInv' /\ AnswerInv'
    BY BegunKept, AnswerKept DEF Disturbed, Released
  <2> QED
    BY <2>1, <2>2, <2>3
       DEF UpInv, ClosedInv, Idle, HandledInOrder, PrintedInOrder, Natural, Released
<1> QED
  BY <1>1, <1>2

(* Cells arrive at the server, or find it closed.                          *)
LEMMA ArriveStep ==
  ASSUME ConvInv, Arrive
  PROVE  ConvInv'
<1> USE DEF ConvInv, clientVars, loopVars, sendVars
<1>0. Typed /\ ConversationTypeOK
  BY DEF Typed
<1>1. PICK k \in 1..Len(upNet) :
        /\ upNet' = After(upNet, k)
        /\ IF sock = "closed"
           THEN Reset /\ UNCHANGED <<upBuf, edge>>
           ELSE upBuf' = upBuf \o First(upNet, k) /\ edge' = TRUE /\ UNCHANGED down
  BY DEF Arrive
<1>2. /\ UNCHANGED <<upEnd, said, typing, recving, part, expect, printed>>
      /\ UNCHANGED <<sock, rights, at, handled, lost, outbox, left, told, unsent>>
  BY DEF Arrive
<1>3. /\ upNet \in Seq(Cell) /\ upBuf \in Seq(Cell) /\ k \in 0..Len(upNet)
      /\ First(upNet, k) \in Seq(Cell) /\ upNet' \in Seq(Cell)
  <2>1. upNet \in Seq(Cell) /\ upBuf \in Seq(Cell) /\ k \in 0..Len(upNet)
    BY LenProperties DEF Typed
  <2> QED
    BY <1>1, <2>1, FirstFacts, AfterFacts
<1>4. /\ ClosedInv' /\ HandledInOrder' /\ PrintedInOrder' /\ BegunInv' /\ AnswerInv'
  BY <1>2, BegunKept, AnswerKept
     DEF ClosedInv, HandledInOrder, PrintedInOrder, Natural, Disturbed, Released
<1>5. CASE sock = "closed"
  <2>1. down' \in Seq(Cell) /\ Len(down') <= Capacity
    BY <1>0, <1>1, <1>5, ResetTyped
  <2>2. Typed'
    BY <1>0, <1>1, <1>2, <1>3, <1>5, <2>1 DEF Typed, ConversationTypeOK
  <2>3. DownInv'
    BY <1>1, <1>2, <1>5, ResetKept DEF Streaming
  <2>4. UpInv'
    BY <1>2, <1>5 DEF UpInv
  <2> QED
    BY <1>4, <2>2, <2>3, <2>4
<1>6. CASE sock # "closed"
  <2>1. Up' = Up
    BY <1>1, <1>3, <1>6, Regrouped DEF Up
  <2>2. upBuf' \in Seq(Cell)
    BY <1>1, <1>3, <1>6, ConcatProperties
  <2>3. Typed'
    BY <1>0, <1>1, <1>2, <1>3, <1>6, <2>2 DEF Typed, ConversationTypeOK
  <2>4. UpInv'
    BY <1>2, <2>1, UpKept
  <2>5. DownInv'
    BY <1>1, <1>2, <1>6, DownKept DEF Down, Streaming, Released
  <2> QED
    BY <1>4, <2>3, <2>4, <2>5
<1> QED
  BY <1>5, <1>6

(* What is left of the outbox.                                             *)
LEMMA TailFacts ==
  ASSUME NEW S, NEW s \in Seq(S), s # <<>>
  PROVE  /\ Tail(s) \in Seq(S) /\ Head(s) \in S
         /\ \A k \in DOMAIN s : s[k] = Head(s) \/ \E j \in DOMAIN Tail(s) : s[k] = Tail(s)[j]
<1>1. Tail(s) \in Seq(S) /\ Len(Tail(s)) = Len(s) - 1 /\ Len(s) \in Nat /\ Len(s) >= 1
  BY HeadTailProperties, EmptySeq, LenProperties
<1>2. \A j \in 1..(Len(s) - 1) : Tail(s)[j] = s[j + 1]
  BY HeadTailProperties
<1>3. Head(s) = s[1] /\ s[1] \in S
  BY <1>1, ElementOfSeq
<1>4. ASSUME NEW k \in DOMAIN s, k # 1
      PROVE  \E j \in DOMAIN Tail(s) : s[k] = Tail(s)[j]
  <2>1. k \in 1..Len(s) /\ DOMAIN Tail(s) = 1..(Len(s) - 1)
    BY <1>1, LenProperties
  <2>2. k - 1 \in 1..(Len(s) - 1) /\ (k - 1) + 1 = k
    BY <1>1, <1>4, <2>1
  <2> QED
    BY <1>2, <2>1, <2>2
<1> QED
  BY <1>1, <1>3, <1>4

(* A frame that is given up, because nothing fits or nobody is there.      *)
LEMMA SendFailsStep ==
  ASSUME ConvInv, SendFails
  PROVE  ConvInv'
<1> USE DEF ConvInv, clientVars, netVars, loopVars, NextFrame
<1>0. Typed /\ ConversationTypeOK
  BY DEF Typed
<1>1. /\ outbox # <<>> /\ outbox' = Tail(outbox) /\ left' = SizeDown
      /\ UNCHANGED <<said, typing, recving, part, expect, printed>>
      /\ UNCHANGED <<upNet, upBuf, upEnd, edge, sock, rights, at, handled, lost, told>>
  BY DEF SendFails
<1>2. outbox' \in Seq(0..Len(said)) /\ left' \in 1..SizeDown
  BY <1>0, <1>1, TailFacts, ConversationAssumption DEF Typed, SizeDown
<1>3. \A k \in DOMAIN outbox' : outbox'[k] \in 0..Len(said)
  BY <1>2, ElementOfSeq, LenProperties
<1>4. UpInv' /\ ClosedInv' /\ BegunInv' /\ HandledInOrder'
  BY <1>1, UpKept DEF Up, ClosedInv, BegunInv, HandledInOrder, Natural, Released
<1>5. down' = down /\ unsent' = IF left < SizeDown \/ unsent = "part" THEN "part" ELSE "whole"
  BY DEF SendFails
<1>6. Typed'
  BY <1>0, <1>1, <1>2, <1>3, <1>5 DEF Typed, ConversationTypeOK
<1>7. unsent' # "part" => unsent # "part" /\ left = SizeDown
  <2>1. left \in Nat /\ SizeDown \in Nat /\ left <= SizeDown
    BY <1>0, ConversationAssumption DEF ConversationTypeOK, SizeDown
  <2> QED
    BY <1>5, <2>1
<1>8. DownInv'
  <2>1. CASE unsent' # "part"
    BY <1>1, <1>5, <1>7, <2>1, DownKept DEF Down, Streaming
  <2>2. CASE unsent' = "part"
    BY <2>2 DEF DownInv
  <2> QED
    BY <2>1, <2>2
<1>9. PrintedInOrder' /\ AnswerInv'
  BY <1>1, <1>5 DEF PrintedInOrder, Natural, AnswerInv, Disturbed
<1> QED
  BY <1>4, <1>6, <1>8, <1>9

(* A frame of others is put into the outbox.                               *)
LEMMA OthersStep ==
  ASSUME ConvInv, Others
  PROVE  ConvInv'
<1> USE DEF ConvInv, clientVars, netVars, loopVars
<1>0. Typed /\ ConversationTypeOK
  BY DEF Typed
<1>1. /\ outbox = <<>> /\ sock # "closed" /\ outbox' = outbox \o [k \in 1..1 |-> 0]
      /\ UNCHANGED <<left, told, unsent, upNet, upBuf, upEnd, edge, down>>
      /\ UNCHANGED <<said, typing, recving, part, expect, printed>>
      /\ UNCHANGED <<sock, rights, at, handled, lost>>
  BY DEF Others, Idle, Send
<1>2. outbox' \in Seq(0..Len(said)) /\ \A k \in DOMAIN outbox' : outbox'[k] \in 0..Len(said)
  <2>1. Len(said) \in Nat
    BY <1>0, LenProperties DEF ConversationTypeOK
  <2>2. [k \in 1..1 |-> 0] \in Seq(0..Len(said)) /\ outbox \in Seq(0..Len(said))
    BY <1>0, <2>1 DEF Typed
  <2>3. outbox' \in Seq(0..Len(said))
    BY <1>1, <2>2, ConcatProperties
  <2> QED
    BY <2>3, ElementOfSeq, LenProperties
<1>3. Typed'
  BY <1>0, <1>1, <1>2 DEF Typed, ConversationTypeOK
<1>4. UpInv' /\ DownInv' /\ ClosedInv' /\ HandledInOrder' /\ PrintedInOrder'
  BY <1>1, UpKept, DownKept
     DEF Up, Down, Streaming, Released, ClosedInv, HandledInOrder, PrintedInOrder, Natural
<1>5. BegunInv'
  BY <1>1, OutboxEmpty DEF BegunInv
<1>6. AnswerInv'
  BY <1>1 DEF AnswerInv, ToldOrToTell, Disturbed, Released
<1> QED
  BY <1>3, <1>4, <1>5, <1>6

(* No more is handled than was said.                                       *)
LEMMA HandledWasSaid ==
  ASSUME Typed, HandledInOrder, ~lost
  PROVE  Len(handled) <= Len(said)
<1>1. /\ handled \in Seq(0..Len(said)) /\ Len(handled) \in Nat /\ Len(said) \in Nat
      /\ handled = Natural(Len(handled))
  BY LenProperties DEF Typed, ConversationTypeOK, HandledInOrder
<1>2. CASE Len(handled) = 0
  BY <1>1, <1>2
<1>3. CASE Len(handled) # 0
  <2>1. Len(handled) \in 1..Len(handled)
    BY <1>1, <1>3
  <2>2. handled[Len(handled)] = Len(handled)
    BY <1>1, <2>1 DEF Natural
  <2>3. handled[Len(handled)] \in 0..Len(said)
    BY <1>1, <2>1, ElementOfSeq
  <2> QED
    BY <1>1, <2>2, <2>3
<1> QED
  BY <1>2, <1>3

(* A frame is added at the back of the stream to the server.               *)
LEMMA TypeLineStep ==
  ASSUME ConvInv, NEW m \in Lines, TypeLine(m)
  PROVE  ConvInv'
<1> USE DEF ConvInv, loopVars, sendVars
<1>0. Typed /\ ConversationTypeOK
  BY DEF Typed
<1> DEFINE n == Len(said) + 1
           c == Cells(n, Size(m))
<1>1. /\ said' = Append(said, m) /\ upNet' = upNet \o c /\ Len(said) < MaxSaid
      /\ typing = "typing" /\ typing' \in {"leaving", "typing"}
      /\ UNCHANGED <<recving, part, expect, printed, upBuf, upEnd, edge, down>>
      /\ UNCHANGED <<sock, rights, at, handled, lost, outbox, left, told, unsent>>
  BY DEF TypeLine
<1>2. /\ said \in Seq(Lines) /\ Len(said) \in Nat /\ n \in Nat /\ n = Len(said) + 1
      /\ Size(m) \in Nat /\ Size(m) >= 1
      /\ said' \in Seq(Lines) /\ Len(said') = n
      /\ \A i \in 1..Len(said) : said'[i] = said[i]
      /\ said'[n] = m
  <2>1. said \in Seq(Lines) /\ Len(said) \in Nat
    BY <1>0, LenProperties DEF ConversationTypeOK
  <2>2. Size(m) \in Nat /\ Size(m) >= 1
    BY ConversationAssumption DEF Size
  <2> QED
    BY <1>1, <2>1, <2>2, AppendProperties
<1>3. c \in Seq(Cell) /\ Len(c) = Size(m) /\ \A k \in 1..Size(m) : c[k] = <<n, k>>
  BY <1>2, CellsFacts
<1>4. /\ Len(said') <= MaxSaid
      /\ \A s \in {handled', outbox', told'} : s \in Seq(0..Len(said'))
      /\ upNet' \in Seq(Cell)
  <2>1. n <= MaxSaid
    BY <1>1, <1>2, ConversationAssumption
  <2>2. \A s \in Seq(0..Len(said)) : s \in Seq(0..n)
    BY <1>2
  <2>3. upNet \in Seq(Cell) /\ {handled, outbox, told} \subseteq Seq(0..Len(said))
    BY <1>0 DEF Typed
  <2> QED
    BY <1>1, <1>2, <1>3, <2>1, <2>2, <2>3, ConcatProperties
<1>5. \A s \in {handled', outbox', told'} : \A k \in DOMAIN s : s[k] \in 0..Len(said')
  BY <1>4, ElementOfSeq, LenProperties
<1>6. Typed'
  BY <1>0, <1>1, <1>2, <1>4, <1>5 DEF Typed, ConversationTypeOK
<1>7. DownInv' /\ ClosedInv' /\ BegunInv' /\ HandledInOrder' /\ PrintedInOrder'
  BY <1>1, DownKept, BegunKept
     DEF Down, Streaming, Released, ClosedInv, HandledInOrder, PrintedInOrder, Natural
<1>8. AnswerInv'
  <2>1. ASSUME ~lost PROVE \A i \in 1..Len(handled) : said'[i] = said[i]
    <3>1. Len(handled) <= Len(said) /\ Len(handled) \in Nat
      BY <1>0, <2>1, HandledWasSaid, LenProperties DEF Typed
    <3> QED
      BY <1>2, <3>1
  <2>2. ToldOrToTell' = ToldOrToTell
    BY <1>1 DEF ToldOrToTell
  <2> QED
    BY <1>1, <2>1, <2>2 DEF AnswerInv, Disturbed, Released
<1>9. UpInv'
  <2>0. upEnd # "reset"
    BY <1>1 DEF ClosedInv, Released
  <2> SUFFICES ASSUME ~lost, sock # "closed"
               PROVE  /\ Linked(Up', SizesUp')
                      /\ Up' # <<>>
                      /\ Up'[1] = <<Len(handled) + 1, 1>>
                      /\ Up'[Len(Up')] = <<n, SizesUp'[n]>>
    BY <1>1, <1>2 DEF UpInv
  <2> HIDE DEF c, n
  <2>1. Up \in Seq(Cell) /\ upBuf \in Seq(Cell) /\ upNet \in Seq(Cell) /\ Len(Up) \in Nat
    BY <1>0, ConcatProperties, LenProperties DEF Up, Typed
  <2>2. Up' = Up \o c
    BY <1>0, <1>1, <1>3, UpExtended
  <2>3. /\ Linked(Up, SizesUp)
        /\ Up = <<>> => Len(handled) = Len(said)
        /\ Up # <<>> => /\ Up[1] = <<Len(handled) + 1, 1>>
                        /\ Up[Len(Up)] = <<Len(said), SizesUp[Len(said)]>>
    BY <2>0 DEF UpInv
  <2>4. /\ DOMAIN SizesUp = 1..Len(said) /\ SizesUp \in Seq(Nat)
        /\ DOMAIN SizesUp' = 1..n /\ SizesUp' \in Seq(Nat)
        /\ \A i \in 1..Len(said) : SizesUp'[i] = SizesUp[i]
        /\ SizesUp'[n] = Size(m)
    <3>1. /\ DOMAIN SizesUp = 1..Len(said) /\ SizesUp \in Seq(Nat)
          /\ \A i \in 1..Len(said) : SizesUp[i] = Size(said[i])
      BY <1>2, SizesUpFacts
    <3>2. SizesUp' = [i \in 1..n |-> Size(said'[i])]
      BY <1>2, LenProperties DEF SizesUp
    <3>3. \A i \in 1..n : Size(said'[i]) \in Nat
      BY <1>2, ElementOfSeq, ConversationAssumption DEF Size
    <3> QED
      BY <1>2, <3>1, <3>2, <3>3
  <2>5. Linked(Up, SizesUp')
    <3>1. DOMAIN SizesUp \subseteq DOMAIN SizesUp'
      BY <1>2, <2>4
    <3>2. \A i \in DOMAIN SizesUp : SizesUp'[i] = SizesUp[i]
      BY <2>4
    <3> QED
      BY <2>1, <2>3, <3>1, <3>2, LinkedMoreSizes
  <2>6. Up # <<>> => Up[Len(Up)] = <<n - 1, SizesUp'[n - 1]>> /\ n - 1 \in DOMAIN SizesUp'
    <3>1. Up # <<>> => Len(said) \in 1..Len(said)
      <4>1. Up # <<>> => Len(Up) \in 1..Len(Up)
        BY <2>1, EmptySeq
      <4>2. Up # <<>> => InFrame(Up, SizesUp, Len(Up))
        BY <2>3, <4>1 DEF Linked
      <4> QED
        BY <2>3, <2>4, <4>2 DEF InFrame
    <3> QED
      BY <1>2, <2>3, <2>4, <3>1
  <2>7. Linked(Up \o c, SizesUp')
    <3>1. n \in DOMAIN SizesUp' /\ 0 \in Nat /\ Continues(c, SizesUp', n, 0)
      <4>1. n \in 1..n /\ 0 + Len(c) = Size(m) /\ Size(m) <= Size(m)
        BY <1>2, <1>3
      <4>2. \A j \in 1..Len(c) : c[j] = <<n, j>> /\ 0 + j = j
        BY <1>3
      <4> QED
        BY <2>4, <4>1, <4>2 DEF Continues
    <3>2. EndsAt(Up, SizesUp', n, 0)
      BY <2>6 DEF EndsAt
    <3> QED
      BY <1>3, <2>1, <2>4, <2>5, <3>1, <3>2, LinkedExtended
  <2>8. /\ Len(Up \o c) = Len(Up) + Size(m)
        /\ \A k \in 1..Len(Up) : (Up \o c)[k] = Up[k]
        /\ \A k \in 1..Size(m) : (Up \o c)[Len(Up) + k] = <<n, k>>
    <3>1. /\ Len(Up \o c) = Len(Up) + Len(c)
          /\ \A k \in 1..Len(Up) : (Up \o c)[k] = Up[k]
          /\ \A k \in 1..Len(c) : (Up \o c)[Len(Up) + k] = c[k]
      <4>1. Up \in Seq(Cell) /\ c \in Seq(Cell)
        BY <1>3, <2>1
      <4> QED
        BY <4>1, ConcatFacts
    <3> QED
      BY <1>3, <3>1
  <2>9. (Up \o c)[Len(Up) + Size(m)] = <<n, Size(m)>>
    BY <1>2, <2>8
  <2>10. (Up \o c)[1] = <<Len(handled) + 1, 1>>
    <3>1. CASE Up = <<>>
      <4>1. Len(Up) = 0 /\ 0 + 1 = 1 /\ 1 \in 1..Size(m) /\ Len(handled) + 1 = n
        BY <1>2, <2>3, <3>1
      <4> QED
        BY <2>8, <4>1
    <3>2. CASE Up # <<>>
      <4>1. 1 \in 1..Len(Up)
        BY <2>1, <3>2, EmptySeq
      <4> QED
        BY <2>3, <2>8, <3>2, <4>1
    <3> QED
      BY <3>1, <3>2
  <2> QED
    BY <1>2, <2>1, <2>2, <2>4, <2>7, <2>8, <2>9, <2>10, EmptySeq
<1> QED
  BY <1>6, <1>7, <1>8, <1>9

(* Cells are added at the back of the stream to the client: of the frame   *)
(* begun before, or of the next one.                                       *)
LEMMA SendSomeStep ==
  ASSUME ConvInv, SendSome
  PROVE  ConvInv'
<1> USE DEF ConvInv, clientVars, loopVars
<1>0. Typed /\ ConversationTypeOK
  BY DEF Typed
<1> DEFINE k == Least(Capacity - Len(down), left)
           h == SizeDown - left
           T == Len(told')
           c == First(After(Cells(T, SizeDown), h), k)
<1>1. /\ outbox # <<>> /\ upEnd # "reset" /\ Len(down) < Capacity
      /\ told' = Begun /\ down' = down \o c
      /\ IF k = left THEN NextFrame ELSE left' = left - k /\ UNCHANGED outbox
      /\ UNCHANGED <<unsent, upNet, upBuf, upEnd, edge>>
      /\ UNCHANGED <<said, typing, recving, part, expect, printed>>
      /\ UNCHANGED <<sock, rights, at, handled, lost>>
  BY DEF SendSome
<1>2. sock # "closed" /\ sock' # "closed" /\ Streaming /\ Streaming'
  BY <1>1 DEF ClosedInv, Streaming
<1>3. /\ k \in Nat /\ h \in Nat /\ SizeDown \in Nat /\ left \in Nat /\ left >= 1
      /\ k >= 1 /\ k <= left /\ h + left = SizeDown /\ k <= SizeDown - h
      /\ Len(down) \in Nat /\ Len(down) + k <= Capacity
      /\ h = 0 <=> left = SizeDown
  <2>1. left \in 1..SizeDown /\ SizeDown \in Nat /\ Len(down) \in Nat /\ Capacity \in Nat
    BY <1>0, ConversationAssumption, LenProperties DEF ConversationTypeOK, Typed, SizeDown
  <2>2. \/ k = Capacity - Len(down) /\ k <= left
        \/ k = left /\ k <= Capacity - Len(down)
    BY <2>1 DEF Least
  <2> HIDE DEF k
  <2> QED
    BY <1>1, <2>1, <2>2
<1>4. /\ told \in Seq(0..Len(said)) /\ told' \in Seq(0..Len(said))
      /\ Len(told) \in Nat /\ T \in Nat /\ T >= 1
      /\ T = IF h = 0 THEN Len(told) + 1 ELSE Len(told)
      /\ \A i \in 1..Len(told) : told'[i] = told[i]
      /\ told'[T] = Head(outbox)
      /\ h # 0 => told' = told
  <2>1. /\ told \in Seq(0..Len(said)) /\ Head(outbox) \in 0..Len(said) /\ Len(told) \in Nat
    BY <1>0, <1>1, TailFacts, LenProperties DEF Typed
  <2>2. CASE h = 0
    <3>1. told' = Append(told, Head(outbox))
      BY <1>1, <1>3, <2>2 DEF Begun
    <3> QED
      BY <2>1, <2>2, <3>1, AppendProperties
  <2>3. CASE h # 0
    <3>1. told' = told /\ told # <<>> /\ told[Len(told)] = Head(outbox)
      BY <1>1, <1>3, <2>3 DEF Begun, BegunInv
    <3> QED
      BY <2>1, <2>3, <3>1, EmptySeq
  <2> QED
    BY <2>2, <2>3
<1>5. c \in Seq(Cell) /\ Len(c) = k /\ \A j \in 1..k : c[j] = <<T, h + j>>
  <2> HIDE DEF k, h, T
  <2>1. /\ Cells(T, SizeDown) \in Seq(Cell) /\ Len(Cells(T, SizeDown)) = SizeDown
        /\ \A j \in 1..SizeDown : Cells(T, SizeDown)[j] = <<T, j>>
    BY <1>3, <1>4, CellsFacts
  <2> DEFINE a == After(Cells(T, SizeDown), h)
  <2>2. h \in 0..SizeDown
    BY <1>3
  <2>3. a \in Seq(Cell) /\ Len(a) = SizeDown - h
        /\ \A j \in 1..(SizeDown - h) : a[j] = Cells(T, SizeDown)[h + j]
    <3>1. h \in 0..Len(Cells(T, SizeDown))
      BY <2>1, <2>2
    <3> QED
      <4>1. /\ a \in Seq(Cell) /\ Len(a) = Len(Cells(T, SizeDown)) - h
            /\ \A j \in 1..(Len(Cells(T, SizeDown)) - h) : a[j] = Cells(T, SizeDown)[h + j]
        BY <2>1, <3>1, AfterFacts, Zenon
      <4> QED
        BY <2>1, <4>1
  <2>4. k \in 0..Len(a)
    BY <1>3, <2>3
  <2>5. c \in Seq(Cell) /\ Len(c) = k /\ \A j \in 1..k : c[j] = a[j]
    <3> HIDE DEF a
    <3> QED
      BY <2>3, <2>4, FirstFacts DEF a
  <2>6. \A j \in 1..k : j \in 1..(SizeDown - h) /\ h + j \in 1..SizeDown
    BY <1>3
  <2> HIDE DEF a, c
  <2> QED
    BY <2>1, <2>3, <2>5, <2>6
<1> HIDE DEF k, h, T, c
<1>6. /\ left' \in 1..SizeDown
      /\ outbox' \in Seq(0..Len(said))
      /\ left' # SizeDown => outbox' = outbox
      /\ Sent' = h + k
  <2>1. outbox \in Seq(0..Len(said)) /\ Tail(outbox) \in Seq(0..Len(said))
    BY <1>0, <1>1, TailFacts DEF Typed
  <2>2. CASE k = left
    <3>1. left' = SizeDown /\ outbox' = Tail(outbox)
      BY <1>1, <2>2 DEF NextFrame
    <3>2. Sent' = SizeDown /\ SizeDown = h + k /\ SizeDown \in 1..SizeDown
      BY <1>3, <2>2, <3>1 DEF Sent, SizeDown
    <3> QED
      BY <2>1, <3>1, <3>2
  <2>3. CASE k # left
    <3>1. left' = left - k /\ outbox' = outbox
      BY <1>1, <2>3
    <3> QED
      <4>1. left - k \in 1..SizeDown /\ left - k # SizeDown /\ SizeDown - (left - k) = h + k
        BY <1>3, <2>3
      <4>2. Sent' = SizeDown - (left - k)
        BY <3>1, <4>1 DEF Sent, SizeDown
      <4> QED
        BY <2>1, <3>1, <4>1, <4>2
  <2> QED
    BY <2>2, <2>3
<1>7. Typed'
  <2>1. \A s \in {handled', outbox', told'} : \A i \in DOMAIN s : s[i] \in 0..Len(said)
    <3>1. \A s \in {handled', outbox', told'} : s \in Seq(0..Len(said))
      BY <1>0, <1>1, <1>4, <1>6 DEF Typed
    <3> QED
      BY <3>1, ElementOfSeq, LenProperties
  <2>2. down' \in Seq(Cell) /\ Len(down') <= Capacity
    <3>1. down \in Seq(Cell)
      BY <1>0 DEF Typed
    <3> QED
      <4>1. down \o c \in Seq(Cell) /\ Len(down \o c) = Len(down) + Len(c)
        BY <1>5, <3>1, ConcatFacts
      <4> QED
        BY <1>1, <1>3, <1>5, <4>1
  <2> QED
    BY <1>0, <1>1, <1>4, <1>6, <2>1, <2>2 DEF Typed, ConversationTypeOK, SizeDown
<1>8. UpInv' /\ ClosedInv' /\ HandledInOrder' /\ PrintedInOrder'
  BY <1>1, <1>2, UpKept
     DEF Up, ClosedInv, HandledInOrder, PrintedInOrder, Natural, Released
<1>9. BegunInv'
  <2> SUFFICES ASSUME left' # SizeDown
               PROVE  outbox' # <<>> /\ told' # <<>> /\ told'[Len(told')] = Head(outbox')
    BY DEF BegunInv, SizeDown
  <2>1. outbox' = outbox
    BY <1>6
  <2>2. told' # <<>>
    BY <1>4, EmptySeq DEF T
  <2> QED
    BY <1>1, <1>4, <2>1, <2>2 DEF T
<1>10. AnswerInv'
  <2>1. ToldOrToTell \subseteq ToldOrToTell'
    <3>1. \A i \in DOMAIN told : \E j \in DOMAIN told' : told'[j] = told[i]
      BY <1>4, LenProperties DEF T
    <3>2. Len(told') \in DOMAIN told' /\ told'[Len(told')] = Head(outbox)
      BY <1>4, LenProperties DEF T
    <3>3. outbox' \in {outbox, Tail(outbox)}
      BY <1>1 DEF NextFrame
    <3>4. \A i \in DOMAIN outbox : outbox[i] = Head(outbox) \/ \E j \in DOMAIN outbox' : outbox[i] = outbox'[j]
      <4>1. \A i \in DOMAIN outbox :
              outbox[i] = Head(outbox) \/ \E j \in DOMAIN Tail(outbox) : outbox[i] = Tail(outbox)[j]
        BY <1>0, <1>1, TailFacts DEF Typed
      <4> QED
        BY <3>3, <4>1
    <3> QED
      BY <3>1, <3>2, <3>4 DEF ToldOrToTell
  <2> QED
    BY <1>1, <2>1 DEF AnswerInv, Disturbed, Released
<1>11. DownInv'
  <2> SUFFICES ASSUME unsent # "part"
               PROVE  /\ Linked(Down', SizesDown')
                      /\ Down' # <<>>
                      /\ Down'[1] = <<Len(printed) + 1, 1>>
                      /\ Down'[Len(Down')] = <<T, h + k>>
                      /\ expect \in {HeaderSize, SizeDown}
    BY <1>1, <1>6 DEF DownInv, T, SizeDown
  <2>1. /\ Linked(Down, SizesDown)
        /\ Down # <<>> => Down[1] = <<Len(printed) + 1, 1>>
        /\ IF Down = <<>>
           THEN Len(printed) = Len(told) /\ left = SizeDown
           ELSE Down[Len(Down)] = <<Len(told), Sent>>
        /\ expect \in {HeaderSize, SizeDown}
    BY <1>2 DEF DownInv
  <2>2. Down \in Seq(Cell) /\ part \in Seq(Cell) /\ down \in Seq(Cell) /\ Len(Down) \in Nat
    BY <1>0, ConcatProperties, LenProperties DEF Down, Typed
  <2>3. Down' = Down \o c
    BY <1>0, <1>1, <1>5, DownExtended
  <2>4. /\ DOMAIN SizesDown = 1..Len(told) /\ SizesDown \in Seq(Nat)
        /\ \A i \in 1..Len(told) : SizesDown[i] = SizeDown
        /\ DOMAIN SizesDown' = 1..T /\ SizesDown' \in Seq(Nat)
        /\ \A i \in 1..T : SizesDown'[i] = SizeDown
    <3>1. told \in Seq(Nat) /\ told' \in Seq(Nat)
      BY <1>4
    <3>2. /\ SizesDown \in Seq(Nat) /\ DOMAIN SizesDown = 1..Len(told)
          /\ \A i \in 1..Len(told) : SizesDown[i] = SizeDown
      BY <3>1, SizesDownFacts
    <3>3. SizesDown' = [i \in 1..T |-> SizeDown]
      BY <3>1, LenProperties DEF SizesDown, T, SizeDown
    <3> QED
      BY <1>3, <1>4, <3>2, <3>3
  <2>5. Linked(Down, SizesDown')
    <3>1. \A i \in 1..Len(told) : i \in 1..T
      BY <1>4
    <3>2. /\ DOMAIN SizesDown \subseteq DOMAIN SizesDown'
          /\ \A i \in DOMAIN SizesDown : SizesDown'[i] = SizesDown[i]
      BY <2>4, <3>1
    <3> QED
      BY <2>1, <2>2, <3>2, LinkedMoreSizes
  <2>6. Down # <<>> => IF h = 0
                       THEN /\ Down[Len(Down)] = <<T - 1, SizesDown'[T - 1]>>
                            /\ T - 1 \in DOMAIN SizesDown'
                       ELSE Down[Len(Down)] = <<T, h>>
    <3> SUFFICES ASSUME Down # <<>>
                 PROVE  IF h = 0
                        THEN /\ Down[Len(Down)] = <<T - 1, SizesDown'[T - 1]>>
                             /\ T - 1 \in DOMAIN SizesDown'
                        ELSE Down[Len(Down)] = <<T, h>>
      OBVIOUS
    <3>1. Down[Len(Down)] = <<Len(told), Sent>>
      BY <2>1
    <3>2. CASE h = 0
      <4>1. Sent = SizeDown /\ T - 1 = Len(told)
        BY <1>3, <1>4, <3>2 DEF Sent
      <4>2. Len(told) \in 1..Len(told)
        <5>1. Len(Down) \in 1..Len(Down)
          BY <2>2, EmptySeq
        <5>2. InFrame(Down, SizesDown, Len(Down))
          BY <2>1, <5>1 DEF Linked
        <5> QED
          BY <2>4, <3>1, <5>2 DEF InFrame
      <4>3. T - 1 \in 1..T
        BY <1>4, <4>1, <4>2
      <4> QED
        BY <2>4, <3>1, <3>2, <4>1, <4>3
    <3>3. CASE h # 0
      <4>1. Sent = h /\ T = Len(told)
        BY <1>3, <1>4, <3>3 DEF Sent, h
      <4> QED
        BY <3>1, <3>3, <4>1
    <3> QED
      BY <3>2, <3>3
  <2>7. Linked(Down \o c, SizesDown')
    <3>1. T \in DOMAIN SizesDown' /\ Continues(c, SizesDown', T, h)
      <4>1. T \in 1..T
        BY <1>4
      <4>2. h + Len(c) <= SizeDown
        BY <1>3, <1>5
      <4>3. \A j \in 1..Len(c) : c[j] = <<T, h + j>>
        BY <1>5
      <4> QED
        BY <2>4, <4>1, <4>2, <4>3 DEF Continues
    <3>2. EndsAt(Down, SizesDown', T, h)
      BY <2>6 DEF EndsAt
    <3> QED
      BY <1>3, <1>5, <2>2, <2>4, <2>5, <3>1, <3>2, LinkedExtended
  <2>8. /\ Len(Down \o c) = Len(Down) + k
        /\ \A j \in 1..Len(Down) : (Down \o c)[j] = Down[j]
        /\ \A j \in 1..k : (Down \o c)[Len(Down) + j] = <<T, h + j>>
    <3>1. /\ Len(Down \o c) = Len(Down) + Len(c)
          /\ \A j \in 1..Len(Down) : (Down \o c)[j] = Down[j]
          /\ \A j \in 1..Len(c) : (Down \o c)[Len(Down) + j] = c[j]
      <4>1. Down \in Seq(Cell) /\ c \in Seq(Cell)
        BY <1>5, <2>2
      <4> QED
        BY <4>1, ConcatFacts
    <3> QED
      BY <1>5, <3>1
  <2>9. (Down \o c)[Len(Down) + k] = <<T, h + k>>
    <3>1. k \in 1..k
      BY <1>3
    <3> QED
      BY <2>8, <3>1
  <2>10. (Down \o c)[1] = <<Len(printed) + 1, 1>>
    <3>1. CASE Down = <<>>
      <4>1. Len(Down) = 0 /\ 0 + 1 = 1 /\ 1 \in 1..k /\ Len(printed) + 1 = T /\ h + 1 = 1
        BY <1>3, <1>4, <2>1, <3>1
      <4> QED
        BY <2>8, <4>1
    <3>2. CASE Down # <<>>
      <4>1. 1 \in 1..Len(Down)
        BY <2>2, <3>2, EmptySeq
      <4> QED
        BY <2>1, <2>8, <3>2, <4>1
    <3> QED
      BY <3>1, <3>2
  <2>11. Down \o c # <<>>
    <3>1. Len(Down \o c) # 0
      BY <1>3, <2>2, <2>8
    <3> QED
      BY <3>1
  <2> QED
    BY <2>1, <2>3, <2>7, <2>8, <2>9, <2>10, <2>11
<1> QED
  BY <1>7, <1>8, <1>9, <1>10, <1>11

(* The frame in front of a stream: how it is read, and what is behind it.  *)
IsInFront(i, s, sizes) ==
  /\ i \in DOMAIN sizes
  /\ HeaderSize <= Len(s) => Announced(First(s, HeaderSize), sizes) = {sizes[i]}
  /\ sizes[i] <= Len(s) =>
       /\ FrameIn(First(s, sizes[i]), sizes) = i
       /\ Linked(After(s, sizes[i]), sizes)
       /\ IF After(s, sizes[i]) = <<>>
          THEN s[Len(s)] = <<i, sizes[i]>>
          ELSE /\ After(s, sizes[i])[1] = <<i + 1, 1>>
               /\ After(s, sizes[i])[Len(After(s, sizes[i]))] = s[Len(s)]

(* A linked stream that begins with a frame has it in front.               *)
LEMMA FrontFrame ==
  ASSUME NEW s \in Seq(Cell), NEW sizes \in Seq({HeaderSize, SizeDown}), Linked(s, sizes),
         NEW i \in Nat, s # <<>>, s[1] = <<i, 1>>
  PROVE  IsInFront(i, s, sizes)
<1>1. HeaderSize \in Nat /\ SizeDown \in Nat /\ HeaderSize >= 1 /\ SizeDown = HeaderSize + 1
  BY ConversationAssumption DEF SizeDown
<1>2. sizes \in Seq(Nat) /\ Len(s) \in Nat
  BY <1>1, LenProperties
<1>3. /\ i \in DOMAIN sizes
      /\ \A n \in 1..Len(s) : n <= sizes[i] => First(s, n) = Cells(i, n)
      /\ sizes[i] < Len(s) => s[sizes[i] + 1] = <<i + 1, 1>>
  BY <1>2, LinkedFront
<1>4. sizes[i] \in {HeaderSize, SizeDown}
  BY <1>3, ElementOfSeq, LenProperties
<1>5. ASSUME HeaderSize <= Len(s)
      PROVE  Announced(First(s, HeaderSize), sizes) = {sizes[i]}
  <2>1. HeaderSize \in 1..Len(s) /\ HeaderSize <= sizes[i]
    BY <1>1, <1>2, <1>4, <1>5
  <2>2. First(s, HeaderSize) = Cells(i, HeaderSize)
    BY <1>3, <2>1
  <2> QED
    BY <1>2, <1>3, <2>2, LengthIsKnown
<1>6. ASSUME sizes[i] <= Len(s)
      PROVE  /\ FrameIn(First(s, sizes[i]), sizes) = i
             /\ Linked(After(s, sizes[i]), sizes)
             /\ IF After(s, sizes[i]) = <<>>
                THEN s[Len(s)] = <<i, sizes[i]>>
                ELSE /\ After(s, sizes[i])[1] = <<i + 1, 1>>
                     /\ After(s, sizes[i])[Len(After(s, sizes[i]))] = s[Len(s)]
  <2> DEFINE n == sizes[i]
             t == After(s, n)
  <2>1. n \in Nat /\ n >= 1 /\ n \in 1..Len(s) /\ n \in 0..Len(s)
    BY <1>1, <1>2, <1>4, <1>6
  <2>2. First(s, n) = Cells(i, n)
    BY <1>3, <2>1
  <2>3. FrameIn(First(s, n), sizes) = i
    BY <1>3, <2>2, FrameIsKnown
  <2> HIDE DEF n
  <2>4. Linked(t, sizes)
    BY <1>2, <2>1, LinkedAfter
  <2>5. t \in Seq(Cell) /\ Len(t) = Len(s) - n /\ \A k \in 1..(Len(s) - n) : t[k] = s[n + k]
    BY <2>1, AfterFacts
  <2> HIDE DEF t
  <2>6. CASE t = <<>>
    <3>1. n = Len(s)
      BY <1>2, <2>1, <2>5, <2>6
    <3>2. Cells(i, n)[n] = <<i, n>>
      BY <2>1, CellsFacts
    <3>3. First(s, n)[n] = s[n]
      BY <2>1, FirstFacts
    <3>4. s[Len(s)] = <<i, n>>
      BY <2>2, <3>1, <3>2, <3>3
    <3> QED
      BY <2>3, <2>4, <2>6, <3>4 DEF n, t
  <2>7. CASE t # <<>>
    <3>1. Len(t) # 0
      BY <2>5, <2>7, EmptySeq
    <3>2. n < Len(s) /\ 1 \in 1..(Len(s) - n) /\ Len(t) \in 1..(Len(s) - n) /\ n + Len(t) = Len(s)
      BY <1>2, <2>1, <2>5, <3>1
    <3>3. t[1] = <<i + 1, 1>>
      BY <1>3, <2>5, <3>2 DEF n
    <3>4. t[Len(t)] = s[Len(s)]
      BY <2>5, <3>2
    <3> QED
      BY <2>3, <2>4, <2>7, <3>3, <3>4 DEF n, t
  <2> QED
    BY <2>6, <2>7
<1> QED
  BY <1>3, <1>5, <1>6 DEF IsInFront

(* The server takes the frame in front of its stream, and answers it.      *)
LEMMA TakeFrameStep ==
  ASSUME ConvInv, TakeFrame
  PROVE  ConvInv'
<1> USE DEF ConvInv, clientVars
<1>0. Typed /\ ConversationTypeOK
  BY DEF Typed
<1>1. PICK size \in FrameSizes :
        /\ Peeked(size) /\ Len(upBuf) >= size
        /\ upBuf' = After(upBuf, size)
        /\ handled' = Record(handled, FrameIn(First(upBuf, size), SizesUp))
        /\ \E m \in IF FrameIn(First(upBuf, size), SizesUp) = 0
                    THEN Lines ELSE {said[FrameIn(First(upBuf, size), SizesUp)]} :
             \E o \in Outcomes(rights, m) :
               /\ Send(o.answers, FrameIn(First(upBuf, size), SizesUp))
               /\ sock' = IF o.does = "quit" THEN "doomed" ELSE sock
               /\ rights' = IF o.does \in {"user", "admin"} THEN o.does ELSE rights
        /\ UNCHANGED <<at, lost, upNet, upEnd, edge, down, said, typing, recving, part>>
        /\ UNCHANGED <<expect, printed, left, told, unsent>>
  BY DEF TakeFrame
<1> DEFINE i == FrameIn(First(upBuf, size), SizesUp)
<1>2. PICK m \in IF i = 0 THEN Lines ELSE {said[i]} : \E o \in Outcomes(rights, m) :
        /\ Send(o.answers, i)
        /\ sock' = IF o.does = "quit" THEN "doomed" ELSE sock
        /\ rights' = IF o.does \in {"user", "admin"} THEN o.does ELSE rights
  BY <1>1
<1>3. PICK o \in Outcomes(rights, m) :
        /\ Send(o.answers, i)
        /\ sock' = IF o.does = "quit" THEN "doomed" ELSE sock
        /\ rights' = IF o.does \in {"user", "admin"} THEN o.does ELSE rights
  BY <1>2
<1>4. /\ said \in Seq(Lines) /\ Len(said) \in Nat
      /\ SizesUp \in Seq({HeaderSize, SizeDown}) /\ SizesUp \in Seq(Nat)
      /\ Len(SizesUp) = Len(said) /\ DOMAIN SizesUp = 1..Len(said)
      /\ i \in 0..Len(said)
  <2>1. said \in Seq(Lines) /\ Len(said) \in Nat
    BY <1>0, LenProperties DEF ConversationTypeOK
  <2>2. /\ SizesUp \in Seq({HeaderSize, SizeDown}) /\ SizesUp \in Seq(Nat)
        /\ Len(SizesUp) = Len(said) /\ DOMAIN SizesUp = 1..Len(said)
    BY <2>1, SizesUpFacts
  <2> QED
    BY <2>1, <2>2, FrameInTyped
<1>5. o.answers \in Nat /\ (i # 0 /\ said[i].slashes > 0 => o.answers >= 1)
  <2>1. o.answers \in Nat
    BY OutcomesTyped
  <2>2. ASSUME i # 0, said[i].slashes > 0 PROVE o.answers \in Nat \ {0}
    <3>1. m = said[i] /\ m.slashes # 0
      BY <1>2, <2>2
    <3> QED
      BY <3>1, OnlyChatIsUnanswered
  <2> QED
    BY <2>1, <2>2
<1> HIDE DEF i
<1>6. outbox = <<>> /\ left = SizeDown /\ at = "peek" /\ sock # "closed" /\ sock' # "closed"
  BY <1>1, <1>3, OutboxEmpty DEF Peeked, Peeking, ClosedInv
<1>7. /\ outbox' \in Seq(0..Len(said))
      /\ o.answers >= 1 => 1 \in DOMAIN outbox' /\ outbox'[1] = i
  <2> DEFINE c == [k \in 1..o.answers |-> i]
  <2>1. c \in Seq(0..Len(said)) /\ DOMAIN c = 1..o.answers /\ \A k \in 1..o.answers : c[k] = i
    BY <1>4, <1>5
  <2>2. outbox' = c
    BY <1>3, <1>6, <2>1, ConcatEmptySeq DEF Send
  <2> HIDE DEF c
  <2> QED
    BY <1>5, <2>1, <2>2
<1>8. handled' \in Seq(0..Len(said)) /\ handled' = Record(handled, i)
  BY <1>0, <1>1, <1>4, RecordFacts DEF Typed, i
<1>9. /\ upBuf \in Seq(Cell) /\ upNet \in Seq(Cell) /\ size \in 0..Len(upBuf)
      /\ upBuf' \in Seq(Cell) /\ size >= HeaderSize /\ Len(upBuf) \in Nat
  <2>1. upBuf \in Seq(Cell) /\ upNet \in Seq(Cell) /\ Len(upBuf) \in Nat
    BY <1>0, LenProperties DEF Typed
  <2>2. size \in Nat /\ size >= HeaderSize
    BY ConversationAssumption DEF FrameSizes
  <2>3. size \in 0..Len(upBuf)
    BY <1>1, <2>1, <2>2
  <2> QED
    BY <1>1, <2>1, <2>2, <2>3, AfterFacts
<1>10. Typed'
  <2>1. \A s \in {handled', outbox', told'} : \A k \in DOMAIN s : s[k] \in 0..Len(said)
    <3>1. \A s \in {handled', outbox', told'} : s \in Seq(0..Len(said))
      BY <1>0, <1>1, <1>7, <1>8 DEF Typed
    <3> QED
      BY <3>1, ElementOfSeq, LenProperties
  <2>2. /\ sock' \in {"open", "expelled", "doomed", "closed"}
        /\ rights' \in {"nobody", "user", "admin"}
    BY <1>0, <1>3 DEF ConversationTypeOK
  <2> QED
    BY <1>0, <1>1, <1>7, <1>8, <1>9, <2>1, <2>2 DEF Typed, ConversationTypeOK
<1>11. DownInv' /\ ClosedInv' /\ BegunInv' /\ PrintedInOrder'
  BY <1>1, <1>6, DownKept
     DEF Down, Streaming, Released, ClosedInv, BegunInv, PrintedInOrder, Natural, SizeDown
<1>12. CASE lost
  BY <1>1, <1>10, <1>11, <1>12 DEF UpInv, HandledInOrder, AnswerInv, Disturbed
<1>13. CASE ~lost
  <2>1. /\ Up \in Seq(Cell) /\ Len(Up) \in Nat /\ size \in 0..Len(Up)
        /\ HeaderSize <= Len(Up) /\ Up # <<>> /\ HeaderSize \in 0..Len(upBuf)
    <3>1. Up \in Seq(Cell) /\ Len(Up) = Len(upBuf) + Len(upNet) /\ Len(upNet) \in Nat
      BY <1>9, ConcatFacts, LenProperties DEF Up
    <3>2. HeaderSize \in Nat /\ HeaderSize >= 1
      BY ConversationAssumption
    <3>3. size \in 0..Len(Up) /\ HeaderSize <= Len(Up) /\ Len(Up) # 0 /\ Len(Up) \in Nat
          /\ HeaderSize \in 0..Len(upBuf)
      BY <1>1, <1>9, <3>1, <3>2
    <3> QED
      BY <3>1, <3>3, EmptySeq
  <2>2. /\ First(upBuf, HeaderSize) = First(Up, HeaderSize)
        /\ First(upBuf, size) = First(Up, size)
        /\ Up' = After(Up, size)
    BY <1>1, <1>9, <2>1, TakenFromFront DEF Up
  <2> DEFINE n == Len(handled)
  <2>3. /\ Linked(Up, SizesUp) /\ Up[1] = <<n + 1, 1>>
        /\ upEnd # "reset" => Up[Len(Up)] = <<Len(said), SizesUp[Len(said)]>>
    BY <1>6, <1>13, <2>1 DEF UpInv
  <2>4. n \in Nat /\ handled \in Seq(Nat) /\ handled = Natural(n)
    BY <1>0, <1>13, LenProperties DEF Typed, HandledInOrder
  <2> DEFINE f == n + 1
  <2> HIDE DEF n, f
  <2>5. IsInFront(f, Up, SizesUp)
    <3>1. /\ Up \in Seq(Cell) /\ SizesUp \in Seq({HeaderSize, SizeDown})
          /\ Linked(Up, SizesUp) /\ f \in Nat /\ Up # <<>> /\ Up[1] = <<f, 1>>
      BY <1>4, <2>1, <2>3, <2>4 DEF f
    <3> QED
      BY <3>1, FrontFrame
  <2>6. size = SizesUp[f] /\ SizesUp[f] <= Len(Up)
    BY <1>1, <2>1, <2>2, <2>5 DEF Peeked, IsInFront
  <2>7. /\ i = f /\ Linked(Up', SizesUp)
        /\ IF Up' = <<>>
           THEN Up[Len(Up)] = <<f, SizesUp[f]>>
           ELSE Up'[1] = <<f + 1, 1>> /\ Up'[Len(Up')] = Up[Len(Up)]
    BY <2>2, <2>5, <2>6 DEF i, IsInFront
  <2>8. handled' = Natural(f) /\ Len(handled') = f
    BY <1>8, <2>4, <2>7, RecordCounts DEF f, n
  <2>9. UpInv'
    <3>1. SizesUp' = SizesUp
      BY <1>1 DEF SizesUp
    <3>2. upEnd # "reset" /\ Up' = <<>> => Len(handled') = Len(said)
      BY <2>3, <2>7, <2>8
    <3> QED
      BY <1>1, <2>3, <2>7, <2>8, <3>1, <3>2 DEF UpInv
  <2>10. HandledInOrder'
    BY <2>8 DEF HandledInOrder, Natural
  <2>11. AnswerInv'
    <3> SUFFICES ASSUME ~Disturbed', ~Released', NEW j \in 1..Len(handled'), said[j].slashes > 0
                 PROVE  j \in ToldOrToTell'
      BY <1>1 DEF AnswerInv
    <3>1. CASE j \in 1..n
      <4>1. j \in ToldOrToTell
        BY <1>1, <3>1 DEF AnswerInv, Disturbed, Released, n
      <4>2. j \in {told[k] : k \in DOMAIN told}
        BY <1>6, <4>1 DEF ToldOrToTell
      <4> QED
        BY <1>1, <4>2 DEF ToldOrToTell
    <3>2. CASE j = f
      <4>1. 1 \in DOMAIN outbox' /\ outbox'[1] = j
        <5>1. said[i].slashes > 0 /\ i # 0
          BY <2>4, <2>7, <3>2 DEF f
        <5> QED
          BY <1>5, <1>7, <2>7, <3>2, <5>1
      <4> QED
        BY <4>1 DEF ToldOrToTell
    <3> QED
      BY <2>4, <2>8, <3>1, <3>2 DEF f
  <2> QED
    BY <1>10, <1>11, <2>9, <2>10, <2>11
<1> QED
  BY <1>12, <1>13

(* The client takes cells from its stream and prints the frame in front.   *)
LEMMA RecvSomeStep ==
  ASSUME ConvInv, RecvSome
  PROVE  ConvInv'
<1> USE DEF ConvInv, loopVars
<1>0. Typed /\ ConversationTypeOK
  BY DEF Typed
<1>1. PICK k \in 1..Least(Len(down), expect - Len(part)) :
        down' = After(down, k) /\ Receive(part \o First(down, k))
  BY DEF RecvSome
<1>2. /\ recving \in {"on", "last"}
      /\ recving' \in {"on", "returned"} /\ (recving = "on" => recving' = "on")
      /\ UNCHANGED <<said, typing, upNet, upBuf, upEnd, edge, sock, rights, at, handled, lost>>
      /\ UNCHANGED <<outbox, left, told, unsent>>
  BY DEF RecvSome, AfterThisCall, sendVars
<1> DEFINE got == part \o First(down, k)
<1>3. /\ k \in Nat /\ k >= 1 /\ k <= Len(down) /\ k <= expect - Len(part) /\ k \in 0..Len(down)
      /\ Len(down) \in Nat /\ Len(part) \in Nat /\ expect \in Nat /\ HeaderSize \in Nat
      /\ HeaderSize >= 1 /\ SizeDown = HeaderSize + 1
  <2>1. /\ Len(down) \in Nat /\ Len(part) \in Nat /\ expect \in Nat
        /\ HeaderSize \in Nat /\ HeaderSize >= 1 /\ SizeDown = HeaderSize + 1
    BY <1>0, LenProperties, ConversationAssumption
       DEF Typed, ConversationTypeOK, FrameSizes, SizeDown
  <2>2. \/ Least(Len(down), expect - Len(part)) = Len(down) /\ Len(down) <= expect - Len(part)
        \/ /\ Least(Len(down), expect - Len(part)) = expect - Len(part)
           /\ expect - Len(part) <= Len(down)
    BY <2>1 DEF Least
  <2> QED
    BY <1>1, <2>1, <2>2
<1>4. /\ part \in Seq(Cell) /\ down \in Seq(Cell) /\ down' \in Seq(Cell)
      /\ got \in Seq(Cell) /\ Len(got) = Len(part) + k /\ Len(got) \in Nat
      /\ Len(down') \in Nat /\ Len(down') = Len(down) - k
  <2>1. part \in Seq(Cell) /\ down \in Seq(Cell)
    BY <1>0 DEF Typed
  <2>2. /\ First(down, k) \in Seq(Cell) /\ Len(First(down, k)) = k
        /\ After(down, k) \in Seq(Cell) /\ Len(After(down, k)) = Len(down) - k
    BY <1>3, <2>1, FirstFacts, AfterFacts
  <2>3. got \in Seq(Cell) /\ Len(got) = Len(part) + Len(First(down, k))
    BY <2>1, <2>2, ConcatFacts
  <2> HIDE DEF got
  <2> QED
    BY <1>1, <1>3, <2>1, <2>2, <2>3
<1>5. got \o down' = Down
  BY <1>1, <1>3, <1>4, Regrouped DEF Down
<1>6. Len(down') <= Capacity
  BY <1>0, <1>3, <1>4, ConversationAssumption DEF ConversationTypeOK
<1>7. Streaming' => Streaming
  BY <1>2 DEF Streaming
<1>8. Released => Released'
  BY <1>2 DEF Released
<1>9. UpInv' /\ ClosedInv' /\ BegunInv' /\ AnswerInv' /\ HandledInOrder'
  BY <1>2, <1>8, UpKept, BegunKept, AnswerKept
     DEF Up, ClosedInv, Disturbed, HandledInOrder, Natural
<1>10. /\ SizesDown \in Seq({HeaderSize, SizeDown}) /\ SizesDown \in Seq(Nat)
       /\ DOMAIN SizesDown = 1..Len(told)
       /\ \A i \in 1..Len(told) : SizesDown[i] = SizeDown
  <2>1. told \in Seq(Nat)
    BY <1>0, LenProperties DEF Typed
  <2> QED
    BY <2>1, SizesDownFacts
<1>11. /\ First(got, Len(got)) = got
       /\ First(got, Len(got)) = First(Down, Len(got))
       /\ After(got, Len(got)) \o down' = After(Down, Len(got))
       /\ After(got, Len(got)) = <<>>
       /\ Down \in Seq(Cell) /\ Len(got) <= Len(Down) /\ Down # <<>>
  <2> HIDE DEF got
  <2>1. First(got, Len(got)) = got
    BY <1>4, SubSeqFull DEF First
  <2>2. Len(got) \in 0..Len(got)
    BY <1>4
  <2>3. /\ First(got, Len(got)) = First(Down, Len(got))
        /\ After(got, Len(got)) \o down' = After(Down, Len(got))
    BY <1>4, <1>5, <2>2, TakenFromFront
  <2>4. After(got, Len(got)) = <<>>
    <3>1. After(got, Len(got)) \in Seq(Cell) /\ Len(After(got, Len(got))) = Len(got) - Len(got)
      BY <1>4, <2>2, AfterFacts
    <3>2. Len(After(got, Len(got))) = 0
      BY <1>4, <3>1
    <3> QED
      BY <3>1, <3>2, EmptySeq
  <2>5. Down \in Seq(Cell) /\ Len(Down) = Len(got) + Len(down')
    BY <1>4, <1>5, ConcatFacts
  <2>6. Len(got) <= Len(Down) /\ Len(Down) # 0
    BY <1>3, <1>4, <2>5
  <2>7. Down # <<>>
    BY <2>5, <2>6, EmptySeq
  <2> QED
    BY <2>1, <2>3, <2>4, <2>5, <2>6, <2>7
<1> DEFINE f == Len(printed) + 1
<1>12. ASSUME unsent # "part"
       PROVE  /\ IsInFront(f, Down, SizesDown) /\ SizesDown[f] = SizeDown
              /\ expect \in {HeaderSize, SizeDown}
  <2>1. Linked(Down, SizesDown) /\ Down[1] = <<f, 1>> /\ expect \in {HeaderSize, SizeDown}
    BY <1>11, <1>12 DEF DownInv
  <2>2. f \in Nat
    BY <1>0, LenProperties DEF Typed
  <2> HIDE DEF f
  <2>3. IsInFront(f, Down, SizesDown)
    BY <1>10, <1>11, <2>1, <2>2, FrontFrame
  <2>4. f \in 1..Len(told)
    BY <1>10, <2>3 DEF IsInFront
  <2> QED
    BY <1>10, <2>1, <2>3, <2>4
<1> HIDE DEF got
(* The whole frame is there.                                               *)
<1> DEFINE Shown == /\ printed' = Record(printed, FrameIn(got, SizesDown))
                    /\ part' = <<>> /\ expect' = HeaderSize
<1>13. ASSUME Shown, Len(got) = expect, unsent # "part" => expect = SizeDown
       PROVE  ConvInv'
  <2>1. printed' \in Seq(Nat)
    <3>1. FrameIn(got, SizesDown) \in 0..Len(SizesDown) /\ Len(SizesDown) \in Nat
      BY <1>10, FrameInTyped, LenProperties
    <3>2. FrameIn(got, SizesDown) \in Nat
      BY <3>1
    <3>3. printed \in Seq(Nat)
      BY <1>0 DEF Typed
    <3> QED
      BY <1>13, <3>2, <3>3, AppendProperties DEF Record
  <2>2. expect' \in FrameSizes /\ Len(part') < expect' /\ part' \in Seq(Cell)
    <3>1. HeaderSize \in FrameSizes
      BY ConversationAssumption DEF FrameSizes
    <3>2. <<>> \in Seq(Cell) /\ Len(<<>>) = 0 /\ 0 < HeaderSize
      BY <1>3
    <3> QED
      BY <1>13, <3>1, <3>2
  <2>3. Typed'
    BY <1>0, <1>2, <1>4, <1>6, <2>1, <2>2 DEF Typed, ConversationTypeOK
  <2>4. CASE unsent = "part"
    <3>1. DownInv' /\ PrintedInOrder'
      BY <1>2, <2>4 DEF DownInv, PrintedInOrder
    <3> QED
      BY <1>9, <2>3, <3>1
  <2>5. CASE unsent # "part"
    <3>1. Len(got) = SizeDown /\ IsInFront(f, Down, SizesDown) /\ SizesDown[f] = SizeDown
      BY <1>12, <1>13, <2>5, Zenon
    <3>2. /\ FrameIn(got, SizesDown) = f
          /\ Linked(After(Down, SizeDown), SizesDown)
          /\ IF After(Down, SizeDown) = <<>>
             THEN Down[Len(Down)] = <<f, SizeDown>>
             ELSE /\ After(Down, SizeDown)[1] = <<f + 1, 1>>
                  /\ After(Down, SizeDown)[Len(After(Down, SizeDown))] = Down[Len(Down)]
      BY <1>11, <3>1 DEF IsInFront
    <3>3. Down' = After(Down, SizeDown)
      BY <1>4, <1>11, <1>13, <3>1 DEF Down
    <3>4. printed' = Natural(f) /\ Len(printed') = f
      <4>1. printed \in Seq(Nat) /\ printed = Natural(Len(printed))
        BY <1>0, <2>5 DEF Typed, PrintedInOrder
      <4> QED
        BY <1>13, <3>2, <4>1, RecordCounts
    <3>5. PrintedInOrder'
      BY <3>4, Zenon DEF PrintedInOrder, Natural
    <3> HIDE DEF f
    <3>6. ASSUME Streaming, Down' # <<>>
          PROVE  Down'[Len(Down')] = <<Len(told), Sent>>
      BY <2>5, <3>2, <3>3, <3>6, <1>11 DEF DownInv
    <3>7. ASSUME Streaming, Down' = <<>>
          PROVE  f = Len(told) /\ left = SizeDown
      <4>1. <<f, SizeDown>> = <<Len(told), Sent>>
        BY <2>5, <3>2, <3>3, <3>7, <1>11 DEF DownInv
      <4>2. f = Len(told) /\ Sent = SizeDown
        BY <4>1
      <4>3. left \in Nat /\ left >= 1 /\ SizeDown \in Nat
        BY <1>0, <1>3 DEF ConversationTypeOK
      <4>4. left # SizeDown => Sent = SizeDown - left
        BY DEF Sent
      <4>5. SizeDown - left # SizeDown
        BY <4>3
      <4> QED
        BY <4>2, <4>4, <4>5
    <3>8. DownInv'
      <4>1. SizesDown' = SizesDown /\ Sent' = Sent /\ SizeDown' = SizeDown
        BY <1>2 DEF SizesDown, Sent, SizeDown
      <4>2. /\ Linked(Down', SizesDown')
            /\ Down' # <<>> => Down'[1] = <<Len(printed') + 1, 1>>
            /\ expect' \in {HeaderSize, SizeDown}
        BY <1>13, <3>2, <3>3, <3>4, <4>1
      <4>3. Streaming' => IF Down' = <<>>
                          THEN Len(printed') = Len(told') /\ left' = SizeDown
                          ELSE Down'[Len(Down')] = <<Len(told'), Sent'>>
        BY <1>2, <1>7, <3>4, <3>6, <3>7, <4>1
      <4> QED
        BY <4>1, <4>2, <4>3 DEF DownInv
    <3> QED
      BY <1>9, <2>3, <3>5, <3>8
  <2> QED
    BY <2>4, <2>5
<1> HIDE DEF f
(* It is not yet: the cells stay, and the length may have been read.       *)
<1>14. ASSUME part' = got, printed' = printed, expect' \in FrameSizes, Len(got) < expect',
              unsent # "part" => expect' \in {HeaderSize, SizeDown}
       PROVE  ConvInv'
  <2>1. Typed'
    BY <1>0, <1>2, <1>4, <1>6, <1>14 DEF Typed, ConversationTypeOK
  <2>2. PrintedInOrder'
    BY <1>2, <1>14 DEF PrintedInOrder, Natural
  <2>3. DownInv'
    <3>1. Down' = Down
      BY <1>5, <1>14 DEF Down
    <3>2. SizesDown' = SizesDown /\ Sent' = Sent /\ SizeDown' = SizeDown
      BY <1>2 DEF SizesDown, Sent, SizeDown
    <3> QED
      BY <1>2, <1>7, <1>14, <3>1, <3>2 DEF DownInv
  <2> QED
    BY <1>9, <2>1, <2>2, <2>3
<1>15. CASE Len(got) < expect /\ part' = got /\ UNCHANGED <<expect, printed>>
  BY <1>0, <1>12, <1>14, <1>15 DEF ConversationTypeOK
<1>16. ASSUME Len(got) = HeaderSize, expect = HeaderSize,
              NEW size \in Announced(got, SizesDown),
              IF size = HeaderSize
              THEN Shown
              ELSE part' = got /\ expect' = size /\ UNCHANGED printed
       PROVE  ConvInv'
  <2>1. size \in FrameSizes /\ size >= HeaderSize /\ size \in Nat
    <3>1. size \in FrameSizes
      BY <1>10, <1>16, AnnouncedTyped
    <3> QED
      BY <3>1, ConversationAssumption DEF FrameSizes
  <2>2. ASSUME unsent # "part" PROVE size = SizeDown /\ size # HeaderSize
    <3>1. Announced(First(Down, HeaderSize), SizesDown) = {SizeDown}
      BY <1>11, <1>12, <1>16, <2>2 DEF IsInFront
    <3>2. got = First(Down, HeaderSize)
      BY <1>11, <1>16
    <3>3. size = SizeDown
      BY <1>16, <3>1, <3>2
    <3> QED
      BY <1>3, <3>3
  <2>3. CASE size = HeaderSize
    BY <1>13, <1>16, <2>2, <2>3
  <2>4. CASE size # HeaderSize
    <3>1. part' = got /\ expect' = size /\ printed' = printed /\ Len(got) < size
      BY <1>3, <1>16, <2>1, <2>4
    <3> QED
      BY <1>14, <2>1, <2>2, <3>1
  <2> QED
    BY <2>3, <2>4
<1>17. CASE Len(got) = expect /\ expect > HeaderSize /\ Shown
  <2>1. unsent # "part" => expect = SizeDown
    BY <1>3, <1>12, <1>17
  <2> QED
    BY <1>13, <1>17, <2>1
<1> QED
  <2>1. \/ Len(got) < expect /\ part' = got /\ UNCHANGED <<expect, printed>>
        \/ /\ Len(got) = HeaderSize /\ expect = HeaderSize
           /\ \E size \in Announced(got, SizesDown) :
                IF size = HeaderSize
                THEN Shown
                ELSE part' = got /\ expect' = size /\ UNCHANGED printed
        \/ Len(got) = expect /\ expect > HeaderSize /\ Shown
    BY <1>1 DEF Receive, got
  <2> QED
    BY <2>1, <1>15, <1>16, <1>17

-----------------------------------------------------------------------------
(* The theorems.                                                           *)

LEMMA InitInvariant ==
  ASSUME Init
  PROVE  ConvInv
<1> USE DEF Init
<1>1. /\ HeaderSize \in Nat /\ HeaderSize >= 1 /\ Capacity \in Nat /\ MaxSaid \in Nat
      /\ MaxGarbage \in Nat /\ SizeDown = HeaderSize + 1
  BY ConversationAssumption DEF SizeDown
<1>2. \A S : <<>> \in Seq(S)
  OBVIOUS
<1>3. Len(<<>>) = 0 /\ <<>> \o <<>> = <<>> /\ DOMAIN <<>> = {}
  OBVIOUS
<1>4. ConversationTypeOK
  <2>1. said \in Seq(Lines) /\ Len(said) <= MaxSaid /\ Len(down) <= Capacity /\ Len(part) < expect
    BY <1>1, <1>2, <1>3
  <2>2. expect \in FrameSizes /\ left \in 1..SizeDown
    BY <1>1 DEF FrameSizes
  <2>3. \A s \in {handled, outbox, told} : \A k \in DOMAIN s : s[k] \in 0..Len(said)
    BY <1>3
  <2> QED
    BY <2>1, <2>2, <2>3 DEF ConversationTypeOK
<1>5. Typed
  BY <1>2, <1>4 DEF Typed
<1>6. HandledInOrder /\ PrintedInOrder
  BY <1>3 DEF HandledInOrder, PrintedInOrder, Natural
<1>7. Up = <<>> /\ Down = <<>> /\ \A sizes : Linked(<<>>, sizes)
  BY <1>3 DEF Up, Down, Linked
<1>8. UpInv /\ DownInv
  BY <1>7 DEF UpInv, DownInv
<1> QED
  BY <1>3, <1>5, <1>6, <1>8 DEF ConvInv, ClosedInv, BegunInv, AnswerInv

(* The two streams of a connection stay what they are, through everything  *)
(* the client, the kernels and the server do with them (the recv loop of   *)
(* main, send_message_with_length, recv_thread_func).                      *)
THEOREM ConversationInvariant == Spec => []ConvInv
<1>1. Init => ConvInv
  BY InitInvariant
<1>2. ASSUME ConvInv, [Next]_vars
      PROVE  ConvInv'
  <2>1. CASE \E m \in Lines : TypeLine(m)
    BY <1>2, <2>1, TypeLineStep
  <2>2. CASE RecvSome
    BY <1>2, <2>2, RecvSomeStep
  <2>3. CASE Arrive
    BY <1>2, <2>3, ArriveStep
  <2>4. CASE SendSome
    BY <1>2, <2>4, SendSomeStep
  <2>5. CASE SendFails
    BY <1>2, <2>5, SendFailsStep
  <2>6. CASE TakePart \/ Sweep
    BY <1>2, <2>6, DroppingSteps
  <2>7. CASE TakeFrame
    BY <1>2, <2>7, TakeFrameStep
  <2>8. CASE Others
    BY <1>2, <2>8, OthersStep
  <2>9. CASE \/ StopTyping \/ CloseSocket \/ Join \/ RecvEnd \/ ArriveFin
             \/ Wake \/ PeekNothing \/ PeekEnd \/ PeekShort \/ Expel
             \/ UNCHANGED vars
    BY <1>2, <2>9, QuietSteps
  <2>10. CASE ArriveReset
    BY <1>2, <2>10, ArriveResetStep
  <2> QED
    BY <1>2, <2>1, <2>2, <2>3, <2>4, <2>5, <2>6, <2>7, <2>8, <2>9, <2>10
       DEF Next, MainStep, ThreadStep, NetStep, ServerStep, Over
<1> QED
  BY <1>1, <1>2, PTL DEF Spec

(* What is on its way, and what either end has of it, is within its        *)
(* bounds: above all, the client never receives more than its frame.       *)
THEOREM ConversationTyped == Spec => []ConversationTypeOK
<1>1. ConvInv => ConversationTypeOK
  BY DEF ConvInv, Typed
<1> QED
  BY <1>1, ConversationInvariant, PTL

(* Unless cells were dropped, the server handles the frames that the       *)
(* client sent, each once and in order, whatever pieces they arrive in     *)
(* (the recv loop of main).                                                *)
THEOREM FramesAreHandledInOrder == Spec => []HandledInOrder
<1>1. ConvInv => HandledInOrder
  BY DEF ConvInv
<1> QED
  BY <1>1, ConversationInvariant, PTL

(* Unless a frame was given up half-way, the client prints the frames that *)
(* the server sent, each once and in order, whatever pieces they are sent  *)
(* and received in (send_message_with_length, recv_thread_func).           *)
THEOREM FramesArePrintedInOrder == Spec => []PrintedInOrder
<1>1. ConvInv => PrintedInOrder
  BY DEF ConvInv
<1> QED
  BY <1>1, ConversationInvariant, PTL

(* At rest, every line has been handled and every command answered, with   *)
(* an answer that was printed: nothing is forgotten on the way through     *)
(* the recv loop, handle_message, the sends and recv_thread_func.          *)
THEOREM RestMeansAnswered == Spec => []QuietMeansAnswered
<1>1. ConvInv => QuietMeansAnswered
  <2> SUFFICES ASSUME ConvInv, Quiet, Intact
               PROVE  /\ Len(handled) = Len(said)
                      /\ \A i \in DOMAIN said : said[i].slashes > 0 => IsAnswered(i)
    BY DEF QuietMeansAnswered
  <2>1. Up = <<>> /\ Down = <<>> /\ outbox = <<>> /\ ~lost /\ unsent # "part"
    BY DEF Quiet, Up, Down, Intact, Disturbed
  <2>2. Len(handled) = Len(said)
    BY <2>1 DEF ConvInv, UpInv, ClosedInv, Intact
  <2>3. Len(printed) = Len(told) /\ printed = Natural(Len(printed))
    BY <2>1 DEF ConvInv, DownInv, ClosedInv, Streaming, PrintedInOrder, Intact
  <2>4. ASSUME NEW i \in DOMAIN said, said[i].slashes > 0
        PROVE  IsAnswered(i)
    <3>1. /\ said \in Seq(Lines) /\ told \in Seq(0..Len(said)) /\ printed \in Seq(Nat)
          /\ Len(told) \in Nat /\ DOMAIN told = 1..Len(told) /\ i \in 1..Len(handled)
          /\ DOMAIN printed = 1..Len(printed)
      BY <2>2, LenProperties DEF ConvInv, Typed, ConversationTypeOK
    <3>2. i \in ToldOrToTell
      BY <2>4, <3>1 DEF ConvInv, AnswerInv, Intact
    <3>3. PICK k \in DOMAIN told : told[k] = i
      BY <2>1, <3>2 DEF ToldOrToTell
    <3>4. k \in DOMAIN printed /\ printed[k] = k /\ k # 0
      BY <2>3, <3>1 DEF Natural
    <3> QED
      BY <3>3, <3>4 DEF IsAnswered
  <2> QED
    BY <2>2, <2>4
<1> QED
  BY <1>1, ConversationInvariant, PTL

-----------------------------------------------------------------------------
(* What the two ends do to each other (module Exchange).                   *)

All == told \o NotBegun

(* Exchange has the outcomes of Commands, as the conversation has.         *)
LEMMA SameOutcomes == \A r, m : Talk!Outcomes(r, m) = Outcomes(r, m)
<1>1. Talk!Answered = Answered /\ \A n, e : Talk!Outcome(n, e) = Outcome(n, e)
  BY DEF Talk!Answered, Answered, Talk!Outcome, Outcome
<1>2. \A m : Talk!Anonymous(m) = Anonymous(m)
  BY <1>1 DEF Talk!Anonymous, Anonymous
<1>3. \A key, n : Talk!UserCommand(key, n) = UserCommand(key, n)
  BY <1>1 DEF Talk!UserCommand, UserCommand, Talk!Echoed, Echoed, Talk!EchoedFrom, EchoedFrom
<1>4. \A n : Talk!AdminCommand(n) = AdminCommand(n)
  BY <1>1 DEF Talk!AdminCommand, AdminCommand
<1>5. Talk!UserCommands = UserCommands /\ Talk!AdminCommands = AdminCommands
  BY DEF Talk!UserCommands, UserCommands, Talk!AdminCommands, AdminCommands
<1>6. \A m : Talk!Lua(m) = Lua(m)
  BY DEF Talk!Lua, Lua, Talk!Script, Script
<1>7. \A r, m : Talk!Dispatch(r, m) = Dispatch(r, m)
  BY <1>1, <1>3, <1>4, <1>5, <1>6 DEF Talk!Dispatch, Dispatch
<1> QED
  BY <1>1, <1>2, <1>7 DEF Talk!Outcomes, Outcomes

(* A step after which something is broken is allowed.                      *)
LEMMA BreakRefines ==
  ASSUME ~Intact'
  PROVE  Talk!ExchangeNext
BY DEF Talk!ExchangeNext, Talk!Break, Intact

(* A step that only moves cells is none.                                   *)
LEMMA StutterRefines ==
  ASSUME Intact' => Intact, UNCHANGED <<said, handled, rights, printed>>, All' = All
  PROVE  [Talk!ExchangeNext]_Talk!exchangeVars
<1>1. CASE ~Intact'
  BY <1>1, BreakRefines
<1>2. CASE Intact'
  <2>1. Intact' = Intact
    BY <1>2 DEF Intact
  <2> QED
    BY <2>1 DEF Talk!exchangeVars, All
<1> QED
  BY <1>1, <1>2

(* What the client is told and is to be told stays the same.               *)
LEMMA AllKept ==
  ASSUME UNCHANGED <<outbox, left, told>>
  PROVE  All' = All
BY DEF All, NotBegun, SizeDown

(* The steps that only move cells, or less.                                *)
LEMMA QuietRefines ==
  ASSUME \/ StopTyping \/ CloseSocket \/ Join \/ RecvEnd \/ ArriveFin \/ ArriveReset \/ Arrive
         \/ Wake \/ PeekNothing \/ PeekEnd \/ PeekShort \/ Expel
         \/ UNCHANGED vars,
         ClosedInv
  PROVE  [Talk!ExchangeNext]_Talk!exchangeVars
<1>1. /\ UNCHANGED <<said, handled, rights, printed, outbox, left, told>>
      /\ UNCHANGED <<lost, unsent>>
  BY DEF StopTyping, CloseSocket, Join, RecvEnd, ArriveFin, ArriveReset, Arrive, Wake, PeekNothing,
     PeekEnd, PeekShort, Expel, LeaveRecvLoop, vars, clientVars, netVars, loopVars, sendVars
<1>2. sock = "closed" => sock' = "closed"
  BY DEF StopTyping, CloseSocket, Join, RecvEnd, ArriveFin, ArriveReset, Arrive, Wake, PeekNothing,
     PeekEnd, PeekShort, Expel, Peeking, ClosedInv,
     LeaveRecvLoop, vars, clientVars, netVars, loopVars, sendVars
<1>3. Released => Released'
  BY DEF StopTyping, CloseSocket, Join, RecvEnd, ArriveFin, ArriveReset, Arrive, Wake, PeekNothing,
     PeekEnd, PeekShort, Expel, Released,
     LeaveRecvLoop, vars, clientVars, netVars, loopVars, sendVars
<1>4. Intact' => Intact
  BY <1>1, <1>2, <1>3 DEF Intact, Disturbed
<1> QED
  BY <1>1, <1>4, AllKept, StutterRefines

(* A frame given up, cells dropped, a descriptor closed.                   *)
LEMMA BreakingRefines ==
  ASSUME SendFails \/ TakePart \/ Sweep
  PROVE  Talk!ExchangeNext
<1>1. ~Intact'
  BY DEF SendFails, TakePart, Sweep, Intact, Disturbed, Released,
     clientVars, netVars, loopVars
<1> QED
  BY <1>1, BreakRefines

(* A line is typed.                                                        *)
LEMMA TypeLineRefines ==
  ASSUME NEW m \in Lines, TypeLine(m)
  PROVE  [Talk!ExchangeNext]_Talk!exchangeVars
<1>1. /\ said' = Append(said, m) /\ UNCHANGED <<handled, rights, printed, outbox, left, told>>
      /\ UNCHANGED <<lost, unsent, sock, recving>> /\ typing = "typing"
      /\ typing' \in {"leaving", "typing"}
  BY DEF TypeLine, loopVars, sendVars
<1>2. CASE Intact'
  <2>1. Intact = TRUE /\ Intact' = Intact
    BY <1>1, <1>2 DEF Intact, Disturbed, Released
  <2>2. All' = All
    BY <1>1, AllKept
  <2>3. Talk!Say(m)
    BY <1>1, <2>1, <2>2 DEF Talk!Say, All
  <2> QED
    BY <2>3 DEF Talk!ExchangeNext
<1>3. CASE ~Intact'
  BY <1>3, BreakRefines
<1> QED
  BY <1>2, <1>3

(* A history that counts before and after a step has got its next number.  *)
LEMMA RecordGoesOn ==
  ASSUME NEW history \in Seq(Nat), NEW i \in Nat, history = Natural(Len(history)),
         Record(history, i) = Natural(Len(Record(history, i)))
  PROVE  i = Len(history) + 1 /\ Record(history, i) = Append(history, i)
<1> DEFINE n == Len(history)
<1>1. n \in Nat /\ \A k \in 1..n : history[k] = k
  BY LenProperties DEF Natural
<1>2. history # <<>> => history[n] # 0
  <2>1. history # <<>> => n \in 1..n
    BY EmptySeq, LenProperties
  <2> QED
    BY <1>1, <2>1
<1>3. Record(history, i) = Append(history, i)
  BY <1>2 DEF Record
<1>4. Len(Append(history, i)) = n + 1 /\ Append(history, i)[n + 1] = i
  BY AppendProperties
<1>5. Natural(n + 1)[n + 1] = n + 1
  BY <1>1 DEF Natural
<1> QED
  BY <1>3, <1>4, <1>5

(* What the client prints is the next of the frames it is told.            *)
LEMMA RecvSomeRefines ==
  ASSUME ConvInv, ConvInv', RecvSome
  PROVE  [Talk!ExchangeNext]_Talk!exchangeVars
<1>1. /\ UNCHANGED <<said, handled, rights, outbox, left, told, lost, unsent, sock>>
      /\ (Released => Released')
  BY DEF RecvSome, AfterThisCall, Released, loopVars, sendVars
<1>2. Intact' => Intact
  BY <1>1 DEF Intact, Disturbed
<1>3. All' = All
  BY <1>1, AllKept
<1>4. PICK got : printed' = printed \/ printed' = Record(printed, FrameIn(got, SizesDown))
  BY DEF RecvSome, Receive
<1>5. CASE printed' = printed
  BY <1>1, <1>2, <1>3, <1>5, StutterRefines
<1>6. CASE printed' = Record(printed, FrameIn(got, SizesDown)) /\ Intact'
  <2> DEFINE i == FrameIn(got, SizesDown)
  <2>1. told \in Seq(Nat) /\ printed \in Seq(Nat) /\ All \in Seq(Nat) /\ Len(told) <= Len(All)
    <3>1. /\ told \in Seq(0..Len(said)) /\ outbox \in Seq(0..Len(said)) /\ printed \in Seq(Nat)
          /\ Len(said) \in Nat
      BY LenProperties DEF ConvInv, Typed, ConversationTypeOK
    <3>2. told \in Seq(Nat) /\ outbox \in Seq(Nat)
      BY <3>1
    <3>3. NotBegun \in Seq(Nat)
      BY <3>2, TailFacts DEF NotBegun
    <3>4. All \in Seq(Nat) /\ Len(All) = Len(told) + Len(NotBegun)
      BY <3>2, <3>3, ConcatFacts DEF All
    <3> QED
      BY <3>1, <3>2, <3>3, <3>4, LenProperties
  <2>2. SizesDown \in Seq(Nat) /\ Len(SizesDown) = Len(told)
    BY <2>1, SizesDownFacts
  <2>3. i \in 0..Len(told)
    BY <2>2, FrameInTyped
  <2>4. printed = Natural(Len(printed)) /\ Record(printed, i) = Natural(Len(Record(printed, i)))
    BY <1>2, <1>6 DEF ConvInv, PrintedInOrder, Intact, Disturbed
  <2>5. i \in Nat
    BY <2>1, <2>3, LenProperties
  <2> HIDE DEF i
  <2>6. i = Len(printed) + 1 /\ Record(printed, i) = Append(printed, i)
    BY <2>1, <2>4, <2>5, RecordGoesOn
  <2>7. Len(printed) < Len(All)
    BY <2>1, <2>3, <2>6, LenProperties
  <2>8. Intact = TRUE /\ Intact' = Intact
    BY <1>2, <1>6 DEF Intact
  <2>9. Talk!Show
    BY <1>1, <1>3, <1>6, <2>6, <2>7, <2>8 DEF Talk!Show, All, i
  <2> QED
    BY <2>9 DEF Talk!ExchangeNext
<1>7. CASE ~Intact'
  BY <1>7, BreakRefines
<1> QED
  BY <1>4, <1>5, <1>6, <1>7

(* Beginning a frame moves it from what is to be told to what was told.    *)
LEMMA BegunMoves ==
  ASSUME NEW S, NEW s \in Seq(S), NEW o \in Seq(S), o # <<>>
  PROVE  Append(s, Head(o)) \o Tail(o) = s \o o
<1>1. Head(o) \in S /\ Tail(o) \in Seq(S) /\ o = <<Head(o)>> \o Tail(o)
  BY HeadTailProperties, TailFacts
<1>2. <<Head(o)>> \in Seq(S) /\ Append(s, Head(o)) = s \o <<Head(o)>>
  BY <1>1, AppendIsConcat
<1>3. Associate(s, <<Head(o)>>, Tail(o))
  BY <1>1, <1>2, PartsAssociate, Zenon
<1> QED
  BY <1>1, <1>2, <1>3 DEF Associate

(* Sending some of a frame tells the client nothing new.                   *)
LEMMA SendSomeRefines ==
  ASSUME ConvInv, SendSome
  PROVE  [Talk!ExchangeNext]_Talk!exchangeVars
<1> DEFINE k == Least(Capacity - Len(down), left)
<1>1. /\ outbox # <<>> /\ Len(down) < Capacity /\ told' = Begun
      /\ IF k = left THEN NextFrame ELSE left' = left - k /\ UNCHANGED outbox
      /\ UNCHANGED <<said, handled, rights, printed, lost, unsent, sock, typing, recving>>
  BY DEF SendSome, clientVars, loopVars
<1>2. Intact' => Intact
  BY <1>1 DEF Intact, Disturbed, Released
<1>3. k = left \/ (left - k # SizeDown)
  <2>1. /\ left \in Nat /\ left >= 1 /\ left <= SizeDown /\ SizeDown \in Nat
        /\ Capacity \in Nat /\ Len(down) \in Nat
    BY ConversationAssumption, LenProperties DEF ConvInv, Typed, ConversationTypeOK, SizeDown
  <2>2. k \in Int /\ k >= 1
    BY <1>1, <2>1 DEF Least
  <2> QED
    BY <2>1, <2>2
<1> HIDE DEF k
<1>4. NotBegun' = Tail(outbox)
  <2>1. CASE k = left
    BY <1>1, <2>1 DEF NextFrame, NotBegun, SizeDown
  <2>2. CASE k # left
    BY <1>1, <1>3, <2>2 DEF NotBegun, SizeDown
  <2> QED
    BY <2>1, <2>2
<1>5. All' = All
  <2>1. told \in Seq(0..Len(said)) /\ outbox \in Seq(0..Len(said))
    BY DEF ConvInv, Typed
  <2>2. CASE left = SizeDown
    <3>1. told' = Append(told, Head(outbox)) /\ NotBegun = outbox
      BY <1>1, <2>2 DEF Begun, NotBegun
    <3> QED
      BY <1>1, <1>4, <2>1, <3>1, BegunMoves DEF All
  <2>3. CASE left # SizeDown
    <3>1. told' = told /\ NotBegun = Tail(outbox)
      BY <1>1, <2>3 DEF Begun, NotBegun
    <3> QED
      BY <1>4, <3>1 DEF All
  <2> QED
    BY <2>2, <2>3
<1> QED
  BY <1>1, <1>2, <1>5, StutterRefines

(* Others speak.                                                           *)
LEMMA OthersRefines ==
  ASSUME ConvInv, Others
  PROVE  [Talk!ExchangeNext]_Talk!exchangeVars
<1>1. /\ outbox = <<>> /\ outbox' = outbox \o [j \in 1..1 |-> 0]
      /\ UNCHANGED <<said, handled, rights, printed, left, told, lost, unsent, sock, typing, recving>>
  BY DEF Others, Idle, Send, clientVars, loopVars
<1>2. left = SizeDown
  BY <1>1, OutboxEmpty DEF ConvInv
<1>3. told \in Seq(0..Len(said)) /\ Len(said) \in Nat
  BY LenProperties DEF ConvInv, Typed, ConversationTypeOK
<1>4. All = told /\ All' = Append(told, 0)
  <2>1. NotBegun = <<>> /\ NotBegun' = outbox'
    BY <1>1, <1>2 DEF NotBegun, SizeDown
  <2>2. outbox' = <<0>>
    BY <1>1
  <2>3. All = told
    BY <1>3, <2>1, ConcatEmptySeq DEF All
  <2>4. Append(told, 0) = told \o <<0>>
    BY <1>3, AppendIsConcat
  <2> QED
    BY <1>1, <2>1, <2>2, <2>3, <2>4 DEF All
<1>5. Intact' = Intact
  BY <1>1 DEF Intact, Disturbed, Released
<1>6. CASE Intact
  <2>1. Intact = TRUE /\ All' = Append(All, 0)
    BY <1>4, <1>6 DEF Intact
  <2>2. Talk!Overhear
    BY <1>1, <1>5, <2>1 DEF Talk!Overhear, All
  <2> QED
    BY <2>2 DEF Talk!ExchangeNext
<1>7. CASE ~Intact
  BY <1>5, <1>7, BreakRefines
<1> QED
  BY <1>6, <1>7

(* The frame handled is the next line, and its answers go to the back.     *)
LEMMA TakeFrameRefines ==
  ASSUME ConvInv, ConvInv', TakeFrame
  PROVE  [Talk!ExchangeNext]_Talk!exchangeVars
<1>1. PICK f :
        /\ \E size \in FrameSizes :
             Peeked(size) /\ f = FrameIn(First(upBuf, size), SizesUp)
        /\ handled' = Record(handled, f)
        /\ \E m \in IF f = 0 THEN Lines ELSE {said[f]} : \E o \in Outcomes(rights, m) :
             /\ Send(o.answers, f)
             /\ rights' = IF o.does \in {"user", "admin"} THEN o.does ELSE rights
        /\ UNCHANGED <<lost, said, typing, recving, printed, left, told, unsent>>
  BY DEF TakeFrame, clientVars
<1>2. outbox = <<>> /\ left = SizeDown /\ sock # "closed"
  BY <1>1, OutboxEmpty DEF Peeked, Peeking, ConvInv, ClosedInv
<1>3. CASE Intact'
  <2>1. Intact = TRUE /\ Intact' = Intact
    BY <1>1, <1>2, <1>3 DEF Intact, Disturbed, Released
  <2>2. /\ said \in Seq(Lines) /\ Len(said) \in Nat /\ handled \in Seq(Nat)
        /\ told \in Seq(0..Len(said)) /\ Len(handled) \in Nat
    <3>1. /\ said \in Seq(Lines) /\ Len(said) \in Nat /\ handled \in Seq(0..Len(said))
          /\ told \in Seq(0..Len(said))
      BY LenProperties DEF ConvInv, Typed, ConversationTypeOK
    <3> QED
      BY <3>1, LenProperties
  <2>3. f \in 0..Len(said) /\ f \in Nat
    <3>1. SizesUp \in Seq(Nat) /\ Len(SizesUp) = Len(said)
      BY <2>2, SizesUpFacts
    <3>2. f \in 0..Len(said)
      BY <1>1, <3>1, FrameInTyped
    <3> QED
      BY <2>2, <3>2
  <2>4. f = Len(handled) + 1 /\ handled' = Append(handled, f)
    <3>1. handled = Natural(Len(handled)) /\ handled' = Natural(Len(handled'))
      BY <1>3, <2>1 DEF ConvInv, HandledInOrder, Intact, Disturbed
    <3> QED
      BY <1>1, <2>2, <2>3, <3>1, RecordGoesOn
  <2>5. Len(handled) < Len(said) /\ f # 0
    BY <2>2, <2>3, <2>4
  <2>6. PICK o \in Outcomes(rights, said[f]) :
          /\ Send(o.answers, f)
          /\ rights' = IF o.does \in {"user", "admin"} THEN o.does ELSE rights
    BY <1>1, <2>5
  <2> DEFINE c == [j \in 1..o.answers |-> f]
  <2>7. All = told /\ All' = All \o c
    <3>1. c \in Seq(0..Len(said))
      BY <2>3, OutcomesTyped
    <3> HIDE DEF c
    <3>2. outbox' = outbox \o c
      BY <2>6 DEF Send, c
    <3>3. outbox' = c
      BY <1>2, <3>1, <3>2, ConcatEmptySeq
    <3>4. NotBegun = <<>> /\ NotBegun' = c
      BY <1>1, <1>2, <3>3 DEF NotBegun, SizeDown
    <3>5. All = told
      BY <2>2, <3>4, ConcatEmptySeq DEF All
    <3> QED
      BY <1>1, <3>4, <3>5 DEF All
  <2>8. o \in Talk!Outcomes(rights, said[f])
    BY <2>6, SameOutcomes
  <2>9. Talk!Handle
    BY <1>1, <2>1, <2>4, <2>5, <2>6, <2>7, <2>8 DEF Talk!Handle, All
  <2> QED
    BY <2>9 DEF Talk!ExchangeNext
<1>4. CASE ~Intact'
  BY <1>4, BreakRefines
<1> QED
  BY <1>3, <1>4

(* Every step of the two programs, of the kernels and of the network is a  *)
(* step of the exchange, or none.                                          *)
LEMMA ExchangeSteps ==
  ASSUME ConvInv, ConvInv', [Next]_vars
  PROVE  [Talk!ExchangeNext]_Talk!exchangeVars
<1>1. CASE \E m \in Lines : TypeLine(m)
  BY <1>1, TypeLineRefines
<1>2. CASE RecvSome
  BY <1>2, RecvSomeRefines
<1>3. CASE SendSome
  BY <1>3, SendSomeRefines
<1>4. CASE SendFails \/ TakePart \/ Sweep
  BY <1>4, BreakingRefines
<1>5. CASE TakeFrame
  BY <1>5, TakeFrameRefines
<1>6. CASE Others
  BY <1>6, OthersRefines
<1>7. CASE \/ StopTyping \/ CloseSocket \/ Join \/ RecvEnd \/ ArriveFin \/ ArriveReset \/ Arrive
           \/ Wake \/ PeekNothing \/ PeekEnd \/ PeekShort \/ Expel
           \/ UNCHANGED vars
  BY <1>7, QuietRefines DEF ConvInv
<1> QED
  BY <1>1, <1>2, <1>3, <1>4, <1>5, <1>6, <1>7
     DEF Next, MainStep, ThreadStep, NetStep, ServerStep, Over

(* Cut into cells, buffered, sent in parts, put together again, and         *)
(* interleaved with everything else, the conversation is the exchange of   *)
(* lines and answers it is meant to be (the recv loop of main,             *)
(* handle_message, send_message_with_length, recv_thread_func).            *)
THEOREM ConversationImplementsExchange == Spec => ImplementsExchange
<1>1. Init => Talk!ExchangeInit
  <2> SUFFICES ASSUME Init PROVE Talk!ExchangeInit
    OBVIOUS
  <2>1. Intact = TRUE
    BY DEF Init, Intact, Disturbed, Released
  <2>2. told \o NotBegun = <<>>
    BY DEF Init, NotBegun
  <2> QED
    BY <2>1, <2>2 DEF Init, Talk!ExchangeInit
<1>2. ConvInv /\ ConvInv' /\ [Next]_vars => [Talk!ExchangeNext]_Talk!exchangeVars
  BY ExchangeSteps
<1> QED
  BY <1>1, <1>2, ConversationInvariant, PTL DEF Spec, ImplementsExchange, Talk!ExchangeSpec

(* What the client is told stands in the order of the lines, and is about  *)
(* none that has not been handled.                                         *)
Ordered(s) == \A j, k \in DOMAIN s : j < k /\ s[j] # 0 /\ s[k] # 0 => s[j] <= s[k]
OrderInv == Intact => All \in Seq(0..Len(handled)) /\ Ordered(All)

(* Something about the last line, or about none, is added at the back.     *)
LEMMA OrderedExtended ==
  ASSUME NEW n \in Nat, NEW s \in Seq(0..n), Ordered(s), NEW c \in Seq({0, n})
  PROVE  s \o c \in Seq(0..n) /\ Ordered(s \o c)
<1>1. s \in Seq(0..n) /\ c \in Seq(0..n)
  OBVIOUS
<1>2. /\ s \o c \in Seq(0..n) /\ Len(s \o c) = Len(s) + Len(c)
      /\ \A k \in 1..Len(s) : (s \o c)[k] = s[k]
      /\ \A k \in 1..Len(c) : (s \o c)[Len(s) + k] = c[k]
  BY <1>1, ConcatFacts
<1>3. Len(s) \in Nat /\ Len(c) \in Nat /\ DOMAIN s = 1..Len(s) /\ DOMAIN (s \o c) = 1..(Len(s) + Len(c))
  BY <1>1, <1>2, LenProperties
<1>4. ASSUME NEW j \in 1..(Len(s) + Len(c)), NEW k \in 1..(Len(s) + Len(c)), j < k,
             (s \o c)[j] # 0, (s \o c)[k] # 0
      PROVE  (s \o c)[j] <= (s \o c)[k]
  <2>1. CASE k <= Len(s)
    <3>1. j \in 1..Len(s) /\ k \in 1..Len(s)
      BY <1>3, <1>4, <2>1
    <3>2. (s \o c)[j] = s[j] /\ (s \o c)[k] = s[k]
      BY <1>2, <3>1
    <3> QED
      BY <1>3, <1>4, <3>1, <3>2 DEF Ordered
  <2>2. CASE ~(k <= Len(s))
    <3>1. k - Len(s) \in 1..Len(c) /\ Len(s) + (k - Len(s)) = k
      BY <1>3, <2>2
    <3>2. (s \o c)[k] = c[k - Len(s)]
      BY <1>2, <3>1
    <3>3. c[k - Len(s)] \in {0, n}
      BY <3>1, ElementOfSeq
    <3>4. (s \o c)[k] = n
      BY <1>4, <3>2, <3>3
    <3>5. (s \o c)[j] \in 0..n
      BY <1>2, <1>3, <1>4, ElementOfSeq
    <3> QED
      BY <3>4, <3>5
  <2> QED
    BY <2>1, <2>2
<1> QED
  BY <1>2, <1>3, <1>4 DEF Ordered

(* Nothing gets out of order.                                              *)
LEMMA OrderSteps ==
  ASSUME OrderInv, ConvInv, ConvInv', [Next]_vars
  PROVE  OrderInv'
<1>1. [Talk!ExchangeNext]_Talk!exchangeVars
  BY ExchangeSteps
<1>2. handled \in Seq(0..Len(said)) /\ Len(handled) \in Nat
  BY LenProperties DEF ConvInv, Typed
<1> SUFFICES ASSUME Intact'
             PROVE  All' \in Seq(0..Len(handled')) /\ Ordered(All')
  BY DEF OrderInv
<1>3. ASSUME Intact, UNCHANGED <<handled, All>>
      PROVE  All' \in Seq(0..Len(handled')) /\ Ordered(All')
  BY <1>3 DEF OrderInv
<1>4. CASE \E m \in Lines : Talk!Say(m)
  BY <1>3, <1>4 DEF Talk!Say, All
<1>5. CASE Talk!Show
  BY <1>3, <1>5 DEF Talk!Show, All
<1>6. CASE Talk!Break
  BY <1>6 DEF Talk!Break, Intact
<1>7. CASE UNCHANGED Talk!exchangeVars
  <2>1. Intact
    BY <1>7 DEF Talk!exchangeVars, Intact
  <2> QED
    BY <1>3, <1>7, <2>1 DEF Talk!exchangeVars, All
<1>8. CASE Talk!Overhear
  <2>1. /\ Intact /\ All' = Append(All, 0) /\ handled' = handled
        /\ All \in Seq(0..Len(handled)) /\ Ordered(All)
    BY <1>8 DEF Talk!Overhear, All, OrderInv
  <2>2. <<0>> \in Seq({0, Len(handled)}) /\ Append(All, 0) = All \o <<0>>
    BY <1>2, <2>1, AppendIsConcat
  <2> HIDE DEF All
  <2>3. All \o <<0>> \in Seq(0..Len(handled)) /\ Ordered(All \o <<0>>)
    BY <1>2, <2>1, <2>2, OrderedExtended
  <2> QED
    BY <2>1, <2>2, <2>3
<1>9. CASE Talk!Handle
  <2> DEFINE n == Len(handled) + 1
  <2>1. /\ Intact /\ handled' = Append(handled, n)
        /\ \E o \in Talk!Outcomes(rights, said[n]) : All' = All \o [k \in 1..o.answers |-> n]
        /\ All \in Seq(0..Len(handled)) /\ Ordered(All)
    BY <1>9 DEF Talk!Handle, All, OrderInv
  <2>2. PICK o \in Outcomes(rights, said[n]) : All' = All \o [k \in 1..o.answers |-> n]
    BY <2>1, SameOutcomes
  <2>3. Len(handled') = n /\ n \in Nat
    BY <1>2, <2>1, AppendProperties
  <2>4. All \in Seq(0..n)
    BY <1>2, <2>1
  <2>5. [k \in 1..o.answers |-> n] \in Seq({0, n})
    BY OutcomesTyped
  <2> HIDE DEF n
  <2>6. /\ All \o [k \in 1..o.answers |-> n] \in Seq(0..n)
        /\ Ordered(All \o [k \in 1..o.answers |-> n])
    BY <2>1, <2>3, <2>4, <2>5, OrderedExtended
  <2> QED
    BY <2>2, <2>3, <2>6
<1> QED
  BY <1>1, <1>4, <1>5, <1>6, <1>7, <1>8, <1>9 DEF Talk!ExchangeNext

(* The client is told the answers in the order of its commands, and every  *)
(* command that was handled is answered, whatever others send it in        *)
(* between (handle_message, called by the recv loop of main).              *)
THEOREM AnswersAreToldInOrder == Spec => []ToldInOrder
<1>1. Init => OrderInv
  <2> SUFFICES ASSUME Init PROVE OrderInv
    OBVIOUS
  <2>1. All = <<>>
    BY DEF Init, All, NotBegun
  <2>2. <<>> \in Seq(0..Len(handled)) /\ Ordered(<<>>)
    BY DEF Ordered
  <2> QED
    BY <2>1, <2>2 DEF OrderInv
<1>2. OrderInv /\ ConvInv /\ ConvInv' /\ [Next]_vars => OrderInv'
  BY OrderSteps
<1>3. ConvInv /\ OrderInv => ToldInOrder
  <2> SUFFICES ASSUME ConvInv, OrderInv, Intact
               PROVE  /\ Ordered(All)
                      /\ \A i \in 1..Len(handled) : said[i].slashes > 0 =>
                           \E k \in DOMAIN All : All[k] = i
    BY DEF ToldInOrder, Talk!AnswersInOrder, All, Ordered
  <2>1. told \in Seq(0..Len(said)) /\ outbox \in Seq(0..Len(said))
    BY DEF ConvInv, Typed
  <2>2. NotBegun \in Seq(0..Len(said))
    BY <2>1, TailFacts DEF NotBegun
  <2>3. /\ \A k \in 1..Len(told) : All[k] = told[k]
        /\ \A k \in 1..Len(NotBegun) : All[Len(told) + k] = NotBegun[k]
        /\ DOMAIN All = 1..(Len(told) + Len(NotBegun))
        /\ Len(told) \in Nat /\ Len(NotBegun) \in Nat
        /\ DOMAIN told = 1..Len(told) /\ DOMAIN NotBegun = 1..Len(NotBegun)
    BY <2>1, <2>2, ConcatFacts, LenProperties DEF All
  <2> HIDE DEF All
  <2>4. \A k \in DOMAIN told : \E j \in DOMAIN All : All[j] = told[k]
    <3>1. \A k \in 1..Len(told) : k \in 1..(Len(told) + Len(NotBegun))
      BY <2>3
    <3> QED
      BY <2>3, <3>1
  <2>5. \A k \in DOMAIN NotBegun : \E j \in DOMAIN All : All[j] = NotBegun[k]
    <3>1. \A k \in 1..Len(NotBegun) : Len(told) + k \in 1..(Len(told) + Len(NotBegun))
      BY <2>3
    <3> QED
      BY <2>3, <3>1
  <2>6. ASSUME NEW k \in DOMAIN outbox
        PROVE  \/ \E j \in DOMAIN NotBegun : NotBegun[j] = outbox[k]
               \/ \E j \in DOMAIN told : told[j] = outbox[k]
    <3>1. CASE left = SizeDown \/ outbox = <<>>
      BY <3>1 DEF NotBegun
    <3>2. CASE ~(left = SizeDown \/ outbox = <<>>)
      <4>1. told # <<>> /\ told[Len(told)] = Head(outbox) /\ NotBegun = Tail(outbox)
        BY <3>2 DEF ConvInv, BegunInv, NotBegun
      <4>2. Len(told) \in DOMAIN told
        BY <2>1, <2>3, <4>1, EmptySeq
      <4>3. outbox[k] = Head(outbox) \/ \E j \in DOMAIN Tail(outbox) : outbox[k] = Tail(outbox)[j]
        BY <2>1, <3>2, TailFacts
      <4> QED
        BY <4>1, <4>2, <4>3
    <3> QED
      BY <3>1, <3>2
  <2>7. ASSUME NEW i \in 1..Len(handled), said[i].slashes > 0
        PROVE  \E k \in DOMAIN All : All[k] = i
    <3>1. i \in ToldOrToTell
      BY <2>7 DEF ConvInv, AnswerInv, Intact
    <3> QED
      BY <2>4, <2>5, <2>6, <3>1 DEF ToldOrToTell
  <2> QED
    BY <2>7 DEF OrderInv
<1> QED
  BY <1>1, <1>2, <1>3, ConversationInvariant, PTL DEF Spec
=============================================================================
