--------------------------- MODULE StreamsProofs ---------------------------
(***************************************************************************)
(* Proofs about Streams, for any number of viewers, any well-formed        *)
(* pictures and any noise between them, any buffer and any scan limit.     *)
(*                                                                         *)
(* That pictures come out whole rests on a fact about the bytes that is    *)
(* local: wherever FF D8 stands in what has been read of the picture at    *)
(* hand and what is still in the pipe, a picture stands there, and as long *)
(* as ffmpeg lives none of them is cut.  Reading a byte moves it from the  *)
(* one to the other, so the fact outlives the reading without any talk of  *)
(* how the pipe is made up of pictures.                                    *)
(***************************************************************************)
EXTENDS Streams, TLAPS

\* Picture p stands in w at i, or all of it but its last byte ends w, as it may when
\* ffmpeg is dead.
StandsAt(w, i, p) == i + Len(p) - 1 <= Len(w) /\ \A k \in 1 .. Len(p) : w[i + k - 1] = p[k]
CutAt(w, i, p) == i + Len(p) - 2 = Len(w) /\ \A k \in 1 .. Len(p) - 1 : w[i + k - 1] = p[k]
PictureAt(w, i, p, lives) == StandsAt(w, i, p) \/ (~lives /\ CutAt(w, i, p))

Begins(w, i) == w[i] = "FF" /\ w[i + 1] = "D8"

\* Wherever a picture begins in w there is one.
HasPictures(w, lives) ==
    \A i \in 1 .. Len(w) - 1 : Begins(w, i) => \E p \in Picture : PictureAt(w, i, p, lives)

\* What the scan has read of the picture at hand or of its SOI.
Held(s) == IF s.found THEN s.buf ELSE IF s.half THEN <<"FF">> ELSE <<>>

\* Inside a picture: the scan has not reached its end, and half says whether the
\* last byte was an FF.
Inside(s, w, lives) ==
    /\ \E p \in Picture : Len(s.buf) < Len(p) /\ PictureAt(w, 1, p, lives)
    /\ Len(s.buf) >= 2
    /\ s.half <=> Len(s.buf) >= 3 /\ s.buf[Len(s.buf)] = "FF"

\* The scan and the bytes q it has not read yet.
Follows(s, q, lives) ==
    /\ s.result = "frame" => s.found /\ s.buf \in Picture
    /\ s.result # "exhausted" => HasPictures(Held(s) \o q, lives)
    /\ s.found /\ s.result = "more" => Inside(s, Held(s) \o q, lives)
    /\ ~s.found => s.buf = <<>>

ScanType ==
    [found : BOOLEAN, half : BOOLEAN, buf : Seq(Byte), turns : 1 .. MaxScan,
     result : {"more", "frame", "exhausted"}]

Shape ==
    /\ plugged \in BOOLEAN /\ online \in BOOLEAN
    /\ streamSema \in Viewer \cup {None}
    /\ stage \in [Viewer -> Stage] /\ left \in [Viewer -> BOOLEAN]
    /\ ffmpeg \in [Viewer -> {None, "runs", "hangs", "dead"}]
    /\ pipe \in [Viewer -> Seq(Byte)]
    /\ scan \in [Viewer -> ScanType]
    /\ frame \in [Viewer -> Picture \cup {None}] /\ lastFrame \in Picture \cup {None}

\* The place is held from the request to the release, and a process lives from the
\* launch until it is waited for.
PlaceIsHeld ==
    \A v \in Viewer :
        /\ stage[v] \in {"away", "gone"} \/ streamSema = v
        /\ ffmpeg[v] # None =>
             stage[v] \in {"first", "loop", "read", "store", "write", "cleanup", "wait", "killed"}
        /\ ffmpeg[v] = None => pipe[v] = <<>>

\* A picture in hand is on its way, and a scan under way is one for it.
HandsAreEmpty ==
    \A v \in Viewer :
        /\ frame[v] = None <=> stage[v] \notin {"store", "write"}
        /\ stage[v] \notin {"first", "read"} => scan[v] = Scanner

\* The buffer is looked at before a byte is put into it, but not between FF and the
\* next.
Bounded(s) ==
    Len(s.buf) <= (IF s.half /\ s.result = "more" THEN MaxBuffer + 1 ELSE MaxBuffer + 2)

BufferIsBounded ==
    \A v \in Viewer : Bounded(scan[v])

ScanFollows ==
    \A v \in Viewer : stage[v] \in {"first", "loop", "read", "store", "write"} =>
        Follows(scan[v], pipe[v], Lives(v))

IInv == Shape /\ PlaceIsHeld /\ HandsAreEmpty /\ BufferIsBounded /\ ScanFollows

-----------------------------------------------------------------------------
(* Pictures and the bytes they are made of.                                  *)

LEMMA PictureBytes ==
  ASSUME NEW p \in Picture
  PROVE  /\ p \in Seq(Byte) /\ Len(p) \in Nat /\ Len(p) >= 4
         /\ p[1] = "FF" /\ p[2] = "D8" /\ p[Len(p) - 1] = "FF" /\ p[Len(p)] = "D9"
         /\ \A i \in 3 .. Len(p) - 2 : p[i] = "FF" => p[i + 1] = "00"
<1>1. WellFormed(p)
  BY StreamsAssumption
<1>2. p \in Seq(Byte) /\ Len(p) \in Nat /\ Len(p) >= 4
  BY <1>1 DEF WellFormed
<1>3. SubSeq(p, 1, 2) = SOI /\ SubSeq(p, Len(p) - 1, Len(p)) = EOI
  BY <1>1 DEF WellFormed
<1>4. SubSeq(p, 1, 2)[1] = p[1] /\ SubSeq(p, 1, 2)[2] = p[2]
  BY <1>2
<1>5. SubSeq(p, Len(p) - 1, Len(p))[1] = p[Len(p) - 1] /\ SubSeq(p, Len(p) - 1, Len(p))[2] = p[Len(p)]
  BY <1>2
<1>6. SOI[1] = "FF" /\ SOI[2] = "D8" /\ EOI[1] = "FF" /\ EOI[2] = "D9"
  BY DEF SOI, EOI
<1>7. QED
  BY <1>1, <1>2, <1>3, <1>4, <1>5, <1>6 DEF WellFormed

(* SOI stands nowhere in a picture but at its beginning.                      *)
LEMMA OneBeginning ==
  ASSUME NEW p \in Picture, NEW i \in 1 .. Len(p) - 1, Begins(p, i)
  PROVE  i = 1
<1>1. Len(p) \in Nat /\ p[2] = "D8" /\ p[Len(p)] = "D9"
  BY PictureBytes
<1>2. \A j \in 3 .. Len(p) - 2 : p[j] = "FF" => p[j + 1] = "00"
  BY PictureBytes
<1>3. CASE i = 2
  BY <1>1, <1>3 DEF Begins
<1>4. CASE i \in 3 .. Len(p) - 2
  BY <1>2, <1>4 DEF Begins
<1>5. CASE i = Len(p) - 1
  BY <1>1, <1>5 DEF Begins
<1>6. QED
  BY <1>1, <1>3, <1>4, <1>5

LEMMA NoiseBytes ==
  ASSUME NEW n \in Noise
  PROVE  n \in Seq(Byte) /\ \A i \in 1 .. Len(n) : n[i] # "D8"
<1>1. n \in Seq(Byte) /\ ToSet(n) \cap {"D8"} = {}
  BY StreamsAssumption
<1>2. \A i \in 1 .. Len(n) : n[i] \in ToSet(n)
  BY <1>1 DEF ToSet
<1>3. QED
  BY <1>1, <1>2

LEMMA Concatenation ==
  ASSUME NEW s \in Seq(Byte), NEW t \in Seq(Byte)
  PROVE  /\ s \o t \in Seq(Byte) /\ Len(s \o t) = Len(s) + Len(t)
         /\ \A i \in 1 .. Len(s) : (s \o t)[i] = s[i]
         /\ \A i \in 1 .. Len(t) : (s \o t)[Len(s) + i] = t[i]
  OBVIOUS

\* Without its first n bytes w is u.
EndsIn(w, n, u) == Len(w) = n + Len(u) /\ \A i \in 1 .. Len(u) : w[n + i] = u[i]

(* What is read away takes nothing from the pictures that come after.         *)
LEMMA RestHasPictures ==
  ASSUME NEW lives \in BOOLEAN, NEW w \in Seq(Byte), NEW u \in Seq(Byte), NEW n \in Nat,
         EndsIn(w, n, u), HasPictures(w, lives)
  PROVE  HasPictures(u, lives)
<1> SUFFICES ASSUME NEW i \in 1 .. Len(u) - 1, Begins(u, i)
             PROVE  \E p \in Picture : PictureAt(u, i, p, lives)
  BY DEF HasPictures
<1>1. n + i \in 1 .. Len(w) - 1
  BY DEF EndsIn
<1>2. u[i] = w[n + i] /\ u[i + 1] = w[n + (i + 1)]
  BY DEF EndsIn
<1>3. Begins(w, n + i)
  BY <1>2 DEF Begins
<1>4. PICK p \in Picture : PictureAt(w, n + i, p, lives)
  BY <1>1, <1>3 DEF HasPictures
<1>5. Len(p) \in Nat
  BY PictureBytes
<1>6. CASE StandsAt(w, n + i, p)
  <2>1. i + Len(p) - 1 <= Len(u)
    BY <1>5, <1>6 DEF StandsAt, EndsIn
  <2>2. ASSUME NEW k \in 1 .. Len(p) PROVE u[i + k - 1] = p[k]
    <3>1. i + k - 1 \in 1 .. Len(u)
      BY <1>5, <2>1
    <3>2. w[n + i + k - 1] = p[k]
      BY <1>6 DEF StandsAt
    <3>3. w[n + (i + k - 1)] = u[i + k - 1]
      BY <3>1 DEF EndsIn
    <3>4. n + (i + k - 1) = n + i + k - 1
      BY <1>5
    <3>5. QED
      BY <3>2, <3>3, <3>4
  <2>3. QED
    BY <2>1, <2>2 DEF PictureAt, StandsAt
<1>7. CASE ~lives /\ CutAt(w, n + i, p)
  <2>1. i + Len(p) - 2 = Len(u)
    <3>1. n + i + Len(p) - 2 = Len(w)
      BY <1>7 DEF CutAt
    <3>2. Len(w) = n + Len(u) /\ Len(u) \in Nat
      BY DEF EndsIn
    <3>3. QED
      BY <1>5, <3>1, <3>2
  <2>2. ASSUME NEW k \in 1 .. Len(p) - 1 PROVE u[i + k - 1] = p[k]
    <3>1. i + k - 1 \in 1 .. Len(u)
      BY <1>5, <2>1
    <3>2. w[n + i + k - 1] = p[k]
      BY <1>7 DEF CutAt
    <3>3. w[n + (i + k - 1)] = u[i + k - 1]
      BY <3>1 DEF EndsIn
    <3>4. n + (i + k - 1) = n + i + k - 1
      BY <1>5
    <3>5. QED
      BY <3>2, <3>3, <3>4
  <2>3. QED
    BY <1>7, <2>1, <2>2 DEF PictureAt, CutAt
<1>8. QED
  BY <1>4, <1>6, <1>7 DEF PictureAt

(* While ffmpeg lives every picture in the pipe is whole, so that more bytes   *)
(* leave those alone that are there.                                          *)
LEMMA MoreBytes ==
  ASSUME NEW w \in Seq(Byte), NEW u \in Seq(Byte), NEW lives \in BOOLEAN,
         NEW i \in 1 .. Len(w), NEW p \in Picture, PictureAt(w, i, p, TRUE)
  PROVE  PictureAt(w \o u, i, p, lives)
<1>1. Len(p) \in Nat
  BY PictureBytes
<1>2. i + Len(p) - 1 <= Len(w) /\ \A k \in 1 .. Len(p) : w[i + k - 1] = p[k]
  BY DEF PictureAt, StandsAt
<1>3. i + Len(p) - 1 <= Len(w \o u)
  <2>1. Len(w \o u) = Len(w) + Len(u) /\ Len(w) \in Nat /\ Len(u) \in Nat
    OBVIOUS
  <2>2. QED
    BY <1>1, <1>2, <2>1
<1>4. ASSUME NEW k \in 1 .. Len(p) PROVE (w \o u)[i + k - 1] = p[k]
  <2>1. i + k - 1 \in 1 .. Len(w)
    BY <1>1, <1>2
  <2>2. QED
    BY <1>2, <2>1, Concatenation
<1>5. QED
  BY <1>3, <1>4 DEF PictureAt, StandsAt

(* A new picture begins only where the new bytes do.                          *)
LEMMA WrittenHasPictures ==
  ASSUME NEW lives \in BOOLEAN, NEW w \in Seq(Byte), NEW u \in Seq(Byte),
         HasPictures(w, TRUE), Len(u) > 0 => u[1] # "D8",
         HasPictures(u, lives)
  PROVE  HasPictures(w \o u, lives)
<1> SUFFICES ASSUME NEW i \in 1 .. Len(w \o u) - 1, Begins(w \o u, i)
             PROVE  \E p \in Picture : PictureAt(w \o u, i, p, lives)
  BY DEF HasPictures
<1>1. /\ Len(w \o u) = Len(w) + Len(u) /\ Len(w) \in Nat /\ Len(u) \in Nat
      /\ i \in Nat /\ i >= 1 /\ i + 1 <= Len(w) + Len(u)
  OBVIOUS
<1>2. CASE i + 1 <= Len(w)
  <2>1. (w \o u)[i] = w[i] /\ (w \o u)[i + 1] = w[i + 1]
    BY <1>1, <1>2, Concatenation
  <2>2. i \in 1 .. Len(w) - 1 /\ i \in 1 .. Len(w)
    BY <1>1, <1>2
  <2>3. Begins(w, i)
    BY <2>1 DEF Begins
  <2>4. PICK p \in Picture : PictureAt(w, i, p, TRUE)
    BY <2>2, <2>3 DEF HasPictures
  <2>5. PictureAt(w \o u, i, p, lives)
    BY <2>2, <2>4, MoreBytes
  <2>6. QED
    BY <2>5
<1>3. CASE i = Len(w)
  <2>1. (w \o u)[Len(w) + 1] = u[1]
    BY <1>1, <1>3, Concatenation
  <2>2. QED
    BY <1>1, <1>3, <2>1 DEF Begins
<1>4. CASE i > Len(w)
  <2> DEFINE j == i - Len(w)
  <2>1. j \in 1 .. Len(u) - 1 /\ i = Len(w) + j
    BY <1>1, <1>4
  <2>2. (w \o u)[Len(w) + j] = u[j] /\ (w \o u)[Len(w) + (j + 1)] = u[j + 1]
    BY <1>1, <2>1, Concatenation
  <2>3. i + 1 = Len(w) + (j + 1)
    BY <1>1, <2>1
  <2>4. Begins(u, j)
    BY <2>1, <2>2, <2>3 DEF Begins
  <2>5. PICK p \in Picture : PictureAt(u, j, p, lives)
    BY <2>1, <2>4 DEF HasPictures
  <2>6. Len(p) \in Nat
    BY PictureBytes
  <2> HIDE DEF j
  <2>7. ASSUME NEW k \in Nat, k >= 1, j + k - 1 <= Len(u)
        PROVE  (w \o u)[i + k - 1] = u[j + k - 1]
    <3>1. j + k - 1 \in 1 .. Len(u)
      BY <1>1, <2>1, <2>7
    <3>2. i + k - 1 = Len(w) + (j + k - 1)
      BY <1>1, <2>1, <2>7
    <3>3. QED
      BY <3>1, <3>2, Concatenation
  <2>8. CASE StandsAt(u, j, p)
    <3>1. i + Len(p) - 1 <= Len(w \o u)
      <4>1. j + Len(p) - 1 <= Len(u)
        BY <2>8 DEF StandsAt
      <4>2. QED
        BY <1>1, <2>1, <2>6, <4>1
    <3>2. ASSUME NEW k \in 1 .. Len(p) PROVE (w \o u)[i + k - 1] = p[k]
      <4>1. j + Len(p) - 1 <= Len(u) /\ u[j + k - 1] = p[k]
        BY <2>8 DEF StandsAt
      <4>2. k \in Nat /\ k >= 1 /\ j + k - 1 <= Len(u)
        BY <1>1, <2>1, <2>6, <4>1
      <4>3. QED
        BY <2>7, <4>1, <4>2
    <3>3. QED
      BY <3>1, <3>2 DEF PictureAt, StandsAt
  <2>9. CASE ~lives /\ CutAt(u, j, p)
    <3>1. i + Len(p) - 2 = Len(w \o u)
      <4>1. j + Len(p) - 2 = Len(u)
        BY <2>9 DEF CutAt
      <4>2. QED
        BY <1>1, <2>1, <2>6, <4>1
    <3>2. ASSUME NEW k \in 1 .. Len(p) - 1 PROVE (w \o u)[i + k - 1] = p[k]
      <4>1. j + Len(p) - 2 = Len(u) /\ u[j + k - 1] = p[k]
        BY <2>9 DEF CutAt
      <4>2. k \in Nat /\ k >= 1 /\ j + k - 1 <= Len(u)
        BY <1>1, <2>1, <2>6, <4>1
      <4>3. QED
        BY <2>7, <4>1, <4>2
    <3>3. QED
      BY <2>9, <3>1, <3>2 DEF PictureAt, CutAt
  <2>10. QED
    BY <2>5, <2>8, <2>9 DEF PictureAt
<1>5. QED
  BY <1>1, <1>2, <1>3, <1>4

(* A picture alone, one without its last byte, and noise.                     *)
LEMMA PictureHasPictures ==
  ASSUME NEW p \in Picture
  PROVE  HasPictures(p, TRUE)
<1> SUFFICES ASSUME NEW i \in 1 .. Len(p) - 1, Begins(p, i) PROVE PictureAt(p, i, p, TRUE)
  BY DEF HasPictures
<1>1. i = 1
  BY OneBeginning
<1>2. Len(p) \in Nat
  BY PictureBytes
<1>3. QED
  BY <1>1, <1>2 DEF PictureAt, StandsAt

Cut(p) == SubSeq(p, 1, Len(p) - 1)

LEMMA CutBytes ==
  ASSUME NEW p \in Picture
  PROVE  /\ Cut(p) \in Seq(Byte) /\ Len(Cut(p)) = Len(p) - 1 /\ Cut(p)[1] = "FF"
         /\ \A k \in 1 .. Len(p) - 1 : Cut(p)[k] = p[k]
<1>1. p \in Seq(Byte) /\ Len(p) \in Nat /\ Len(p) >= 4 /\ p[1] = "FF"
  BY PictureBytes
<1>2. \A k \in 1 .. Len(p) - 1 : Cut(p)[k] = p[k]
  BY <1>1 DEF Cut
<1>3. Cut(p) \in Seq(Byte) /\ Len(Cut(p)) = Len(p) - 1
  BY <1>1 DEF Cut
<1>4. QED
  BY <1>1, <1>2, <1>3

LEMMA CutHasPictures ==
  ASSUME NEW p \in Picture
  PROVE  HasPictures(Cut(p), FALSE)
<1> SUFFICES ASSUME NEW i \in 1 .. Len(Cut(p)) - 1, Begins(Cut(p), i)
             PROVE  PictureAt(Cut(p), i, p, FALSE)
  BY DEF HasPictures
<1>1. Len(p) \in Nat /\ Len(Cut(p)) = Len(p) - 1 /\ \A k \in 1 .. Len(p) - 1 : Cut(p)[k] = p[k]
  BY PictureBytes, CutBytes
<1>2. i \in 1 .. Len(p) - 1 /\ i + 1 \in 1 .. Len(p) - 1
  BY <1>1
<1>3. Begins(p, i)
  BY <1>1, <1>2 DEF Begins
<1>4. i = 1
  BY <1>2, <1>3, OneBeginning
<1>5. QED
  BY <1>1, <1>4 DEF PictureAt, CutAt

LEMMA FfmpegHasPictures ==
  ASSUME NEW w \in Seq(Byte), HasPictures(w, TRUE), NEW u \in Picture \cup Noise
  PROVE  HasPictures(w \o u, TRUE) /\ u \in Seq(Byte)
<1>1. CASE u \in Picture
  <2>1. u \in Seq(Byte) /\ u[1] = "FF" /\ HasPictures(u, TRUE)
    BY <1>1, PictureBytes, PictureHasPictures
  <2>2. QED
    BY <2>1, WrittenHasPictures
<1>2. CASE u \in Noise
  <2>1. u \in Seq(Byte) /\ \A i \in 1 .. Len(u) : u[i] # "D8"
    BY <1>2, NoiseBytes
  <2>2. Len(u) > 0 => u[1] # "D8"
    BY <2>1
  <2>3. HasPictures(u, TRUE)
    BY <2>1 DEF HasPictures, Begins
  <2>4. QED
    BY <2>1, <2>2, <2>3, WrittenHasPictures
<1>3. QED
  BY <1>1, <1>2

LEMMA DeathHasPictures ==
  ASSUME NEW w \in Seq(Byte), HasPictures(w, TRUE)
  PROVE  /\ HasPictures(w, FALSE)
         /\ \A p \in Picture : HasPictures(w \o Cut(p), FALSE)
<1>1. HasPictures(w, FALSE)
  BY DEF HasPictures, PictureAt
<1>2. ASSUME NEW p \in Picture PROVE HasPictures(w \o Cut(p), FALSE)
  <2>1. Cut(p) \in Seq(Byte) /\ Cut(p)[1] = "FF" /\ HasPictures(Cut(p), FALSE)
    BY CutBytes, CutHasPictures
  <2>2. QED
    BY <2>1, WrittenHasPictures
<1>3. QED
  BY <1>1, <1>2
-----------------------------------------------------------------------------
(* The scan.                                                                 *)

LEMMA ScannerType ==
  /\ Scanner \in ScanType /\ Bounded(Scanner) /\ Held(Scanner) = <<>>
  /\ Scanner.result = "more" /\ ~Scanner.found /\ Scanner.buf = <<>>
<1>1. MaxScan \in Nat \ {0} /\ MaxBuffer \in Nat
  BY StreamsAssumption
<1>2. QED
  BY <1>1 DEF Scanner, ScanType, Bounded, Held

(* A fresh scan follows whatever pipe has pictures.                           *)
LEMMA ScannerFollows ==
  ASSUME NEW q \in Seq(Byte), NEW lives \in BOOLEAN, HasPictures(q, lives)
  PROVE  Follows(Scanner, q, lives)
<1>1. <<>> \o q = q
  OBVIOUS
<1>2. QED
  BY <1>1, ScannerType DEF Follows

LEMMA HeldType ==
  ASSUME NEW s \in ScanType
  PROVE  Held(s) \in Seq(Byte)
<1>1. s.buf \in Seq(Byte)
  BY DEF ScanType
<1>2. <<"FF">> \in Seq(Byte) /\ <<>> \in Seq(Byte)
  BY DEF Byte
<1>3. QED
  BY <1>1, <1>2 DEF Held

(* Another turn changes nothing but the count, and may be the last.           *)
LEMMA TurnType ==
  ASSUME NEW s \in ScanType, s.result = "more"
  PROVE  LET t == NextTurn(s) IN
         /\ t \in ScanType /\ t.result \in {"more", "exhausted"}
         /\ t.found = s.found /\ t.half = s.half /\ t.buf = s.buf
<1>1. MaxScan \in Nat \ {0}
  BY StreamsAssumption
<1>2. QED
  BY <1>1 DEF ScanType, NextTurn

LEMMA TurnFollows ==
  ASSUME NEW s \in ScanType, s.result = "more", NEW q, NEW lives \in BOOLEAN,
         Follows(s, q, lives), Bounded(s)
  PROVE  NextTurn(s) \in ScanType /\ Follows(NextTurn(s), q, lives) /\ Bounded(NextTurn(s))
<1>1. NextTurn(s) \in ScanType /\ Follows(NextTurn(s), q, lives)
  BY TurnType DEF Follows, Held, Inside
<1>2. MaxBuffer \in Nat /\ Len(s.buf) \in Nat
  BY StreamsAssumption DEF ScanType
<1>3. Bounded(NextTurn(s))
  BY <1>2, TurnType DEF Bounded
<1>4. QED
  BY <1>1, <1>3

LEMMA HeadAndTail ==
  ASSUME NEW q \in Seq(Byte), q # <<>>
  PROVE  /\ Head(q) \in Byte /\ Tail(q) \in Seq(Byte) /\ EndsIn(q, 1, Tail(q))
         /\ q[1] = Head(q) /\ Len(q) >= 1 /\ Len(q) \in Nat
<1>1. /\ Head(q) \in Byte /\ Tail(q) \in Seq(Byte) /\ q[1] = Head(q)
      /\ Len(q) >= 1 /\ Len(q) \in Nat
  OBVIOUS
<1>2. Len(q) = 1 + Len(Tail(q)) /\ \A i \in 1 .. Len(Tail(q)) : q[1 + i] = Tail(q)[i]
  OBVIOUS
<1>3. QED
  BY <1>1, <1>2 DEF EndsIn

LEMMA SameBytes ==
  ASSUME NEW s \in Seq(Byte), NEW t \in Seq(Byte), Len(s) = Len(t),
         \A i \in 1 .. Len(s) : s[i] = t[i]
  PROVE  s = t
  OBVIOUS

(* A byte moves from the pipe to what is held; together they are the same.    *)
LEMMA ByteMoves ==
  ASSUME NEW s \in Seq(Byte), NEW q \in Seq(Byte), q # <<>>
  PROVE  Append(s, Head(q)) \o Tail(q) = s \o q
<1> DEFINE a == Append(s, Head(q))
           l == a \o Tail(q)
           r == s \o q
<1>1. /\ Head(q) \in Byte /\ Tail(q) \in Seq(Byte) /\ q[1] = Head(q) /\ Len(q) \in Nat
      /\ Len(q) = 1 + Len(Tail(q)) /\ \A i \in 1 .. Len(Tail(q)) : q[1 + i] = Tail(q)[i]
  BY HeadAndTail DEF EndsIn
<1>2. a \in Seq(Byte) /\ Len(a) = Len(s) + 1 /\ a[Len(s) + 1] = Head(q)
  BY <1>1
<1>3. \A i \in 1 .. Len(s) : a[i] = s[i]
  BY <1>1
<1>4. Len(s) \in Nat /\ Len(Tail(q)) \in Nat
  BY <1>1
<1> HIDE DEF a
<1>5. /\ l \in Seq(Byte) /\ Len(l) = Len(a) + Len(Tail(q))
      /\ \A i \in 1 .. Len(a) : l[i] = a[i]
      /\ \A i \in 1 .. Len(Tail(q)) : l[Len(a) + i] = Tail(q)[i]
  BY <1>1, <1>2, Concatenation
<1>6. /\ r \in Seq(Byte) /\ Len(r) = Len(s) + Len(q)
      /\ \A i \in 1 .. Len(s) : r[i] = s[i]
      /\ \A i \in 1 .. Len(q) : r[Len(s) + i] = q[i]
  BY Concatenation
<1> HIDE DEF l, r
<1>7. Len(l) = Len(r)
  BY <1>1, <1>2, <1>4, <1>5, <1>6
<1>8. ASSUME NEW i \in 1 .. Len(l) PROVE l[i] = r[i]
  <2>1. i \in Nat /\ i >= 1 /\ i <= Len(s) + 1 + Len(Tail(q))
    BY <1>1, <1>2, <1>4, <1>5
  <2>2. CASE i <= Len(s)
    BY <1>2, <1>3, <1>4, <1>5, <1>6, <2>1, <2>2
  <2>3. CASE i = Len(s) + 1
    <3>1. l[i] = a[Len(s) + 1]
      BY <1>2, <1>4, <1>5, <2>3
    <3>2. r[i] = q[1]
      BY <1>1, <1>4, <1>6, <2>3
    <3>3. QED
      BY <1>1, <1>2, <3>1, <3>2
  <2>4. CASE i > Len(s) + 1
    <3> DEFINE j == i - (Len(s) + 1)
    <3>1. j \in 1 .. Len(Tail(q)) /\ i = Len(a) + j /\ i = Len(s) + (1 + j) /\ 1 + j \in 1 .. Len(q)
      BY <1>1, <1>2, <1>4, <2>1, <2>4
    <3> HIDE DEF j
    <3>2. l[i] = Tail(q)[j]
      BY <1>5, <3>1
    <3>3. r[i] = q[1 + j]
      BY <1>6, <3>1
    <3>4. q[1 + j] = Tail(q)[j]
      BY <1>1, <3>1
    <3>5. QED
      BY <3>2, <3>3, <3>4
  <2>5. QED
    BY <1>4, <2>1, <2>2, <2>3, <2>4
<1>9. l = r
  BY <1>5, <1>6, <1>7, <1>8, SameBytes
<1>10. QED
  BY <1>9 DEF a, l, r

LEMMA RestFollows ==
  ASSUME NEW s \in Seq(Byte), NEW q \in Seq(Byte), NEW lives \in BOOLEAN,
         HasPictures(s \o q, lives)
  PROVE  HasPictures(q, lives) /\ (q # <<>> => HasPictures(Tail(q), lives))
<1>1. EndsIn(s \o q, Len(s), q) /\ s \o q \in Seq(Byte) /\ Len(s) \in Nat
  BY Concatenation DEF EndsIn
<1>2. HasPictures(q, lives)
  BY <1>1, RestHasPictures
<1>3. ASSUME q # <<>> PROVE HasPictures(Tail(q), lives)
  <2>1. EndsIn(q, 1, Tail(q)) /\ Tail(q) \in Seq(Byte)
    BY <1>3, HeadAndTail
  <2>2. QED
    BY <1>2, <2>1, RestHasPictures
<1>4. QED
  BY <1>2, <1>3

(* Dropping an oversized picture leaves the scan outside, where the rest of    *)
(* that picture is no more than noise.                                        *)
LEMMA DropFollows ==
  ASSUME NEW s \in ScanType, s.result = "more", NEW q \in Seq(Byte), NEW lives \in BOOLEAN,
         Follows(s, q, lives), Bounded(s)
  PROVE  LET t == DropOversized(s) IN
         /\ t \in ScanType /\ t.result = "more" /\ Follows(t, q, lives)
         /\ Len(t.buf) <= (IF t.half THEN MaxBuffer + 1 ELSE MaxBuffer)
<1>1. s.buf \in Seq(Byte) /\ Len(s.buf) \in Nat /\ MaxBuffer \in Nat
  BY StreamsAssumption DEF ScanType
<1>2. CASE ~s.half /\ Len(s.buf) > MaxBuffer
  <2> DEFINE t == [s EXCEPT !.buf = <<>>, !.found = FALSE]
  <2>1. DropOversized(s) = t
    BY <1>2 DEF DropOversized
  <2>2. /\ t \in ScanType /\ t.result = "more" /\ t.buf = <<>> /\ ~t.found /\ ~t.half
        /\ Len(t.buf) = 0
    <3>1. t \in ScanType /\ t.result = "more"
      <4>1. <<>> \in Seq(Byte) /\ FALSE \in BOOLEAN
        OBVIOUS
      <4>2. QED
        BY <4>1 DEF ScanType
    <3>2. t.buf = <<>> /\ t.found = FALSE /\ t.half = s.half
      BY DEF ScanType
    <3>3. QED
      BY <1>2, <3>1, <3>2
  <2>3. Held(t) \o q = q
    BY <2>2 DEF Held
  <2>4. HasPictures(q, lives)
    BY HeldType, RestFollows DEF Follows
  <2>5. Follows(t, q, lives)
    BY <2>2, <2>3, <2>4 DEF Follows
  <2> HIDE DEF t
  <2>6. QED
    BY <1>1, <2>1, <2>2, <2>5
<1>3. CASE ~(~s.half /\ Len(s.buf) > MaxBuffer)
  <2>1. DropOversized(s) = s
    BY <1>3 DEF DropOversized
  <2>2. Len(s.buf) <= (IF s.half THEN MaxBuffer + 1 ELSE MaxBuffer)
    BY <1>1, <1>3 DEF Bounded
  <2>3. QED
    BY <2>1, <2>2
<1>4. QED
  BY <1>2, <1>3

(* Outside a picture only FF D8 leads into one.                               *)
LEMMA HuntFollows ==
  ASSUME NEW s \in ScanType, s.result = "more", ~s.found, NEW q \in Seq(Byte), q # <<>>,
         NEW lives \in BOOLEAN, Follows(s, q, lives)
  PROVE  LET t == Hunt(s, Head(q)) IN
         t \in ScanType /\ Follows(t, Tail(q), lives) /\ Bounded(t)
<1> DEFINE b == Head(q)
<1>1. /\ b \in Byte /\ Tail(q) \in Seq(Byte) /\ Len(q) \in Nat /\ Len(q) >= 1 /\ q[1] = b
      /\ s.buf = <<>> /\ Len(s.buf) = 0 /\ MaxBuffer \in Nat \ {0}
  BY HeadAndTail, StreamsAssumption DEF Follows
<1>2. HasPictures(Held(s) \o q, lives) /\ HasPictures(q, lives) /\ HasPictures(Tail(q), lives)
  BY HeldType, RestFollows DEF Follows
<1>3. <<b>> \o Tail(q) = q
  BY ByteMoves
<1>4. CASE ~s.half /\ b = "FF"
  <2> DEFINE t == [s EXCEPT !.half = TRUE]
  <2>1. Hunt(s, b) = t
    BY <1>4 DEF Hunt
  <2>2. t \in ScanType /\ t.half /\ ~t.found /\ t.result = "more" /\ t.buf = <<>>
    BY <1>1 DEF ScanType
  <2>3. Held(t) \o Tail(q) = q
    BY <1>3, <1>4, <2>2 DEF Held
  <2>4. Follows(t, Tail(q), lives)
    BY <1>2, <2>2, <2>3 DEF Follows
  <2>5. Bounded(t)
    BY <1>1 DEF Bounded, ScanType
  <2> HIDE DEF t
  <2>6. QED
    BY <2>1, <2>2, <2>4, <2>5
<1>5. CASE s.half /\ b = "FF"
  <2>1. Hunt(s, b) = NextTurn(s)
    BY <1>5 DEF Hunt
  <2>2. Held(s) \o Tail(q) = q
    BY <1>3, <1>5 DEF Held
  <2>3. Follows(s, Tail(q), lives) /\ Bounded(s)
    <3>1. Follows(s, Tail(q), lives)
      BY <1>1, <1>2, <2>2 DEF Follows
    <3>2. Bounded(s)
      BY <1>1 DEF Bounded
    <3>3. QED
      BY <3>1, <3>2
  <2>4. QED
    BY <2>1, <2>3, TurnFollows
<1>6. CASE s.half /\ b = "D8"
  <2> DEFINE t == [s EXCEPT !.half = FALSE, !.found = TRUE, !.buf = SOI]
             w == Held(s) \o q
  <2>1. Hunt(s, b) = NextTurn(t)
    BY <1>6 DEF Hunt
  <2>2. SOI \in Seq(Byte) /\ Len(SOI) = 2 /\ SOI = Append(<<"FF">>, b) /\ <<"FF">> \in Seq(Byte)
    BY <1>6 DEF SOI, Byte
  <2>3. t \in ScanType /\ ~t.half /\ t.found /\ t.result = "more" /\ t.buf = SOI
    BY <2>2 DEF ScanType
  <2>4. Held(t) \o Tail(q) = w /\ w = <<"FF">> \o q
    BY <1>6, <2>2, <2>3, ByteMoves DEF Held
  <2>5. w \in Seq(Byte) /\ Len(w) = 1 + Len(q) /\ w[1] = "FF" /\ w[2] = "D8"
    <3>1. w \in Seq(Byte) /\ Len(w) = Len(<<"FF">>) + Len(q)
      BY <2>2, <2>4, Concatenation
    <3>2. w[1] = <<"FF">>[1] /\ w[Len(<<"FF">>) + 1] = q[1]
      BY <1>1, <2>2, <2>4, Concatenation
    <3>3. Len(<<"FF">>) = 1 /\ <<"FF">>[1] = "FF"
      OBVIOUS
    <3>4. QED
      BY <1>1, <1>6, <3>1, <3>2, <3>3
  <2>6. 1 \in 1 .. Len(w) - 1 /\ Begins(w, 1)
    BY <1>1, <2>5 DEF Begins
  <2>7. PICK p \in Picture : PictureAt(w, 1, p, lives)
    BY <1>2, <2>6 DEF HasPictures
  <2>8. Len(p) \in Nat /\ Len(p) >= 4
    BY PictureBytes
  <2>9. Inside(t, w, lives)
    BY <2>2, <2>3, <2>7, <2>8 DEF Inside
  <2>10. Follows(t, Tail(q), lives) /\ Bounded(t)
    <3>1. Bounded(t)
      BY <1>1, <2>2, <2>3 DEF Bounded
    <3>2. QED
      BY <1>2, <2>3, <2>4, <2>9, <3>1 DEF Follows
  <2> HIDE DEF t
  <2>11. QED
    BY <2>1, <2>3, <2>10, TurnFollows
<1>7. CASE ~(b = "FF") /\ ~(s.half /\ b = "D8")
  <2> DEFINE t == [s EXCEPT !.half = FALSE]
  <2>1. Hunt(s, b) = NextTurn(t)
    BY <1>7 DEF Hunt
  <2>2. t \in ScanType /\ ~t.half /\ ~t.found /\ t.result = "more" /\ t.buf = <<>>
    BY <1>1 DEF ScanType
  <2>3. Held(t) \o Tail(q) = Tail(q)
    BY <1>1, <2>2 DEF Held
  <2>4. Follows(t, Tail(q), lives)
    BY <1>2, <2>2, <2>3 DEF Follows
  <2>5. Bounded(t)
    BY <1>1 DEF Bounded
  <2> HIDE DEF t
  <2>6. QED
    BY <2>1, <2>2, <2>4, <2>5, TurnFollows
<1>8. QED
  BY <1>4, <1>5, <1>6, <1>7

(* Inside a picture the bytes that come are its own: FF is followed by 00, or  *)
(* by the D9 that is its last byte.                                           *)
LEMMA NextByte ==
  ASSUME NEW s \in ScanType, NEW q \in Seq(Byte), q # <<>>, NEW lives \in BOOLEAN,
         Inside(s, s.buf \o q, lives)
  PROVE  \E p \in Picture :
           LET n == Len(s.buf) IN
           /\ PictureAt(s.buf \o q, 1, p, lives) /\ n < Len(p) /\ p[n + 1] = Head(q)
           /\ n + 1 = Len(p) => StandsAt(s.buf \o q, 1, p)
           /\ \A k \in 1 .. n : s.buf[k] = p[k]
<1> DEFINE w == s.buf \o q
           n == Len(s.buf)
<1>1. PICK p \in Picture : n < Len(p) /\ PictureAt(w, 1, p, lives)
  BY DEF Inside
<1>2. s.buf \in Seq(Byte) /\ n \in Nat /\ n >= 2 /\ Len(p) \in Nat
  BY PictureBytes DEF ScanType, Inside
<1>3. /\ w \in Seq(Byte) /\ Len(w) = n + Len(q) /\ Len(q) >= 1 /\ Len(q) \in Nat
      /\ q[1] = Head(q)
  BY <1>2, Concatenation, HeadAndTail
<1>4. w[n + 1] = Head(q) /\ \A k \in 1 .. n : w[k] = s.buf[k]
  BY <1>2, <1>3, Concatenation
<1> HIDE DEF w, n
<1>5. CASE StandsAt(w, 1, p)
  <2>1. \A k \in 1 .. Len(p) : w[k] = p[k]
    BY <1>2, <1>5 DEF StandsAt
  <2>2. p[n + 1] = Head(q) /\ \A k \in 1 .. n : s.buf[k] = p[k]
    BY <1>1, <1>2, <1>4, <2>1
  <2>3. QED
    BY <1>1, <1>5, <2>2 DEF w, n
<1>6. CASE ~lives /\ CutAt(w, 1, p)
  <2>1. Len(w) = Len(p) - 1 /\ \A k \in 1 .. Len(p) - 1 : w[k] = p[k]
    BY <1>2, <1>3, <1>6 DEF CutAt
  <2>2. n + 1 <= Len(p) - 1
    BY <1>2, <1>3, <2>1
  <2>3. p[n + 1] = Head(q) /\ \A k \in 1 .. n : s.buf[k] = p[k]
    BY <1>1, <1>2, <1>4, <2>1, <2>2
  <2>4. n + 1 # Len(p)
    BY <1>2, <2>2
  <2>5. QED
    BY <1>1, <2>3, <2>4 DEF w, n
<1>7. QED
  BY <1>1, <1>5, <1>6 DEF PictureAt

(* So the scan stays inside the picture, and leaves it with all of it.        *)
LEMMA CollectFollows ==
  ASSUME NEW s \in ScanType, s.result = "more", s.found, NEW q \in Seq(Byte), q # <<>>,
         NEW lives \in BOOLEAN, Follows(s, q, lives),
         Len(s.buf) <= (IF s.half THEN MaxBuffer + 1 ELSE MaxBuffer)
  PROVE  LET t == Collect(s, Head(q)) IN
         t \in ScanType /\ Follows(t, Tail(q), lives) /\ Bounded(t)
<1> DEFINE b == Head(q)
           w == s.buf \o q
           n == Len(s.buf)
           a == Append(s.buf, b)
           u == [s EXCEPT !.buf = Append(@, b)]
<1>1. /\ HasPictures(w, lives) /\ Inside(s, w, lives)
      /\ s.half \in BOOLEAN /\ s.buf \in Seq(Byte) /\ b \in Byte
  BY HeadAndTail DEF Follows, Held, ScanType
<1>2. PICK p \in Picture :
        /\ PictureAt(w, 1, p, lives) /\ n < Len(p) /\ p[n + 1] = b
        /\ n + 1 = Len(p) => StandsAt(w, 1, p)
        /\ \A k \in 1 .. n : s.buf[k] = p[k]
  BY <1>1, NextByte
<1>3. /\ Len(p) \in Nat /\ Len(p) >= 4 /\ p[Len(p) - 1] = "FF" /\ p[Len(p)] = "D9"
      /\ \A i \in 3 .. Len(p) - 2 : p[i] = "FF" => p[i + 1] = "00"
      /\ p \in Seq(Byte)
  BY PictureBytes
<1>4. n \in Nat /\ n >= 2 /\ (s.half <=> n >= 3 /\ s.buf[n] = "FF") /\ s.buf[n] = p[n]
  BY <1>1, <1>2 DEF Inside
<1>5. a \in Seq(Byte) /\ Len(a) = n + 1 /\ a[n + 1] = b /\ \A k \in 1 .. n : a[k] = s.buf[k]
  BY <1>1
<1>6. a \o Tail(q) = w
  BY <1>1, ByteMoves
<1>7. /\ u \in ScanType /\ u.buf = a /\ u.result = "more"
      /\ u.half = s.half /\ u.found = s.found
  BY <1>1, <1>5 DEF ScanType
<1>8. MaxBuffer \in Nat
  BY StreamsAssumption
<1>9. n + 1 # Len(p) => \A c \in ScanType :
        /\ c.buf = a /\ c.found /\ (c.half <=> b = "FF") /\ c.result = "more"
        => Follows(c, Tail(q), lives)
  <2> SUFFICES ASSUME n + 1 # Len(p), NEW c \in ScanType, c.buf = a, c.found,
                      c.half <=> b = "FF", c.result = "more"
               PROVE  Follows(c, Tail(q), lives)
    OBVIOUS
  <2>1. Held(c) \o Tail(q) = w
    BY <1>6 DEF Held
  <2>2. Len(c.buf) < Len(p) /\ Len(c.buf) >= 3 /\ c.buf[Len(c.buf)] = b
    BY <1>2, <1>3, <1>4, <1>5
  <2>3. Inside(c, w, lives)
    BY <1>2, <2>2 DEF Inside
  <2>4. QED
    BY <1>1, <2>1, <2>3 DEF Follows
<1> HIDE DEF u, a, w
<1>10. CASE ~s.half /\ b = "FF"
  <2> DEFINE t == [u EXCEPT !.half = TRUE]
  <2>1. Collect(s, b) = t
    BY <1>10 DEF Collect, u
  <2>2. t \in ScanType /\ t.buf = a /\ t.found = s.found /\ t.half = TRUE /\ t.result = "more"
    BY <1>7 DEF ScanType
  <2>3. n + 1 # Len(p)
    BY <1>2, <1>3, <1>10
  <2> HIDE DEF t
  <2>4. Follows(t, Tail(q), lives)
    BY <1>9, <1>10, <2>2, <2>3
  <2>5. Bounded(t)
    BY <1>4, <1>5, <1>8, <1>10, <2>2 DEF Bounded
  <2>6. QED
    BY <2>1, <2>2, <2>4, <2>5
<1>11. CASE s.half /\ b = "D9"
  <2> DEFINE t == [u EXCEPT !.result = "frame"]
  <2>1. Collect(s, b) = t
    BY <1>11 DEF Collect, u
  <2>2. t \in ScanType /\ t.buf = a /\ t.found = s.found /\ t.half = s.half /\ t.result = "frame"
    BY <1>7 DEF ScanType
  <2> HIDE DEF t
  <2>3. n + 1 = Len(p)
    <3>1. n >= 3 /\ p[n] = "FF" /\ p[n + 1] = "D9"
      BY <1>2, <1>4, <1>11
    <3>2. ~(n <= Len(p) - 2)
      BY <1>3, <1>4, <3>1
    <3>3. QED
      BY <1>2, <1>3, <1>4, <3>2
  <2>4. a = p
    <3>1. \A k \in 1 .. n + 1 : a[k] = p[k]
      BY <1>2, <1>4, <1>5
    <3>2. QED
      BY <1>3, <1>5, <2>3, <3>1, SameBytes
  <2>5. Held(t) \o Tail(q) = w
    BY <1>6, <2>2 DEF Held
  <2>6. Follows(t, Tail(q), lives)
    BY <1>1, <2>2, <2>4, <2>5 DEF Follows
  <2>7. Bounded(t)
    BY <1>4, <1>5, <1>8, <1>11, <2>2 DEF Bounded
  <2>8. QED
    BY <2>1, <2>2, <2>6, <2>7
<1>12. CASE ~(~s.half /\ b = "FF") /\ ~(s.half /\ b = "D9")
  <2> DEFINE t == [u EXCEPT !.half = FALSE]
  <2>1. Collect(s, b) = NextTurn(t)
    BY <1>12 DEF Collect, u
  <2>2. t \in ScanType /\ t.buf = a /\ t.found = s.found /\ t.half = FALSE /\ t.result = "more"
    BY <1>7 DEF ScanType
  <2> HIDE DEF t
  <2>3. n + 1 # Len(p)
    <3>1. SUFFICES ASSUME n + 1 = Len(p) PROVE FALSE
      OBVIOUS
    <3>2. b = "D9" /\ p[n] = "FF" /\ n >= 3
      BY <1>2, <1>3, <1>4, <3>1
    <3>3. QED
      BY <1>4, <1>12, <3>2
  <2>4. b # "FF"
    <3>1. SUFFICES ASSUME b = "FF" PROVE FALSE
      OBVIOUS
    <3>2. n >= 3 /\ p[n] = "FF" /\ p[n + 1] = "FF"
      BY <1>2, <1>4, <1>12, <3>1
    <3>3. n <= Len(p) - 2
      BY <1>2, <1>3, <1>4, <2>3
    <3>4. QED
      BY <1>3, <1>4, <3>2, <3>3
  <2>5. Follows(t, Tail(q), lives)
    BY <1>9, <2>2, <2>3, <2>4
  <2>6. Bounded(t)
    <3>1. n + 1 <= MaxBuffer + 2
      BY <1>4, <1>8
    <3>2. QED
      BY <1>5, <2>2, <3>1 DEF Bounded
  <2>7. QED
    BY <2>1, <2>2, <2>5, <2>6, TurnFollows
<1>13. QED
  BY <1>10, <1>11, <1>12

(* A byte more, and the scan still follows the pipe.                          *)
LEMMA ByteFollows ==
  ASSUME NEW s \in ScanType, s.result = "more", NEW q \in Seq(Byte), q # <<>>,
         NEW lives \in BOOLEAN, Follows(s, q, lives), Bounded(s)
  PROVE  LET t == ScanByte(s, Head(q)) IN
         t \in ScanType /\ Follows(t, Tail(q), lives) /\ Bounded(t)
<1> DEFINE kept == DropOversized(s)
<1>1. /\ kept \in ScanType /\ kept.result = "more" /\ Follows(kept, q, lives)
      /\ Len(kept.buf) <= (IF kept.half THEN MaxBuffer + 1 ELSE MaxBuffer)
  BY DropFollows
<1>2. ScanByte(s, Head(q)) = IF kept.found THEN Collect(kept, Head(q)) ELSE Hunt(kept, Head(q))
  BY DEF ScanByte
<1> HIDE DEF kept
<1>3. CASE kept.found
  BY <1>1, <1>2, <1>3, CollectFollows
<1>4. CASE ~kept.found
  BY <1>1, <1>2, <1>4, HuntFollows
<1>5. QED
  BY <1>3, <1>4

(* Writing while ffmpeg lives, and its death, which may cut the last picture, *)
(* lose nothing the scan relies on.                                           *)
LEMMA MoreFollows ==
  ASSUME NEW s \in ScanType, NEW q \in Seq(Byte), NEW u \in Seq(Byte), NEW lives \in BOOLEAN,
         Follows(s, q, TRUE), s.result # "exhausted" => HasPictures(Held(s) \o q \o u, lives)
  PROVE  Follows(s, q \o u, lives)
<1> DEFINE w == Held(s) \o q
<1>1. Held(s) \in Seq(Byte) /\ w \in Seq(Byte)
  BY HeldType
<1>2. Held(s) \o (q \o u) = w \o u
  <2>1. \A x, y, z \in Seq(Byte) : x \o (y \o z) = (x \o y) \o z
    OBVIOUS
  <2>2. QED
    BY <1>1, <2>1
<1> HIDE DEF w
<1>3. ASSUME s.found, s.result = "more" PROVE Inside(s, w \o u, lives)
  <2>1. Inside(s, w, TRUE)
    BY <1>3 DEF Follows, w
  <2>2. PICK p \in Picture : Len(s.buf) < Len(p) /\ PictureAt(w, 1, p, TRUE)
    BY <2>1 DEF Inside
  <2>3. 1 \in 1 .. Len(w)
    <3>1. Len(p) \in Nat /\ Len(p) >= 4 /\ Len(w) \in Nat
      BY <1>1, PictureBytes
    <3>2. 1 + Len(p) - 1 <= Len(w)
      BY <2>2 DEF PictureAt, StandsAt
    <3>3. QED
      BY <3>1, <3>2
  <2>4. PictureAt(w \o u, 1, p, lives)
    BY <1>1, <2>2, <2>3, MoreBytes
  <2>5. QED
    BY <2>1, <2>2, <2>4 DEF Inside
<1>4. QED
  BY <1>2, <1>3 DEF Follows, w

LEMMA WritingFollows ==
  ASSUME NEW s \in ScanType, NEW q \in Seq(Byte), Follows(s, q, TRUE), NEW u \in Picture \cup Noise
  PROVE  Follows(s, q \o u, TRUE) /\ q \o u \in Seq(Byte)
<1>1. Held(s) \o q \in Seq(Byte) /\ (s.result # "exhausted" => HasPictures(Held(s) \o q, TRUE))
  <2>1. Held(s) \in Seq(Byte)
    BY HeldType
  <2>2. Held(s) \o q \in Seq(Byte)
    BY <2>1, Concatenation
  <2>3. QED
    BY <2>2 DEF Follows
<1>2. u \in Seq(Byte)
  BY PictureBytes, NoiseBytes
<1>3. s.result # "exhausted" => HasPictures(Held(s) \o q \o u, TRUE)
  BY <1>1, FfmpegHasPictures
<1>4. Follows(s, q \o u, TRUE)
  BY <1>2, <1>3, MoreFollows
<1>5. QED
  BY <1>2, <1>4, Concatenation

LEMMA DyingFollows ==
  ASSUME NEW s \in ScanType, NEW q \in Seq(Byte), Follows(s, q, TRUE)
  PROVE  /\ Follows(s, q, FALSE)
         /\ \A p \in Picture : Follows(s, q \o Cut(p), FALSE) /\ q \o Cut(p) \in Seq(Byte)
<1>1. Held(s) \o q \in Seq(Byte) /\ (s.result # "exhausted" => HasPictures(Held(s) \o q, TRUE))
  <2>1. Held(s) \in Seq(Byte)
    BY HeldType
  <2>2. Held(s) \o q \in Seq(Byte)
    BY <2>1, Concatenation
  <2>3. QED
    BY <2>2 DEF Follows
<1>2. Follows(s, q, FALSE)
  BY <1>1, DeathHasPictures DEF Follows, Inside, PictureAt
<1>3. ASSUME NEW p \in Picture
      PROVE  Follows(s, q \o Cut(p), FALSE) /\ q \o Cut(p) \in Seq(Byte)
  <2>1. Cut(p) \in Seq(Byte)
    BY CutBytes
  <2>2. s.result # "exhausted" => HasPictures(Held(s) \o q \o Cut(p), FALSE)
    BY <1>1, DeathHasPictures
  <2>3. Follows(s, q \o Cut(p), FALSE)
    BY <2>1, <2>2, MoreFollows
  <2>4. QED
    BY <2>1, <2>3, Concatenation
<1>4. QED
  BY <1>2, <1>3

-----------------------------------------------------------------------------
(* The steps of the stream. *)

\* The process of v ends, of itself or killed, and nothing else happens.
Death(v) == Lives(v) /\ Dies(v) /\ UNCHANGED <<cameraVars, streamSema, stage, left, reader>>

\* Steps of the handler that move it on and touch neither process nor scan.
Moves(v) == CheckDevice(v) \/ SetupFails(v) \/ NextFrame(v) \/ Terminate(v)
HandsOn(v) == StoreFrame(v) \/ WriteFrame(v) \/ WriteFails(v)

\* The process of v was waited for, and the handler goes on or does not.
Reaps(v) == Reap(v) \/ WaitForEver(v)

LEMMA Steps ==
  ASSUME [Next]_vars
  PROVE  \/ Plug \/ Probe \/ UNCHANGED vars
         \/ \E v \in Viewer :
              \/ Moves(v) \/ HandsOn(v) \/ Launch(v) \/ ReadByte(v) \/ FirstFrame(v)
              \/ EndOfPictures(v) \/ ExtractFrame(v) \/ Reaps(v) \/ Release(v)
              \/ Request(v) \/ Hangup(v) \/ Again(v)
              \/ FfmpegWrites(v) \/ FfmpegHangs(v) \/ Death(v) \/ KillAfterTimeout(v)
<1>1. ASSUME NEW v \in Viewer, FirstFrameKiller(v) \/ KillOnCancel(v) \/ FfmpegEnds(v) PROVE Death(v)
  BY <1>1 DEF FirstFrameKiller, KillOnCancel, FfmpegEnds, Death, Lives
<1>2. QED
  BY <1>1 DEF Next, Handler, Setup, Read, Cleanup, Client, Timer, Ffmpeg, Moves, HandsOn, Reaps

LEMMA DiesType ==
  ASSUME Shape, NEW v \in Viewer, Dies(v)
  PROVE  /\ ffmpeg' = [ffmpeg EXCEPT ![v] = "dead"]
         /\ \/ pipe' = pipe
            \/ \E p \in Picture : pipe' = [pipe EXCEPT ![v] = @ \o Cut(p)]
         /\ pipe' \in [Viewer -> Seq(Byte)]
<1>1. /\ ffmpeg' = [ffmpeg EXCEPT ![v] = "dead"]
      /\ \/ pipe' = pipe
         \/ \E p \in Picture : pipe' = [pipe EXCEPT ![v] = @ \o Cut(p)]
  BY DEF Dies, Cut
<1>2. CASE pipe' = pipe
  BY <1>1, <1>2 DEF Shape
<1>3. ASSUME NEW p \in Picture, pipe' = [pipe EXCEPT ![v] = @ \o Cut(p)]
      PROVE  pipe' \in [Viewer -> Seq(Byte)]
  <2>1. pipe \in [Viewer -> Seq(Byte)] /\ pipe[v] \in Seq(Byte)
    BY DEF Shape
  <2>2. pipe[v] \o Cut(p) \in Seq(Byte)
    BY <2>1, CutBytes, Concatenation
  <2>3. QED
    BY <1>3, <2>1, <2>2
<1>4. QED
  BY <1>1, <1>2, <1>3

LEMMA DeathType ==
  ASSUME Shape, NEW v \in Viewer, Death(v)
  PROVE  /\ ffmpeg' = [ffmpeg EXCEPT ![v] = "dead"]
         /\ \/ pipe' = pipe
            \/ \E p \in Picture : pipe' = [pipe EXCEPT ![v] = @ \o Cut(p)]
         /\ pipe' \in [Viewer -> Seq(Byte)]
<1>1. Dies(v)
  BY DEF Death
<1>2. QED
  BY <1>1, DiesType

(* The timeout moves the handler on and changes only its own process and pipe. *)
LEMMA TimeoutType ==
  ASSUME Shape, NEW v \in Viewer, KillAfterTimeout(v)
  PROVE  /\ stage[v] = "wait" /\ stage' = [stage EXCEPT ![v] = "killed"]
         /\ UNCHANGED <<plugged, online, lastFrame, streamSema, left, scan, frame>>
         /\ ffmpeg' \in [Viewer -> {None, "runs", "hangs", "dead"}]
         /\ pipe' \in [Viewer -> Seq(Byte)]
         /\ \A w \in Viewer \ {v} : pipe'[w] = pipe[w] /\ ffmpeg'[w] = ffmpeg[w]
         /\ \/ ffmpeg[v] # None /\ ffmpeg'[v] # None
            \/ ffmpeg'[v] = ffmpeg[v] /\ pipe'[v] = pipe[v]
<1>1. /\ stage[v] = "wait" /\ stage' = [stage EXCEPT ![v] = "killed"]
      /\ UNCHANGED <<plugged, online, lastFrame, streamSema, left, scan, frame>>
  BY DEF KillAfterTimeout, Goto, cameraVars, reader
<1>2. CASE Lives(v)
  <2>1. Dies(v)
    BY <1>2 DEF KillAfterTimeout
  <2>2. /\ ffmpeg' = [ffmpeg EXCEPT ![v] = "dead"]
        /\ \/ pipe' = pipe
           \/ \E p \in Picture : pipe' = [pipe EXCEPT ![v] = @ \o Cut(p)]
        /\ pipe' \in [Viewer -> Seq(Byte)]
    BY <2>1, DiesType
  <2>3. \A w \in Viewer \ {v} : pipe'[w] = pipe[w]
    <3>1. \A p \in Picture : pipe' = [pipe EXCEPT ![v] = @ \o Cut(p)] =>
            \A w \in Viewer \ {v} : pipe'[w] = pipe[w]
      BY DEF Shape
    <3>2. QED
      BY <2>2, <3>1
  <2>4. /\ ffmpeg' \in [Viewer -> {None, "runs", "hangs", "dead"}]
        /\ ffmpeg'[v] = "dead" /\ \A w \in Viewer \ {v} : ffmpeg'[w] = ffmpeg[w]
    BY <2>2 DEF Shape
  <2>5. ffmpeg[v] # None /\ "dead" # None
    BY <1>2, StreamsAssumption DEF Lives
  <2>6. QED
    BY <1>1, <2>2, <2>3, <2>4, <2>5
<1>3. CASE ~Lives(v)
  <2>1. UNCHANGED <<ffmpeg, pipe>>
    BY <1>3 DEF KillAfterTimeout, process
  <2>2. QED
    BY <1>1, <2>1 DEF Shape
<1>4. QED
  BY <1>2, <1>3

LEMMA WritingType ==
  ASSUME Shape, NEW v \in Viewer, FfmpegWrites(v)
  PROVE  /\ \E u \in Picture \cup Noise : pipe' = [pipe EXCEPT ![v] = @ \o u]
         /\ pipe' \in [Viewer -> Seq(Byte)]
<1>1. PICK u \in Picture \cup Noise : pipe' = [pipe EXCEPT ![v] = @ \o u]
  BY DEF FfmpegWrites
<1>2. pipe \in [Viewer -> Seq(Byte)] /\ pipe[v] \in Seq(Byte) /\ u \in Seq(Byte)
  BY PictureBytes, NoiseBytes DEF Shape
<1>3. pipe[v] \o u \in Seq(Byte)
  BY <1>2, Concatenation
<1>4. pipe' \in [Viewer -> Seq(Byte)]
  BY <1>1, <1>2, <1>3
<1>5. QED
  BY <1>1, <1>4

(* What reading a byte does to the scan of v.                                 *)
LEMMA ReadType ==
  ASSUME Shape, BufferIsBounded, ScanFollows, NEW v \in Viewer, ReadByte(v)
  PROVE  /\ stage[v] \in {"first", "read"}
         /\ scan' = [scan EXCEPT ![v] = ScanByte(scan[v], Head(pipe[v]))]
         /\ pipe' = [pipe EXCEPT ![v] = Tail(pipe[v])]
         /\ scan'[v] \in ScanType /\ pipe'[v] \in Seq(Byte)
         /\ Follows(scan'[v], pipe'[v], Lives(v)) /\ Bounded(scan'[v])
<1>1. /\ stage[v] \in {"first", "read"} /\ scan[v].result = "more" /\ pipe[v] # <<>>
      /\ scan' = [scan EXCEPT ![v] = ScanByte(scan[v], Head(pipe[v]))]
      /\ pipe' = [pipe EXCEPT ![v] = Tail(pipe[v])]
  BY DEF ReadByte
<1>2. /\ scan \in [Viewer -> ScanType] /\ pipe \in [Viewer -> Seq(Byte)]
      /\ scan[v] \in ScanType /\ pipe[v] \in Seq(Byte) /\ Bounded(scan[v])
      /\ Lives(v) \in BOOLEAN
  BY DEF Shape, BufferIsBounded, Lives
<1>3. Follows(scan[v], pipe[v], Lives(v))
  BY <1>1 DEF ScanFollows
<1>4. LET t == ScanByte(scan[v], Head(pipe[v])) IN
      t \in ScanType /\ Follows(t, Tail(pipe[v]), Lives(v)) /\ Bounded(t)
  BY <1>1, <1>2, <1>3, ByteFollows
<1>5. scan'[v] = ScanByte(scan[v], Head(pipe[v])) /\ pipe'[v] = Tail(pipe[v])
  BY <1>1, <1>2
<1>6. Tail(pipe[v]) \in Seq(Byte)
  BY <1>1, <1>2, HeadAndTail
<1>7. QED
  BY <1>1, <1>4, <1>5, <1>6

(* At first nobody watches. *)
LEMMA InitIInv == Init => IInv
<1> SUFFICES ASSUME Init PROVE IInv
  OBVIOUS
<1>1. <<>> \in Seq(Byte)
  OBVIOUS
<1>2. Shape
  BY <1>1, ScannerType DEF Init, Shape, Stage
<1>3. PlaceIsHeld /\ BufferIsBounded /\ ScanFollows
  BY ScannerType DEF Init, PlaceIsHeld, BufferIsBounded, ScanFollows
<1>4. HandsAreEmpty
  BY DEF Init, HandsAreEmpty
<1>5. QED
  BY <1>2, <1>3, <1>4 DEF IInv

LEMMA ShapeStep ==
  ASSUME IInv, [Next]_vars
  PROVE  Shape'
<1> USE DEF cameraVars, process, reader, Goto, Stage
<1>0. Shape
  BY DEF IInv
<1>1. CASE Plug \/ Probe \/ UNCHANGED vars
  BY <1>0, <1>1 DEF Plug, Probe, vars, Shape
<1>2. ASSUME NEW v \in Viewer, Moves(v) \/ Hangup(v) \/ Again(v) PROVE Shape'
  BY <1>0, <1>2 DEF Moves, CheckDevice, SetupFails, NextFrame, Terminate, Hangup, Again, Shape
<1>3. ASSUME NEW v \in Viewer, HandsOn(v) PROVE Shape'
  <2>1. stage[v] \in {"store", "write"} => frame[v] \in Picture
    BY <1>0 DEF Shape, IInv, HandsAreEmpty
  <2>2. QED
    BY <1>0, <1>3, <2>1 DEF HandsOn, StoreFrame, WriteFrame, WriteFails, Shape
<1>4. ASSUME NEW v \in Viewer, Request(v) \/ Release(v) \/ Launch(v) \/ FfmpegHangs(v) PROVE Shape'
  BY <1>0, <1>4 DEF Request, Release, Launch, FfmpegHangs, Shape
<1>5. ASSUME NEW v \in Viewer, ReadByte(v) PROVE Shape'
  <2>1. scan'[v] \in ScanType /\ pipe'[v] \in Seq(Byte)
    BY <1>0, <1>5, ReadType DEF IInv
  <2>2. scan' \in [Viewer -> ScanType] /\ pipe' \in [Viewer -> Seq(Byte)]
    BY <1>0, <1>5, <2>1 DEF ReadByte, Shape
  <2>3. QED
    BY <1>0, <1>5, <2>2 DEF ReadByte, Shape
<1>6. ASSUME NEW v \in Viewer, FirstFrame(v) \/ EndOfPictures(v) PROVE Shape'
  BY <1>0, <1>6, ScannerType DEF FirstFrame, EndOfPictures, Shape
<1>7. ASSUME NEW v \in Viewer, ExtractFrame(v) PROVE Shape'
  <2>1. scan[v].buf \in Picture
    BY <1>7 DEF ExtractFrame, IInv, ScanFollows, Follows
  <2>2. QED
    BY <1>0, <1>7, <2>1, ScannerType DEF ExtractFrame, Shape
<1>8. ASSUME NEW v \in Viewer, Reaps(v) PROVE Shape'
  <2>1. <<>> \in Seq(Byte)
    OBVIOUS
  <2>2. QED
    BY <1>0, <1>8, <2>1 DEF Reaps, Reap, WaitForEver, Waited, Shape
<1>9. ASSUME NEW v \in Viewer, FfmpegWrites(v) PROVE Shape'
  BY <1>0, <1>9, WritingType DEF FfmpegWrites, Shape
<1>10. ASSUME NEW v \in Viewer, Death(v) PROVE Shape'
  BY <1>0, <1>10, DeathType DEF Death, Shape
<1>11. ASSUME NEW v \in Viewer, KillAfterTimeout(v) PROVE Shape'
  BY <1>0, <1>11, TimeoutType DEF Shape
<1>12. QED
  BY Steps, <1>1, <1>2, <1>3, <1>4, <1>5, <1>6, <1>7, <1>8, <1>9, <1>10, <1>11

(* The place goes to nobody else while somebody holds it, and ffmpeg is waited *)
(* for before it is given back.                                               *)
LEMMA PlaceStep ==
  ASSUME IInv, [Next]_vars
  PROVE  PlaceIsHeld'
<1> USE StreamsAssumption DEF cameraVars, process, reader, Goto, Stage, PlaceIsHeld, Shape
<1>0. Shape /\ PlaceIsHeld
  BY DEF IInv
<1>1. CASE Plug \/ Probe \/ UNCHANGED vars
  BY <1>0, <1>1 DEF Plug, Probe, vars
<1>2. ASSUME NEW v \in Viewer, Moves(v) \/ Hangup(v) \/ Again(v) PROVE PlaceIsHeld'
  BY <1>0, <1>2 DEF Moves, CheckDevice, SetupFails, NextFrame, Terminate, Hangup, Again
<1>3. ASSUME NEW v \in Viewer, HandsOn(v) PROVE PlaceIsHeld'
  BY <1>0, <1>3 DEF HandsOn, StoreFrame, WriteFrame, WriteFails
<1>4. ASSUME NEW v \in Viewer, Request(v) \/ Release(v) PROVE PlaceIsHeld'
  <2>1. UNCHANGED <<ffmpeg, pipe>>
    BY <1>4 DEF Request, Release
  <2>2. CASE Release(v)
    <3>1. stage[v] = "release" /\ stage' = [stage EXCEPT ![v] = "gone"]
      BY <2>2 DEF Release
    <3>2. streamSema = v
      BY <1>0, <3>1
    <3>3. \A w \in Viewer : stage'[w] \in {"away", "gone"}
      BY <1>0, <3>1, <3>2
    <3>4. \A w \in Viewer : ffmpeg[w] # None => stage'[w] = stage[w]
      BY <1>0, <3>1
    <3>5. QED
      BY <1>0, <2>1, <3>3, <3>4
  <2>3. CASE Request(v) /\ streamSema = None
    <3>1. /\ stage[v] = "away" /\ stage' = [stage EXCEPT ![v] = "check"] /\ streamSema' = v
      BY <2>3 DEF Request
    <3>2. \A w \in Viewer : stage[w] \in {"away", "gone"}
      BY <1>0, <2>3
    <3>3. QED
      BY <1>0, <2>1, <3>1, <3>2
  <2>4. CASE Request(v) /\ streamSema # None
    <3>1. /\ stage[v] = "away" /\ stage' = [stage EXCEPT ![v] = "gone"] /\ streamSema' = streamSema
      BY <2>4 DEF Request
    <3>2. QED
      BY <1>0, <2>1, <3>1
  <2>5. QED
    BY <1>4, <2>2, <2>3, <2>4
<1>5. ASSUME NEW v \in Viewer, Launch(v) \/ FfmpegHangs(v) PROVE PlaceIsHeld'
  BY <1>0, <1>5 DEF Launch, FfmpegHangs
<1>6. ASSUME NEW v \in Viewer, FirstFrame(v) \/ EndOfPictures(v) \/ ExtractFrame(v)
      PROVE  PlaceIsHeld'
  BY <1>0, <1>6 DEF FirstFrame, EndOfPictures, ExtractFrame
<1>7. ASSUME NEW v \in Viewer, ReadByte(v) PROVE PlaceIsHeld'
  BY <1>0, <1>7 DEF ReadByte
<1>8. ASSUME NEW v \in Viewer, Reaps(v) PROVE PlaceIsHeld'
  BY <1>0, <1>8 DEF Reaps, Reap, WaitForEver, Waited
<1>9. ASSUME NEW v \in Viewer, FfmpegWrites(v) PROVE PlaceIsHeld'
  <2>1. /\ UNCHANGED <<stage, ffmpeg, streamSema>> /\ ffmpeg[v] = "runs"
        /\ \A w \in Viewer \ {v} : pipe'[w] = pipe[w]
    BY <1>0, <1>9, WritingType DEF FfmpegWrites
  <2>2. ffmpeg[v] # None
    BY <2>1
  <2>3. QED
    BY <1>0, <2>1, <2>2
<1>10. ASSUME NEW v \in Viewer, Death(v) PROVE PlaceIsHeld'
  <2>1. /\ UNCHANGED <<stage, streamSema>> /\ ffmpeg[v] # None
        /\ ffmpeg' = [ffmpeg EXCEPT ![v] = "dead"]
    BY <1>10, <1>0, DeathType DEF Death, Lives
  <2>2. \A w \in Viewer \ {v} : pipe'[w] = pipe[w]
    <3>1. \A p \in Picture : pipe' = [pipe EXCEPT ![v] = @ \o Cut(p)] =>
            \A w \in Viewer \ {v} : pipe'[w] = pipe[w]
      BY <1>0
    <3>2. QED
      BY <1>10, <1>0, <3>1, DeathType
  <2>3. ffmpeg'[v] # None /\ \A w \in Viewer \ {v} : ffmpeg'[w] = ffmpeg[w]
    BY <1>0, <2>1
  <2>4. QED
    BY <1>0, <2>1, <2>2, <2>3
<1>11. ASSUME NEW v \in Viewer, KillAfterTimeout(v) PROVE PlaceIsHeld'
  BY <1>0, <1>11, TimeoutType
<1>12. QED
  BY Steps, <1>1, <1>2, <1>3, <1>4, <1>5, <1>6, <1>7, <1>8, <1>9, <1>10, <1>11

LEMMA HandsStep ==
  ASSUME IInv, [Next]_vars
  PROVE  HandsAreEmpty'
<1> USE StreamsAssumption DEF cameraVars, process, reader, Goto, Stage, HandsAreEmpty, Shape
<1>0. Shape /\ HandsAreEmpty
  BY DEF IInv
<1>1. CASE Plug \/ Probe \/ UNCHANGED vars
  BY <1>0, <1>1 DEF Plug, Probe, vars
<1>2. ASSUME NEW v \in Viewer, Moves(v) \/ Hangup(v) \/ Again(v) PROVE HandsAreEmpty'
  BY <1>0, <1>2 DEF Moves, CheckDevice, SetupFails, NextFrame, Terminate, Hangup, Again
<1>3. ASSUME NEW v \in Viewer, HandsOn(v) PROVE HandsAreEmpty'
  BY <1>0, <1>3 DEF HandsOn, StoreFrame, WriteFrame, WriteFails
<1>4. ASSUME NEW v \in Viewer, Request(v) \/ Release(v) \/ Launch(v) \/ FfmpegHangs(v) \/ Reaps(v)
      PROVE  HandsAreEmpty'
  BY <1>0, <1>4 DEF Request, Release, Launch, FfmpegHangs, Reaps, Reap, WaitForEver, Waited
<1>5. ASSUME NEW v \in Viewer, ReadByte(v) PROVE HandsAreEmpty'
  BY <1>0, <1>5 DEF ReadByte
<1>6. ASSUME NEW v \in Viewer, FirstFrame(v) \/ EndOfPictures(v) PROVE HandsAreEmpty'
  BY <1>0, <1>6 DEF FirstFrame, EndOfPictures
<1>7. ASSUME NEW v \in Viewer, ExtractFrame(v) PROVE HandsAreEmpty'
  <2>1. scan[v].buf \in Picture
    BY <1>7 DEF ExtractFrame, IInv, ScanFollows, Follows
  <2>2. scan[v].buf # None
    BY <2>1
  <2>3. /\ stage' = [stage EXCEPT ![v] = "store"] /\ stage[v] = "read"
        /\ frame' = [frame EXCEPT ![v] = scan[v].buf] /\ scan' = [scan EXCEPT ![v] = Scanner]
    BY <1>7 DEF ExtractFrame
  <2>4. frame'[v] # None /\ stage'[v] = "store" /\ scan'[v] = Scanner
    BY <1>0, <2>2, <2>3
  <2>5. \A w \in Viewer \ {v} : frame'[w] = frame[w] /\ stage'[w] = stage[w] /\ scan'[w] = scan[w]
    BY <1>0, <2>3
  <2>6. QED
    BY <1>0, <2>4, <2>5
<1>8. ASSUME NEW v \in Viewer, FfmpegWrites(v) \/ Death(v) PROVE HandsAreEmpty'
  BY <1>0, <1>8 DEF FfmpegWrites, Death
<1>9. ASSUME NEW v \in Viewer, KillAfterTimeout(v) PROVE HandsAreEmpty'
  BY <1>0, <1>9, TimeoutType
<1>10. QED
  BY Steps, <1>1, <1>2, <1>3, <1>4, <1>5, <1>6, <1>7, <1>8, <1>9

(* Only reading grows a buffer. *)
LEMMA BufferStep ==
  ASSUME IInv, [Next]_vars
  PROVE  BufferIsBounded'
<1> USE DEF cameraVars, process, reader, Goto, BufferIsBounded
<1>0. Shape /\ BufferIsBounded /\ scan \in [Viewer -> ScanType]
  BY DEF IInv, Shape
<1>1. ASSUME UNCHANGED scan PROVE BufferIsBounded'
  BY <1>0, <1>1
<1>2. ASSUME NEW v \in Viewer, ReadByte(v) PROVE BufferIsBounded'
  <2>1. scan' = [scan EXCEPT ![v] = ScanByte(scan[v], Head(pipe[v]))] /\ Bounded(scan'[v])
    BY <1>0, <1>2, ReadType DEF IInv
  <2>2. \A w \in Viewer \ {v} : scan'[w] = scan[w]
    BY <1>0, <2>1
  <2>3. QED
    BY <1>0, <2>1, <2>2
<1>3. ASSUME NEW v \in Viewer, FirstFrame(v) \/ EndOfPictures(v) \/ ExtractFrame(v)
      PROVE  BufferIsBounded'
  <2>1. scan' = [scan EXCEPT ![v] = Scanner]
    BY <1>3 DEF FirstFrame, EndOfPictures, ExtractFrame
  <2>2. \A w \in Viewer : scan'[w] = scan[w] \/ scan'[w] = Scanner
    BY <1>0, <2>1
  <2>3. QED
    BY <1>0, <2>2, ScannerType
<1>4. CASE Plug \/ Probe \/ UNCHANGED vars
  BY <1>1, <1>4 DEF Plug, Probe, vars
<1>5. ASSUME NEW v \in Viewer, Moves(v) \/ HandsOn(v) \/ Launch(v) \/ Reaps(v) \/ Release(v)
      PROVE  UNCHANGED scan
  BY <1>5 DEF Moves, CheckDevice, SetupFails, NextFrame, Terminate, HandsOn, StoreFrame,
              WriteFrame, WriteFails, Launch, Reaps, Reap, WaitForEver, Waited, Release
<1>6. ASSUME NEW v \in Viewer, \/ Request(v) \/ Hangup(v) \/ Again(v)
                               \/ FfmpegWrites(v) \/ FfmpegHangs(v) \/ Death(v)
                               \/ KillAfterTimeout(v)
      PROVE  UNCHANGED scan
  BY <1>6 DEF Request, Hangup, Again, FfmpegWrites, FfmpegHangs, Death, KillAfterTimeout
<1>7. QED
  BY Steps, <1>1, <1>2, <1>3, <1>4, <1>5, <1>6

\* The requests that are, or are about to be, at a picture.
Watching == {"first", "loop", "read", "store", "write"}

(* What a step leaves alone it does not lose.                                 *)
LEMMA SameFollows ==
  ASSUME Shape, ScanFollows, NEW w \in Viewer, stage[w] \in Watching,
         scan'[w] = scan[w], pipe'[w] = pipe[w], ffmpeg'[w] = ffmpeg[w]
  PROVE  Follows(scan[w], pipe[w], Lives(w))'
<1>1. Follows(scan[w], pipe[w], Lives(w))
  BY DEF ScanFollows, Watching
<1>2. Lives(w)' = Lives(w)
  BY DEF Lives
<1>3. QED
  BY <1>1, <1>2

(* The fact about the bytes survives every step.                              *)
LEMMA FollowsStep ==
  ASSUME IInv, [Next]_vars
  PROVE  ScanFollows'
<1> DEFINE Kept(w) == stage'[w] \in Watching => Follows(scan[w], pipe[w], Lives(w))'
<1>0. Shape /\ PlaceIsHeld /\ HandsAreEmpty /\ BufferIsBounded /\ ScanFollows
  BY DEF IInv
<1>1. ASSUME NEW w \in Viewer, stage'[w] \in Watching => stage[w] \in Watching,
             scan'[w] = scan[w], pipe'[w] = pipe[w], ffmpeg'[w] = ffmpeg[w]
      PROVE  Kept(w)
  BY <1>0, <1>1, SameFollows
<1>2. SUFFICES \A w \in Viewer : Kept(w)
  BY DEF ScanFollows, Watching
<1> USE DEF cameraVars, process, reader, Goto
<1> HIDE DEF Kept
<1>3. CASE Plug \/ Probe \/ UNCHANGED vars
  <2>1. UNCHANGED <<stage, scan, pipe, ffmpeg>>
    BY <1>3 DEF Plug, Probe, vars
  <2>2. QED
    BY <1>1, <2>1
<1>4. ASSUME NEW v \in Viewer,
             Moves(v) \/ HandsOn(v) \/ Release(v) \/ Request(v) \/ Hangup(v) \/ Again(v)
      PROVE  \A w \in Viewer : Kept(w)
  <2>1. UNCHANGED <<scan, pipe, ffmpeg>>
    BY <1>4 DEF Moves, CheckDevice, SetupFails, NextFrame, Terminate, HandsOn, StoreFrame,
                WriteFrame, WriteFails, Release, Request, Hangup, Again
  <2>2. \A w \in Viewer : stage'[w] \in Watching => stage[w] \in Watching
    BY <1>0, <1>4 DEF Moves, CheckDevice, SetupFails, NextFrame, Terminate, HandsOn, StoreFrame,
                WriteFrame, WriteFails, Release, Request, Hangup, Again, Shape, Watching
  <2>3. QED
    BY <1>1, <2>1, <2>2
<1>5. ASSUME NEW v \in Viewer, Launch(v) PROVE \A w \in Viewer : Kept(w)
  <2>1. /\ stage[v] = "launch" /\ stage' = [stage EXCEPT ![v] = "first"]
        /\ ffmpeg' = [ffmpeg EXCEPT ![v] = "runs"] /\ UNCHANGED <<scan, pipe>>
    BY <1>5 DEF Launch
  <2>2. \A w \in Viewer \ {v} : Kept(w)
    BY <1>0, <1>1, <2>1 DEF Shape
  <2>3. pipe[v] = <<>> /\ scan[v] = Scanner /\ pipe[v] \in Seq(Byte)
    BY <1>0, <2>1 DEF PlaceIsHeld, HandsAreEmpty, Shape
  <2>4. HasPictures(pipe[v], TRUE)
    BY <2>3 DEF HasPictures
  <2>5. Follows(Scanner, pipe[v], TRUE)
    BY <2>3, <2>4, ScannerFollows
  <2>6. Lives(v)' = TRUE
    BY <1>0, <2>1 DEF Lives, Shape
  <2>7. (Follows(scan[v], pipe[v], Lives(v)))'
    BY <2>1, <2>3, <2>5, <2>6
  <2>8. Kept(v)
    BY <2>7 DEF Kept
  <2>9. QED
    BY <2>2, <2>8
<1>6. ASSUME NEW v \in Viewer, ReadByte(v) PROVE \A w \in Viewer : Kept(w)
  <2>1. /\ scan' = [scan EXCEPT ![v] = ScanByte(scan[v], Head(pipe[v]))]
        /\ pipe' = [pipe EXCEPT ![v] = Tail(pipe[v])]
        /\ Follows(scan'[v], pipe'[v], Lives(v))
    BY <1>0, <1>6, ReadType
  <2>2. UNCHANGED <<stage, ffmpeg>>
    BY <1>6 DEF ReadByte
  <2>3. \A w \in Viewer \ {v} : Kept(w)
    BY <1>0, <1>1, <2>1, <2>2 DEF Shape
  <2>4. Lives(v)' = Lives(v)
    BY <2>2 DEF Lives
  <2>5. Kept(v)
    BY <2>1, <2>4 DEF Kept
  <2>6. QED
    BY <2>3, <2>5
<1>7. ASSUME NEW v \in Viewer, FirstFrame(v) \/ ExtractFrame(v) PROVE \A w \in Viewer : Kept(w)
  <2>1. /\ stage[v] \in {"first", "read"} /\ scan[v].result = "frame"
        /\ \E g \in {"loop", "store"} : stage' = [stage EXCEPT ![v] = g]
        /\ scan' = [scan EXCEPT ![v] = Scanner] /\ UNCHANGED <<pipe, ffmpeg>>
    BY <1>7 DEF FirstFrame, ExtractFrame
  <2>2. \A w \in Viewer \ {v} : Kept(w)
    BY <1>0, <1>1, <2>1 DEF Shape
  <2>3. Follows(scan[v], pipe[v], Lives(v)) /\ scan[v] \in ScanType /\ pipe[v] \in Seq(Byte)
    BY <1>0, <2>1 DEF ScanFollows, Shape
  <2>4. Lives(v) \in BOOLEAN /\ Lives(v)' = Lives(v)
    BY <2>1 DEF Lives
  <2>5. HasPictures(pipe[v], Lives(v))
    BY <2>1, <2>3, <2>4, HeldType, RestFollows DEF Follows
  <2>6. Follows(Scanner, pipe[v], Lives(v))
    BY <2>3, <2>4, <2>5, ScannerFollows
  <2>7. scan'[v] = Scanner
    BY <1>0, <2>1 DEF Shape
  <2>8. Kept(v)
    BY <2>1, <2>4, <2>6, <2>7 DEF Kept
  <2>9. QED
    BY <2>2, <2>8
<1>8. ASSUME NEW v \in Viewer, EndOfPictures(v) \/ Reaps(v) PROVE \A w \in Viewer : Kept(w)
  <2>1. stage'[v] \notin Watching
    BY <1>0, <1>8 DEF EndOfPictures, Reaps, Reap, WaitForEver, Waited, Shape, Watching
  <2>2. \A w \in Viewer \ {v} : /\ stage'[w] = stage[w] /\ scan'[w] = scan[w]
                                /\ pipe'[w] = pipe[w] /\ ffmpeg'[w] = ffmpeg[w]
    BY <1>0, <1>8 DEF EndOfPictures, Reaps, Reap, WaitForEver, Waited, Shape
  <2>3. \A w \in Viewer \ {v} : Kept(w)
    BY <1>1, <2>2
  <2>4. Kept(v)
    BY <2>1 DEF Kept
  <2>5. QED
    BY <2>3, <2>4
<1>9. ASSUME NEW v \in Viewer, FfmpegWrites(v) PROVE \A w \in Viewer : Kept(w)
  <2>1. UNCHANGED <<stage, scan, ffmpeg>> /\ ffmpeg[v] = "runs"
    BY <1>9 DEF FfmpegWrites
  <2>2. PICK u \in Picture \cup Noise : pipe' = [pipe EXCEPT ![v] = @ \o u]
    BY <1>0, <1>9, WritingType
  <2>3. pipe'[v] = pipe[v] \o u /\ \A w \in Viewer \ {v} : pipe'[w] = pipe[w]
    BY <1>0, <2>2 DEF Shape
  <2>4. \A w \in Viewer \ {v} : Kept(w)
    BY <1>1, <2>1, <2>3
  <2>5. Lives(v) = TRUE /\ Lives(v)' = TRUE
    BY <2>1 DEF Lives
  <2>6. ASSUME stage[v] \in Watching PROVE Follows(scan[v], pipe[v] \o u, TRUE)
    <3>1. Follows(scan[v], pipe[v], TRUE) /\ scan[v] \in ScanType /\ pipe[v] \in Seq(Byte)
      BY <1>0, <2>5, <2>6 DEF ScanFollows, Shape, Watching
    <3>2. QED
      BY <3>1, WritingFollows
  <2>7. Kept(v)
    BY <2>1, <2>3, <2>5, <2>6 DEF Kept
  <2>8. QED
    BY <2>4, <2>7
<1>10. ASSUME NEW v \in Viewer, FfmpegHangs(v) PROVE \A w \in Viewer : Kept(w)
  <2>1. UNCHANGED <<stage, scan, pipe>> /\ ffmpeg[v] = "runs" /\ ffmpeg' = [ffmpeg EXCEPT ![v] = "hangs"]
    BY <1>10 DEF FfmpegHangs
  <2>2. \A w \in Viewer \ {v} : Kept(w)
    BY <1>0, <1>1, <2>1 DEF Shape
  <2>3. Lives(v) = TRUE /\ Lives(v)' = TRUE
    BY <1>0, <2>1 DEF Lives, Shape
  <2>4. Kept(v)
    BY <1>0, <2>1, <2>3 DEF Kept, ScanFollows, Watching
  <2>5. QED
    BY <2>2, <2>4
<1>11. ASSUME NEW v \in Viewer, Death(v) PROVE \A w \in Viewer : Kept(w)
  <2>1. /\ UNCHANGED <<stage, scan>> /\ Lives(v)
        /\ ffmpeg' = [ffmpeg EXCEPT ![v] = "dead"]
    BY <1>0, <1>11, DeathType DEF Death
  <2>2. \/ pipe'[v] = pipe[v]
        \/ \E p \in Picture : pipe'[v] = pipe[v] \o Cut(p)
    BY <1>0, <1>11, DeathType DEF Shape
  <2>3. \A w \in Viewer \ {v} : pipe'[w] = pipe[w] /\ ffmpeg'[w] = ffmpeg[w]
    <3>1. \A p \in Picture : pipe' = [pipe EXCEPT ![v] = @ \o Cut(p)] =>
            \A w \in Viewer \ {v} : pipe'[w] = pipe[w]
      BY <1>0 DEF Shape
    <3>2. QED
      BY <1>11, <1>0, <2>1, <3>1, DeathType DEF Shape
  <2>4. \A w \in Viewer \ {v} : Kept(w)
    BY <1>1, <2>1, <2>3
  <2>5. Lives(v)' = FALSE
    BY <1>0, <2>1 DEF Lives, Shape
  <2>6. ASSUME stage[v] \in Watching PROVE Follows(scan[v], pipe'[v], FALSE)
    <3>1. Lives(v) = TRUE
      BY <2>1 DEF Lives
    <3>2. Follows(scan[v], pipe[v], TRUE) /\ scan[v] \in ScanType /\ pipe[v] \in Seq(Byte)
      BY <1>0, <2>6, <3>1 DEF ScanFollows, Shape, Watching
    <3>3. /\ Follows(scan[v], pipe[v], FALSE)
          /\ \A p \in Picture : Follows(scan[v], pipe[v] \o Cut(p), FALSE)
      BY <3>2, DyingFollows
    <3>4. QED
      BY <2>2, <3>3
  <2>7. Kept(v)
    BY <2>1, <2>5, <2>6 DEF Kept
  <2>8. QED
    BY <2>4, <2>7
<1>12. ASSUME NEW v \in Viewer, KillAfterTimeout(v) PROVE \A w \in Viewer : Kept(w)
  <2>1. \A w \in Viewer \ {v} : /\ stage'[w] = stage[w] /\ scan'[w] = scan[w]
                                /\ pipe'[w] = pipe[w] /\ ffmpeg'[w] = ffmpeg[w]
    BY <1>0, <1>12, TimeoutType DEF Shape
  <2>2. stage'[v] \notin Watching
    BY <1>0, <1>12, TimeoutType DEF Shape, Watching
  <2>3. \A w \in Viewer \ {v} : Kept(w)
    BY <1>1, <2>1
  <2>4. Kept(v)
    BY <2>2 DEF Kept
  <2>5. QED
    BY <2>3, <2>4
<1>13. QED
  BY Steps, <1>3, <1>4, <1>5, <1>6, <1>7, <1>8, <1>9, <1>10, <1>11, <1>12

LEMMA Invariant == Spec => []IInv
<1>1. IInv /\ [Next]_vars => IInv'
  BY ShapeStep, PlaceStep, HandsStep, BufferStep, FollowsStep DEF IInv
<1>2. QED
  BY InitIInv, <1>1, PTL DEF Spec

(* Every variable has its type, a scan ends after maxIterations turns and its *)
(* buffer never holds more than maxStreamBufferSize and two bytes, whatever   *)
(* ffmpeg writes (extractJPEGFrame).                                          *)
THEOREM TypeCorrect == Spec => []TypeOK
<1>1. ASSUME IInv PROVE TypeOK
  <2>1. Shape /\ PlaceIsHeld /\ HandsAreEmpty /\ BufferIsBounded
    BY <1>1 DEF IInv
  <2>2. ASSUME NEW v \in Viewer
        PROVE  pipe[v] \in Seq(Byte) /\ scan[v].turns <= MaxScan /\ Len(scan[v].buf) <= MaxBuffer + 2
    <3>1. scan[v] \in ScanType /\ Bounded(scan[v]) /\ pipe[v] \in Seq(Byte)
      BY <2>1 DEF Shape, BufferIsBounded
    <3>2. scan[v].turns \in 1 .. MaxScan /\ Len(scan[v].buf) \in Nat
      BY <3>1 DEF ScanType
    <3>3. MaxScan \in Nat /\ MaxBuffer \in Nat
      BY StreamsAssumption
    <3>4. QED
      BY <3>1, <3>2, <3>3 DEF Bounded
  <2>3. QED
    BY <2>1, <2>2 DEF TypeOK, Shape, PlaceIsHeld, HandsAreEmpty
<1>2. QED
  BY Invariant, <1>1, PTL

(* Whatever ffmpeg leaves in the pipe, what is sent on and kept for /snapshot *)
(* is a whole picture, neither cut nor made of two (extractJPEGFrame).        *)
THEOREM OnlyWholePictures == Spec => []FramesAreWhole
<1>1. IInv => FramesAreWhole
  BY DEF IInv, Shape, FramesAreWhole
<1>2. QED
  BY Invariant, <1>1, PTL

(* A process of ffmpeg belongs to the request that holds the stream: two      *)
(* never compete for the camera, and none outlives its request (handleStream, *)
(* cleanupFFmpeg).                                                            *)
THEOREM OneFfmpeg == Spec => []FfmpegHoldsStream
<1>1. IInv => FfmpegHoldsStream
  BY DEF IInv, PlaceIsHeld, FfmpegHoldsStream
<1>2. QED
  BY Invariant, <1>1, PTL
=============================================================================
