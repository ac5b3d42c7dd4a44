------------------------- MODULE FileResponseProofs -------------------------
(***************************************************************************)
(* The arithmetic of ranges and the bodies made with it, for every width   *)
(* of the integers, every length of a file and any number of versions and  *)
(* requests.                                                               *)
(***************************************************************************)
EXTENDS FileResponse, FiniteSetTheorems, TLAPS

-----------------------------------------------------------------------------
(* Arithmetic modulo W.                                                    *)

\* The width is that of numbers, with room for twice a file.
LEMMA WidthTyped == W \in Nat \ {0} /\ MaxLen \in Nat /\ 2 * MaxLen < W /\ MaxLen < W
BY WidthAssumption

\* What fits the width stays.
LEMMA ModSmall ==
    ASSUME NEW x \in Nat, NEW w \in Nat \ {0}, x < w
    PROVE  x % w = x
BY SMT

\* What exceeds it once wraps around once.
LEMMA ModOnce ==
    ASSUME NEW x \in Nat, NEW w \in Nat \ {0}, w <= x, x < 2 * w
    PROVE  x % w = x - w
BY SMT

\* Nothing is wider than the width.
LEMMA ModBounded ==
    ASSUME NEW x \in Nat, NEW w \in Nat \ {0}
    PROVE  x % w \in 0..(w - 1)
BY SMT

\* file_size - 1.
LEMMA LastPosition ==
    ASSUME NEW n \in 0..MaxLen
    PROVE  /\ n > 0 => MinusOne(n) = n - 1
           /\ n = 0 => MinusOne(n) = W - 1
           /\ MinusOne(n) \in U64
<1>1. (n + W - 1) \in Nat /\ W \in Nat \ {0} /\ n < W
  BY WidthTyped
<1>2. CASE n > 0
  <2>1. W <= n + W - 1 /\ n + W - 1 < 2 * W /\ n + W - 1 - W = n - 1
    BY <1>1, <1>2
  <2>2. MinusOne(n) = n - 1
    BY <1>1, <2>1, ModOnce DEF MinusOne
  <2> QED
    BY <1>1, <1>2, <2>2 DEF U64
<1>3. CASE n = 0
  <2>1. n + W - 1 < W /\ n + W - 1 = W - 1
    BY <1>1, <1>3
  <2>2. MinusOne(n) = W - 1
    BY <1>1, <2>1, ModSmall DEF MinusOne
  <2> QED
    BY <1>1, <1>3, <2>2 DEF U64
<1> QED
  BY <1>2, <1>3

\* What a request consists of.
LEMMA RequestTyped ==
    ASSUME NEW h \in Requests
    PROVE  h.kind \in Kinds /\ h.a \in Nat /\ h.b \in Nat /\ h.a < W /\ h.b < W
BY WidthTyped DEF Requests, U64

\* The least of two numbers.
LEMMA LeastOf ==
    ASSUME NEW m \in Nat, NEW n \in Nat
    PROVE  Least(m, n) \in {m, n} /\ Least(m, n) <= m /\ Least(m, n) <= n
BY DEF Least

\* Where a response starts.
LEMMA StartBounded ==
    ASSUME NEW h \in Requests, NEW n \in 0..MaxLen
    PROVE  /\ Start(h, n) \in 0..n
           /\ ~Parses(h, n) => Start(h, n) = 0
           /\ h.kind = "suffix" => Start(h, n) = n - Least(n, h.b)
           /\ Parses(h, n) /\ h.kind # "suffix" => Start(h, n) = h.a /\ h.a < n
<1>1. h.a \in Nat /\ h.b \in Nat /\ n \in Nat
  BY RequestTyped, WidthTyped
<1>2. Least(n, h.b) \in 0..n
  BY <1>1, LeastOf
<1>3. CASE ~Parses(h, n)
  BY <1>1, <1>3 DEF Start, Parses
<1>4. CASE h.kind = "suffix"
  BY <1>1, <1>2, <1>4 DEF Start, Parses
<1>5. CASE Parses(h, n) /\ h.kind # "suffix"
  BY <1>1, <1>5 DEF Start, Parses
<1> QED
  BY <1>3, <1>4, <1>5

\* Where it ends.
LEMMA EndBounded ==
    ASSUME NEW h \in Requests, NEW n \in 0..MaxLen
    PROVE  /\ End(h, n) \in U64
           /\ n > 0 => End(h, n) \in 0..(n - 1)
           /\ Parses(h, n) /\ h.kind = "fromTo" => End(h, n) = Least(h.b, n - 1)
           /\ h.kind # "fromTo" => End(h, n) = MinusOne(n)
<1>1. h.b \in Nat /\ h.b < W /\ n \in Nat /\ h.a \in Nat /\ W \in Nat
  BY RequestTyped, WidthTyped
<1>2. MinusOne(n) \in U64 /\ (n > 0 => MinusOne(n) = n - 1)
  BY LastPosition
<1>3. MinusOne(n) \in Nat
  BY <1>1, <1>2 DEF U64
<1>4. Least(h.b, MinusOne(n)) \in 0..MinusOne(n)
  BY <1>1, <1>3, LeastOf
<1>5. CASE Parses(h, n) /\ h.kind = "fromTo"
  <2>1. n > 0
    BY <1>1, <1>5 DEF Parses
  <2> QED
    BY <1>1, <1>2, <1>3, <1>4, <1>5, <2>1 DEF End, U64
<1>6. CASE ~(Parses(h, n) /\ h.kind = "fromTo")
  BY <1>1, <1>2, <1>3, <1>6 DEF End, U64
<1> QED
  BY <1>5, <1>6

\* How long it is: what the range spans, or after a wrap around more than
\* any file has.
LEMMA LengthOf ==
    ASSUME NEW h \in Requests, NEW n \in 0..MaxLen
    PROVE  /\ Length(h, n) \in U64
           /\ ~Parses(h, n) => Length(h, n) = n
           /\ Parses(h, n) /\ n = 0 => Length(h, n) = 0
           /\ Parses(h, n) /\ n > 0 /\ Start(h, n) <= End(h, n) + 1
                => Length(h, n) = End(h, n) - Start(h, n) + 1
           /\ Parses(h, n) /\ n > 0 /\ Start(h, n) > End(h, n) + 1
                => Length(h, n) > MaxLen
<1> DEFINE s == Start(h, n)
           e == End(h, n)
<1>1. /\ W \in Nat \ {0} /\ MaxLen \in Nat /\ 2 * MaxLen < W /\ MaxLen < W
      /\ n \in Nat /\ n <= MaxLen /\ s \in 0..n /\ e \in 0..(W - 1)
  BY WidthTyped, StartBounded, EndBounded DEF U64
<1>2. CASE ~Parses(h, n)
  BY <1>1, <1>2 DEF Length, U64
<1>3. CASE Parses(h, n) /\ n = 0
  <2>1. e = W - 1 /\ s = 0
    <3>1. h.kind = "suffix"
      BY <1>3, RequestTyped DEF Parses
    <3> QED
      BY <1>1, <1>3, <3>1, EndBounded, LastPosition
  <2>2. e + W - s + 1 = 2 * W /\ Length(h, n) = (e + W - s + 1) % W
    BY <1>1, <1>3, <2>1 DEF Length
  <2>3. (2 * W) % W = 0
    BY <1>1, SMT
  <2> QED
    BY <1>1, <1>3, <2>2, <2>3 DEF U64
<1>4. CASE Parses(h, n) /\ n > 0
  <2>1. e \in 0..(n - 1)
    BY <1>1, <1>4, EndBounded
  <2>2. Length(h, n) = (e + W - s + 1) % W
    BY <1>4 DEF Length
  <2> HIDE DEF s, e
  <2>3. e + W - s + 1 \in Nat
    BY <1>1, <2>1
  <2>4. CASE s <= e + 1
    <3>1. W <= e + W - s + 1 /\ e + W - s + 1 < 2 * W
      BY <1>1, <2>1, <2>4
    <3>2. Length(h, n) = e - s + 1
      <4>1. (e + W - s + 1) % W = (e + W - s + 1) - W
        BY <1>1, <2>3, <3>1, ModOnce
      <4>2. (e + W - s + 1) - W = e - s + 1
        BY <1>1, <2>1
      <4> QED
        BY <2>2, <4>1, <4>2
    <3>3. e - s + 1 \in U64
      BY <1>1, <2>1, <2>4 DEF U64
    <3> QED
      BY <1>1, <1>4, <2>1, <2>4, <3>2, <3>3 DEF s, e
  <2>5. CASE s > e + 1
    <3>1. e + W - s + 1 < W /\ e + W - s + 1 > MaxLen
      BY <1>1, <2>1, <2>5
    <3>2. Length(h, n) = e + W - s + 1
      BY <1>1, <2>2, <2>3, <3>1, ModSmall
    <3>3. e + W - s + 1 \in U64
      BY <1>1, <2>3, <3>1 DEF U64
    <3> QED
      BY <1>1, <1>4, <2>1, <2>5, <3>1, <3>2, <3>3 DEF s, e
  <2> QED
    BY <1>1, <2>1, <2>4, <2>5
<1> HIDE DEF s, e
<1> QED
  BY <1>1, <1>2, <1>3, <1>4

-----------------------------------------------------------------------------
(* Ranges.                                                                 *)

\* What RangeHonoured says of one header and one size.
Honoured(h, n) ==
    IF Asked(h, n) = {} THEN ~Parses(h, n)
    ELSE /\ Asked(h, n) = Start(h, n)..End(h, n)
         /\ Length(h, n) = End(h, n) - Start(h, n) + 1

\* A range from a position in the file to another one.
LEMMA SpanHonoured ==
    ASSUME NEW h \in Requests, NEW n \in 1..MaxLen,
           Asked(h, n) = Start(h, n)..End(h, n),
           Start(h, n) <= End(h, n),
           Parses(h, n) \/ h.kind = "none"
    PROVE  Honoured(h, n)
<1>1. /\ n \in 0..MaxLen /\ n > 0 /\ n \in Nat
      /\ Start(h, n) \in Nat /\ End(h, n) \in 0..(n - 1)
  <2>1. n \in 0..MaxLen /\ n > 0 /\ n \in Nat
    BY WidthTyped
  <2> QED
    BY <2>1, StartBounded, EndBounded
<1>2. Asked(h, n) # {}
  BY <1>1
<1>3. Length(h, n) = End(h, n) - Start(h, n) + 1
  <2>1. CASE Parses(h, n)
    BY <1>1, <2>1, LengthOf
  <2>2. CASE ~Parses(h, n)
    <3>1. Start(h, n) = 0 /\ Length(h, n) = n
      BY <1>1, <2>2, StartBounded, LengthOf
    <3>2. End(h, n) = n - 1
      BY <1>1, <2>2, EndBounded, LastPosition
    <3> QED
      BY <1>1, <3>1, <3>2
  <2> QED
    BY <2>1, <2>2
<1> QED
  BY <1>2, <1>3 DEF Honoured

\* parse_range_header answers every well-formed header as RFC 9110 has it.
LEMMA HeaderHonoured ==
    ASSUME NEW h \in Requests, NEW n \in 1..MaxLen, WellFormed(h)
    PROVE  Honoured(h, n)
<1>1. /\ n \in 0..MaxLen /\ n > 0 /\ n \in Nat
      /\ h.a \in Nat /\ h.b \in Nat /\ h.kind \in Kinds
  BY WidthTyped, RequestTyped
<1>2. MinusOne(n) = n - 1
  BY <1>1, LastPosition
<1>3. CASE h.kind = "none"
  <2>1. ~Parses(h, n) /\ Asked(h, n) = 0..(n - 1)
    BY <1>3 DEF Parses, Asked
  <2>2. Start(h, n) = 0 /\ End(h, n) = n - 1
    BY <1>1, <1>2, <1>3, <2>1, StartBounded, EndBounded
  <2> QED
    BY <1>1, <1>3, <2>1, <2>2, SpanHonoured
<1>4. CASE h.kind \in {"from", "fromTo"} /\ n <= h.a
  <2>1. ~Parses(h, n)
    BY <1>1, <1>4 DEF Parses
  <2>2. Asked(h, n) = {}
    BY <1>1, <1>4 DEF Asked
  <2> QED
    BY <2>1, <2>2 DEF Honoured
<1>5. CASE h.kind = "from" /\ h.a < n
  <2>1. Parses(h, n)
    BY <1>5 DEF Parses
  <2>2. Start(h, n) = h.a /\ End(h, n) = n - 1
    BY <1>1, <1>2, <1>5, <2>1, StartBounded, EndBounded
  <2>3. Asked(h, n) = h.a..(n - 1)
    BY <1>1, <1>5 DEF Asked
  <2> QED
    BY <1>1, <1>5, <2>1, <2>2, <2>3, SpanHonoured
<1>6. CASE h.kind = "fromTo" /\ h.a < n
  <2>1. Parses(h, n) /\ h.a <= h.b
    BY <1>6 DEF Parses, WellFormed
  <2>2. Start(h, n) = h.a /\ End(h, n) = Least(h.b, n - 1)
    BY <1>1, <1>6, <2>1, StartBounded, EndBounded
  <2>3. Asked(h, n) = h.a..Least(h.b, n - 1)
    BY <1>1, <1>6 DEF Asked, Least
  <2>4. h.a <= Least(h.b, n - 1)
    BY <1>1, <1>6, <2>1 DEF Least
  <2> QED
    BY <1>1, <2>1, <2>2, <2>3, <2>4, SpanHonoured
<1>7. CASE h.kind = "suffix"
  <2>1. Parses(h, n) /\ h.b > 0
    BY <1>7 DEF Parses, WellFormed
  <2>2. Start(h, n) = n - Least(n, h.b) /\ End(h, n) = n - 1
    BY <1>1, <1>2, <1>7, StartBounded, EndBounded
  <2>3. Asked(h, n) = (n - Least(n, h.b))..(n - 1)
    BY <1>1, <1>7 DEF Asked, Least
  <2>4. n - Least(n, h.b) <= n - 1
    BY <1>1, <2>1 DEF Least
  <2> QED
    BY <1>1, <2>1, <2>2, <2>3, <2>4, SpanHonoured
<1> QED
  BY <1>1, <1>3, <1>4, <1>5, <1>6, <1>7 DEF Kinds

-----------------------------------------------------------------------------
(* The invariant.                                                          *)

\* The size has been read, and the range computed from it.
Sized == {"reopen"} \cup Body

\* A body is no longer than the file it may come from, and only a response
\* that streams, or did, has one.
BodyFits ==
    /\ hpc \notin Body => part = <<>>
    /\ hpc \in Body => Len(part) <= Length(req, size)
    /\ hpc = "done" => Len(part) = Length(req, size)
    /\ part = <<>> \/ Start(req, size) + Len(part) <= MaxLen

\* A downloader asks for the whole file, or to go on after what it has.
AsksForTheRest ==
    /\ Len(saved) <= MaxLen
    /\ req.goal = "file" => \/ req = Whole /\ saved = <<>>
                            \/ req = From("file", Len(saved))

Panicked == hpc = "panicked" => Overflows(req, size)

\* As long as the file is left alone, both handles lead to it, and the body
\* is what it has from Start on.
Steady == ~moved =>
    /\ hpc \in {"opened"} \cup Sized => path # Gone /\ source = path
    /\ hpc \in Sized => size = len[path]
    /\ hpc \in Body =>
         /\ part = <<>> \/ Start(req, size) + Len(part) <= size
         /\ \A i \in 1..Len(part) : part[i] = <<path, Start(req, size) + i - 1>>

\* ... and what was saved of it is its beginning.
SavedSteady == ~changed /\ req.goal = "file" =>
    \A i \in 1..Len(saved) : saved[i] = <<path, i - 1>>

BodyInv == BodyFits /\ AsksForTheRest

IInv == TypeOK /\ BodyInv /\ Panicked /\ Steady /\ SavedSteady

-----------------------------------------------------------------------------
\* The constants in use.
LEMMA Constants ==
    /\ W \in Nat /\ MaxLen \in Nat /\ MaxLen < W /\ 2 * MaxLen < W
    /\ MaxVersions \in Nat \ {0} /\ MaxTries \in Nat
    /\ Numbers \subseteq U64 /\ 0 \in U64
    /\ Gone \notin Versions /\ 1 \in Versions
BY WidthTyped, NumbersAssumption, BoundsAssumption DEF U64, Gone, Versions

\* No chunks are chunks.
LEMMA EmptyBody == <<>> \in Seq(Chunks)
OBVIOUS

\* Requests of every form.
LEMMA RequestsFormed ==
    /\ Whole \in Requests
    /\ \A i \in U64 : From("file", i) \in Requests /\ From("part", i) \in Requests
    /\ Parts \subseteq Requests /\ \A h \in Parts : h.goal = "part"
<1>1. Numbers \subseteq U64 /\ 0 \in U64
  BY Constants
<1>2. Whole \in Requests
  BY <1>1 DEF Whole, Requests, Kinds
<1>3. \A i \in U64 : From("file", i) \in Requests /\ From("part", i) \in Requests
  BY <1>1 DEF From, Requests, Kinds
<1>4. ASSUME NEW h \in Parts
      PROVE  h \in Requests /\ h.goal = "part"
  <2>1. CASE \E i \in Numbers : h = From("part", i)
    <3>1. PICK i \in Numbers : h = From("part", i)
      BY <2>1
    <3>2. h \in Requests
      BY <1>1, <1>3, <3>1
    <3>3. h.goal = "part"
      BY <3>1 DEF From
    <3> QED
      BY <3>2, <3>3
  <2>2. CASE h \in [goal : {"part"}, kind : {"fromTo"}, a : Numbers, b : Numbers]
    BY <1>1, <2>2 DEF Requests, Kinds
  <2>3. CASE h \in [goal : {"part"}, kind : {"suffix"}, a : {0}, b : Numbers]
    BY <1>1, <2>3 DEF Requests, Kinds
  <2> QED
    BY <2>1, <2>2, <2>3 DEF Parts
<1> QED
  BY <1>2, <1>3, <1>4

\* What is known of the file, the handle and the request.
LEMMA ResponseTyped ==
    ASSUME TypeOK
    PROVE  /\ req \in Requests /\ size \in 0..MaxLen /\ size \in Nat
           /\ Start(req, size) \in Nat /\ Length(req, size) \in Nat
           /\ part \in Seq(Chunks) /\ saved \in Seq(Chunks)
           /\ Len(part) \in Nat /\ Len(saved) \in Nat
           /\ len[source] \in 0..MaxLen
<1>1. req \in Requests /\ size \in 0..MaxLen /\ source \in Versions
      /\ len \in [Versions -> 0..MaxLen]
      /\ part \in Seq(Chunks) /\ saved \in Seq(Chunks)
  BY DEF TypeOK
<1>2. Start(req, size) \in 0..size /\ Length(req, size) \in U64
  BY <1>1, StartBounded, LengthOf
<1> QED
  BY <1>1, <1>2, Constants DEF U64

\* A resumed download continues at what is saved, or begins again.
LEMMA AssembledLength ==
    ASSUME TypeOK, BodyInv, req.goal = "file"
    PROVE  /\ Parses(req, size) => Start(req, size) = Len(saved) /\ req.kind = "from"
           /\ ~Parses(req, size) => Start(req, size) = 0
           /\ Assembled \in Seq(Chunks)
           /\ Len(Assembled) = Start(req, size) + Len(part)
           /\ Len(Assembled) <= MaxLen
<1>1. req \in Requests /\ size \in 0..MaxLen
      /\ part \in Seq(Chunks) /\ saved \in Seq(Chunks)
      /\ Len(part) \in Nat /\ Len(saved) \in Nat /\ Start(req, size) \in Nat
  BY ResponseTyped
<1>2. Len(saved) <= MaxLen /\ (part = <<>> \/ Start(req, size) + Len(part) <= MaxLen)
  BY DEF BodyInv, BodyFits, AsksForTheRest
<1>3. CASE Parses(req, size)
  <2>1. req = From("file", Len(saved))
    BY <1>3 DEF BodyInv, AsksForTheRest, Whole, Parses
  <2>2. req.kind = "from" /\ req.a = Len(saved)
    BY <2>1 DEF From
  <2>3. Start(req, size) = Len(saved)
    BY <1>1, <1>3, <2>2, StartBounded
  <2>4. Assembled = saved \o part
    BY <1>3 DEF Assembled
  <2>5. Assembled \in Seq(Chunks) /\ Len(Assembled) = Len(saved) + Len(part)
    BY <1>1, <2>4
  <2>6. part = <<>> => Len(part) = 0
    OBVIOUS
  <2> QED
    BY <1>1, <1>2, <1>3, <2>2, <2>3, <2>5, <2>6, Constants
<1>4. CASE ~Parses(req, size)
  <2>1. Assembled = part /\ Start(req, size) = 0
    BY <1>1, <1>4, StartBounded DEF Assembled
  <2>2. part = <<>> => Len(part) = 0
    OBVIOUS
  <2>3. Len(part) <= MaxLen
    BY <1>1, <1>2, <2>1, <2>2, Constants
  <2>4. Len(Assembled) = Start(req, size) + Len(part)
    BY <1>1, <2>1
  <2> QED
    BY <1>1, <1>4, <2>1, <2>3, <2>4
<1> QED
  BY <1>3, <1>4

-----------------------------------------------------------------------------
(* Types and lengths.                                                      *)

\* The invariant holds before the first request.
LEMMA InitInvariant == Init => IInv
<1> SUFFICES ASSUME Init
             PROVE  IInv
  OBVIOUS
<1>1. Whole \in Requests /\ 0 \in 0..MaxLen
  BY RequestsFormed, Constants
<1>2. Length(req, size) \in U64
  BY <1>1, LengthOf DEF Init
<1>3. len \in [Versions -> 0..MaxLen]
  BY DEF Init
<1>4. TypeOK
  <2>1. part \in Seq(Chunks) /\ saved \in Seq(Chunks)
    BY EmptyBody DEF Init
  <2>2. path \in Versions /\ made \in Versions /\ source \in Versions
    BY Constants DEF Init
  <2>3. req \in Requests /\ size \in 0..MaxLen /\ tries \in 0..MaxTries
    BY <1>1, Constants DEF Init
  <2> QED
    BY <1>2, <1>3, <2>1, <2>2, <2>3 DEF Init, TypeOK, Waiting
<1>5. BodyInv
  BY Constants DEF Init, BodyInv, BodyFits, AsksForTheRest, Body
<1>6. Panicked /\ Steady /\ SavedSteady
  BY DEF Init, Panicked, Steady, SavedSteady, Sized, Body
<1> QED
  BY <1>4, <1>5, <1>6 DEF IInv

\* A request that arrives.
LEMMA ArriveTyped ==
    ASSUME TypeOK, Arrive, req' \in Requests, saved' \in Seq(Chunks),
           changed' \in BOOLEAN
    PROVE  TypeOK'
<1>1. Length(req, size)' \in U64
  BY LengthOf DEF TypeOK, Arrive
<1>2. tries' \in 0..MaxTries
  BY Constants DEF TypeOK, Arrive
<1> QED
  <2>1. part' \in Seq(Chunks) /\ moved' \in BOOLEAN /\ ~moved'
    BY EmptyBody DEF Arrive
  <2>2. UNCHANGED <<path, made, len, checks, source, size>> /\ hpc' = "arrived"
    BY DEF Arrive, fileVars
  <2> QED
    BY <1>1, <1>2, <2>1, <2>2 DEF TypeOK

\* Position of the next read.
LEMMA SendTyped ==
    ASSUME TypeOK, Send
    PROVE  /\ TypeOK'
           /\ Len(part') = Len(part) + 1
           /\ Start(req, size) + Len(part) + 1 <= MaxLen
           /\ Start(req, size) + Len(part) + 1 <= len[source]
           /\ Len(part) + 1 <= Length(req, size)
           /\ part' # <<>>
           /\ part'[Len(part) + 1] = <<source, Start(req, size) + Len(part)>>
           /\ \A i \in 1..Len(part) : part'[i] = part[i]
<1>1. /\ Start(req, size) \in Nat /\ Length(req, size) \in Nat
      /\ part \in Seq(Chunks) /\ Len(part) \in Nat /\ len[source] \in 0..MaxLen
  BY ResponseTyped
<1>2. Position = Start(req, size) + Len(part) /\ Position < len[source]
      /\ Len(part) < Length(req, size)
  BY DEF Send, Position
<1>3. part' = Append(part, <<source, Position>>)
  BY DEF Send
<1>4. <<source, Position>> \in Chunks
  BY <1>1, <1>2, Constants DEF Chunks, TypeOK
<1>5. part' \in Seq(Chunks) /\ Len(part') = Len(part) + 1
  BY <1>1, <1>3, <1>4
<1>6. part'[Len(part) + 1] = <<source, Position>>
      /\ \A i \in 1..Len(part) : part'[i] = part[i]
  BY <1>1, <1>3, <1>4
<1>7. TypeOK'
  BY <1>5, LengthOf DEF Send, TypeOK, fileVars, requestVars, historyVars
<1>8. part' # <<>>
  BY <1>1, <1>5
<1> QED
  BY <1>1, <1>2, <1>5, <1>6, <1>7, <1>8, Constants

\* Every step keeps the types.
LEMMA StepTyped ==
    ASSUME TypeOK, BodyInv, [Next]_vars
    PROVE  TypeOK'
<1>1. CASE RequestFile
  <2>1. req' \in Requests /\ saved' \in Seq(Chunks) /\ changed' \in BOOLEAN
    BY <1>1, RequestsFormed, EmptyBody DEF RequestFile
  <2> QED
    BY <1>1, <2>1, ArriveTyped DEF RequestFile
<1>2. CASE Resume
  <2>1. saved' \in Seq(Chunks) /\ Len(saved') <= MaxLen /\ Len(saved') \in Nat
    BY <1>2, AssembledLength, ResponseTyped DEF Resume, BodyInv, AsksForTheRest
  <2>2. Len(saved') \in U64
    BY <2>1, Constants DEF U64
  <2>3. req' \in Requests
    BY <1>2, <2>2, RequestsFormed DEF Resume
  <2>4. changed' \in BOOLEAN
    BY <1>2 DEF Resume, TypeOK
  <2> QED
    BY <1>2, <2>1, <2>3, <2>4, ArriveTyped DEF Resume
<1>3. CASE RequestPart
  <2>1. req' \in Requests /\ saved' \in Seq(Chunks) /\ changed' \in BOOLEAN
    BY <1>3, RequestsFormed DEF RequestPart, TypeOK
  <2> QED
    BY <1>3, <2>1, ArriveTyped DEF RequestPart
<1>4. CASE PathExists
  BY <1>4 DEF PathExists, TypeOK, fileVars, requestVars, historyVars, Waiting
<1>5. CASE OpenFile
  <2>1. hpc' \in {"error", "opened"} /\ source' \in Versions
    BY <1>5 DEF OpenFile, TypeOK
  <2> QED
    BY <1>5, <2>1 DEF OpenFile, TypeOK, fileVars, requestVars, historyVars, Waiting
<1>6. CASE ReadSize
  <2>1. size' \in 0..MaxLen /\ req' = req
    BY <1>6 DEF ReadSize, TypeOK, requestVars
  <2>2. Length(req, size)' \in U64
    BY <2>1, LengthOf DEF TypeOK
  <2>3. hpc' \in {"panicked", "reopen", "streaming"}
    BY <1>6 DEF ReadSize
  <2> QED
    BY <1>6, <2>1, <2>2, <2>3
    DEF ReadSize, TypeOK, fileVars, requestVars, historyVars, Waiting
<1>7. CASE Reopen
  <2>1. hpc' \in {"error", "streaming"} /\ source' \in Versions
    BY <1>7 DEF Reopen, TypeOK
  <2> QED
    BY <1>7, <2>1 DEF Reopen, TypeOK, fileVars, requestVars, historyVars, Waiting
<1>8. CASE Send
  BY <1>8, SendTyped
<1>9. CASE EndOfFile \/ Complete \/ Disconnect
  <2>1. hpc' \in Waiting
    BY <1>9 DEF EndOfFile, Complete, Disconnect, Waiting
  <2> QED
    BY <1>9, <2>1 DEF EndOfFile, Complete, Disconnect, TypeOK, fileVars,
                      requestVars, historyVars
<1>10. CASE Replace \/ Resize \/ Remove
  <2>1. made' \in Versions /\ path' \in Versions \cup {Gone}
    <3>1. /\ made \in Versions /\ path \in Versions \cup {Gone}
          /\ Versions = 1..MaxVersions /\ MaxVersions \in Nat
      BY Constants DEF TypeOK, Versions
    <3>2. CASE Replace
      BY <3>1, <3>2 DEF Replace
    <3>3. CASE Resize \/ Remove
      BY <3>1, <3>3 DEF Resize, Remove
    <3> QED
      BY <1>10, <3>2, <3>3
  <2>2. len' \in [Versions -> 0..MaxLen]
    BY <1>10 DEF Replace, Resize, Remove, TypeOK
  <2>3. Touch
    BY <1>10 DEF Replace, Resize, Remove
  <2> QED
    BY <2>1, <2>2, <2>3 DEF Touch, TypeOK, requestVars
<1>11. CASE UNCHANGED vars
  BY <1>11 DEF vars, fileVars, requestVars, historyVars, TypeOK
<1> QED
  BY <1>1, <1>2, <1>3, <1>4, <1>5, <1>6, <1>7, <1>8, <1>9, <1>10, <1>11
  DEF Next, Handler, Stream

\* Every step keeps the lengths.
LEMMA StepBody ==
    ASSUME TypeOK, BodyInv, [Next]_vars
    PROVE  BodyInv'
<1>1. ASSUME Arrive, Len(saved') <= MaxLen,
             req'.goal = "file" => \/ req' = Whole /\ saved' = <<>>
                                   \/ req' = From("file", Len(saved'))
      PROVE  BodyInv'
  BY <1>1 DEF Arrive, BodyInv, BodyFits, AsksForTheRest, Body
<1>2. CASE RequestFile
  <2>1. Len(saved') <= MaxLen
    BY <1>2, Constants DEF RequestFile
  <2> QED
    BY <1>1, <1>2, <2>1 DEF RequestFile
<1>3. CASE Resume
  <2>1. Len(saved') <= MaxLen
    BY <1>3, AssembledLength DEF Resume, BodyInv, AsksForTheRest
  <2> QED
    BY <1>1, <1>3, <2>1 DEF Resume
<1>4. CASE RequestPart
  <2>1. req'.goal = "part" /\ saved' = saved
    BY <1>4, RequestsFormed DEF RequestPart
  <2>2. Len(saved') <= MaxLen
    BY <2>1 DEF BodyInv, AsksForTheRest
  <2> QED
    BY <1>1, <1>4, <2>1, <2>2 DEF RequestPart
<1>5. ASSUME hpc \notin Body, part' = part, UNCHANGED requestVars, hpc' # "done"
      PROVE  BodyInv'
  <2>1. part = <<>> /\ part' = <<>> /\ Len(part') = 0
    BY <1>5 DEF BodyInv, BodyFits
  <2>2. Length(req', size') \in Nat
    BY StepTyped, LengthOf DEF TypeOK, U64
  <2>3. BodyFits'
    BY <1>5, <2>1, <2>2 DEF BodyFits
  <2>4. AsksForTheRest'
    BY <1>5 DEF BodyInv, AsksForTheRest, requestVars
  <2> QED
    BY <2>3, <2>4 DEF BodyInv
<1>6. CASE Handler
  <2>1. hpc \notin Body /\ part' = part /\ hpc' # "done" /\ UNCHANGED requestVars
    BY <1>6 DEF Handler, PathExists, OpenFile, ReadSize, Reopen, Body
  <2> QED
    BY <1>5, <2>1
<1>7. CASE Send
  <2>1. /\ Len(part') = Len(part) + 1 /\ part' # <<>>
        /\ Start(req, size) + Len(part) + 1 <= MaxLen
        /\ Len(part) + 1 <= Length(req, size)
        /\ Len(part) \in Nat /\ Start(req, size) \in Nat
    BY <1>7, SendTyped, ResponseTyped
  <2>2. hpc = "streaming" /\ UNCHANGED <<req, saved, hpc, size>>
    BY <1>7 DEF Send, requestVars
  <2>3. Start(req, size)' = Start(req, size) /\ Length(req, size)' = Length(req, size)
    BY <2>2
  <2>4. BodyFits'
    BY <2>1, <2>2, <2>3, Constants DEF BodyFits, Body
  <2>5. AsksForTheRest'
    BY <2>2 DEF BodyInv, AsksForTheRest
  <2> QED
    BY <2>4, <2>5 DEF BodyInv
<1>8. ASSUME UNCHANGED <<req, saved, size, part>>, hpc \in Body => hpc' \in Body,
             hpc' \in Body => hpc \in Body,
             hpc' = "done" => hpc = "done" \/ Len(part) = Length(req, size)
      PROVE  BodyInv'
  <2>1. Start(req, size)' = Start(req, size) /\ Length(req, size)' = Length(req, size)
    BY <1>8
  <2> QED
    BY <1>8, <2>1 DEF BodyInv, BodyFits, AsksForTheRest
<1>9. CASE EndOfFile \/ Complete
  BY <1>8, <1>9 DEF EndOfFile, Complete, requestVars, Body
<1>10. CASE Disconnect
  BY <1>8, <1>10 DEF Disconnect, requestVars, Body, Waiting
<1>11. CASE Replace \/ Resize \/ Remove
  BY <1>8, <1>11 DEF Replace, Resize, Remove, Touch, requestVars
<1>12. CASE UNCHANGED vars
  BY <1>8, <1>12 DEF vars, requestVars
<1> QED
  BY <1>2, <1>3, <1>4, <1>6, <1>7, <1>9, <1>10, <1>11, <1>12 DEF Next, Stream

\* Every step keeps what a panic tells.
LEMMA StepPanicked ==
    ASSUME TypeOK, Panicked, [Next]_vars
    PROVE  Panicked'
<1>1. CASE RequestFile \/ Resume \/ RequestPart
  BY <1>1 DEF RequestFile, Resume, RequestPart, Arrive, Panicked
<1>2. CASE ReadSize
  BY <1>2 DEF ReadSize, Panicked, requestVars
<1>3. CASE PathExists \/ OpenFile \/ Reopen \/ Stream \/ Disconnect
  BY <1>3 DEF PathExists, OpenFile, Reopen, Stream, Send, EndOfFile, Complete,
              Disconnect, Panicked
<1>4. ASSUME UNCHANGED <<req, size, hpc>>
      PROVE  Panicked'
  BY <1>4 DEF Panicked
<1>5. CASE Replace \/ Resize \/ Remove
  BY <1>4, <1>5 DEF Replace, Resize, Remove, Touch, requestVars
<1>6. CASE UNCHANGED vars
  BY <1>4, <1>6 DEF vars, requestVars
<1> QED
  BY <1>1, <1>2, <1>3, <1>5, <1>6 DEF Next, Handler

\* Both handles lead to a file that is left alone.
LEMMA StepSteady ==
    ASSUME TypeOK, BodyInv, Steady, [Next]_vars
    PROVE  Steady'
<1>1. CASE RequestFile \/ Resume \/ RequestPart
  BY <1>1 DEF RequestFile, Resume, RequestPart, Arrive, Steady, Sized, Body
<1>2. CASE PathExists
  BY <1>2 DEF PathExists, Steady, Sized, Body
<1>3. CASE OpenFile
  BY <1>3 DEF OpenFile, Steady, Sized, Body, fileVars
<1>4. CASE ReadSize
  <2>1. part' = <<>> /\ size' = len[source]
    BY <1>4 DEF ReadSize, BodyInv, BodyFits, Body
  <2>2. ~moved => path # Gone /\ source = path
    BY <1>4 DEF ReadSize, Steady
  <2>3. Len(part') = 0 /\ UNCHANGED <<path, len, source, moved>>
    BY <1>4, <2>1 DEF ReadSize, fileVars, historyVars
  <2> QED
    BY <2>1, <2>2, <2>3 DEF Steady
<1>5. CASE Reopen
  <2>1. part' = <<>> /\ Len(part') = 0
    BY <1>5 DEF Reopen, BodyInv, BodyFits, Body
  <2>2. ~moved => path # Gone /\ size = len[path]
    BY <1>5 DEF Reopen, Steady, Sized
  <2>3. UNCHANGED <<path, len, moved, size>> /\ (path # Gone => source' = path)
    BY <1>5 DEF Reopen, fileVars, historyVars
  <2> QED
    BY <2>1, <2>2, <2>3 DEF Steady
<1>6. CASE Send
  <2>1. hpc = "streaming" /\ UNCHANGED <<req, size, hpc, path, len, source, moved>>
    BY <1>6 DEF Send, fileVars, requestVars, historyVars
  <2>2. ASSUME ~moved
        PROVE  /\ path # Gone /\ source = path /\ size = len[path]
               /\ \A i \in 1..Len(part) : part[i] = <<path, Start(req, size) + i - 1>>
    BY <2>1, <2>2 DEF Steady, Sized, Body
  <2>3. /\ Len(part') = Len(part) + 1 /\ Len(part) \in Nat /\ Start(req, size) \in Nat
        /\ Start(req, size) + Len(part) + 1 <= len[source]
        /\ part'[Len(part) + 1] = <<source, Start(req, size) + Len(part)>>
        /\ \A i \in 1..Len(part) : part'[i] = part[i]
    BY <1>6, SendTyped, ResponseTyped
  <2>4. ASSUME ~moved, NEW i \in 1..Len(part')
        PROVE  part'[i] = <<path, Start(req, size) + i - 1>>
    <3>1. CASE i \in 1..Len(part)
      BY <2>2, <2>3, <2>4, <3>1
    <3>2. CASE i = Len(part) + 1
      <4>1. Start(req, size) + i - 1 = Start(req, size) + Len(part)
        BY <2>3, <3>2
      <4> QED
        BY <2>2, <2>3, <2>4, <3>2, <4>1
    <3> QED
      BY <2>3, <3>1, <3>2
  <2>5. Start(req, size)' = Start(req, size)
    BY <2>1
  <2>6. ~moved => Start(req, size) + Len(part') <= size
    BY <2>2, <2>3
  <2> QED
    BY <2>1, <2>2, <2>4, <2>5, <2>6 DEF Steady
<1>7. ASSUME UNCHANGED <<req, size, path, len, source, moved, part>>,
             hpc' \in {"opened"} \cup Sized => hpc \in {"opened"} \cup Sized,
             hpc' \in Sized => hpc \in Sized, hpc' \in Body => hpc \in Body
      PROVE  Steady'
  BY <1>7 DEF Steady
<1>8. CASE EndOfFile \/ Complete \/ Disconnect
  BY <1>7, <1>8 DEF EndOfFile, Complete, Disconnect, fileVars, requestVars, historyVars,
                    Sized, Body, Waiting
<1>9. CASE Replace \/ Resize \/ Remove
  BY <1>9 DEF Replace, Resize, Remove, Touch, Steady
<1>10. CASE UNCHANGED vars
  BY <1>7, <1>10 DEF vars, fileVars, requestVars, historyVars
<1> QED
  BY <1>1, <1>2, <1>3, <1>4, <1>5, <1>6, <1>8, <1>9, <1>10 DEF Next, Handler, Stream

\* What has been put together of a file that is left alone.
LEMMA AssembledSteady ==
    ASSUME IInv, req.goal = "file", hpc \in Body, ~changed
    PROVE  \A i \in 1..Len(Assembled) : Assembled[i] = <<path, i - 1>>
<1>1. /\ Parses(req, size) => Start(req, size) = Len(saved)
      /\ ~Parses(req, size) => Start(req, size) = 0
      /\ Len(saved) \in Nat /\ Len(part) \in Nat
      /\ saved \in Seq(Chunks) /\ part \in Seq(Chunks)
  BY AssembledLength, ResponseTyped DEF IInv
<1>2. ~moved
  BY DEF IInv, TypeOK
<1>3. \A i \in 1..Len(part) : part[i] = <<path, Start(req, size) + i - 1>>
  BY <1>2 DEF IInv, Steady
<1>4. \A i \in 1..Len(saved) : saved[i] = <<path, i - 1>>
  BY DEF IInv, SavedSteady
<1>5. CASE ~Parses(req, size)
  <2>1. Assembled = part /\ Start(req, size) = 0
    BY <1>1, <1>5 DEF Assembled
  <2>2. ASSUME NEW i \in 1..Len(part)
        PROVE  part[i] = <<path, i - 1>>
    <3>1. Start(req, size) + i - 1 = i - 1
      BY <1>1, <2>1
    <3> QED
      BY <1>3, <3>1
  <2> QED
    BY <2>1, <2>2
<1>6. CASE Parses(req, size)
  <2>1. Assembled = saved \o part /\ Start(req, size) = Len(saved)
    BY <1>1, <1>6 DEF Assembled
  <2>2. ASSUME NEW i \in 1..Len(saved \o part)
        PROVE  (saved \o part)[i] = <<path, i - 1>>
    <3>1. CASE i <= Len(saved)
      BY <1>1, <1>4, <3>1
    <3>2. CASE i > Len(saved)
      <4>1. i - Len(saved) \in 1..Len(part)
        BY <1>1, <3>2
      <4>2. (saved \o part)[i] = part[i - Len(saved)]
        BY <1>1, <3>2
      <4>3. part[i - Len(saved)] = <<path, Start(req, size) + (i - Len(saved)) - 1>>
        BY <1>3, <4>1
      <4>4. Start(req, size) + (i - Len(saved)) - 1 = i - 1
        BY <1>1, <2>1
      <4> QED
        BY <4>2, <4>3, <4>4
    <3> QED
      BY <1>1, <3>1, <3>2
  <2> QED
    BY <2>1, <2>2
<1> QED
  BY <1>5, <1>6

\* Every step keeps what the downloader has saved.
LEMMA StepSaved ==
    ASSUME IInv, [Next]_vars
    PROVE  SavedSteady'
<1>1. CASE RequestFile
  BY <1>1 DEF RequestFile, SavedSteady
<1>2. CASE Resume
  <2>1. req.goal = "file" /\ UNCHANGED <<path, changed>>
    BY <1>2 DEF Resume, Arrive, fileVars
  <2>2. CASE hpc = "broken"
    <3>1. saved' = Assembled
      BY <1>2, <2>2 DEF Resume
    <3> QED
      BY <2>1, <2>2, <3>1, AssembledSteady DEF SavedSteady, Body
  <2>3. CASE hpc # "broken"
    <3>1. saved' = saved
      BY <1>2, <2>3 DEF Resume
    <3> QED
      BY <2>1, <3>1 DEF IInv, SavedSteady
  <2> QED
    BY <2>2, <2>3
<1>3. CASE RequestPart
  BY <1>3, RequestsFormed DEF RequestPart, SavedSteady
<1>4. ASSUME UNCHANGED <<req, saved, path, changed>>
      PROVE  SavedSteady'
  BY <1>4 DEF IInv, SavedSteady
<1>5. CASE Handler \/ Stream \/ Disconnect
  BY <1>4, <1>5 DEF Handler, PathExists, OpenFile, ReadSize, Reopen, Stream, Send,
                    EndOfFile, Complete, Disconnect, fileVars, requestVars, historyVars
<1>6. CASE Replace \/ Resize \/ Remove
  BY <1>6 DEF Replace, Resize, Remove, Touch, SavedSteady
<1>7. CASE UNCHANGED vars
  BY <1>4, <1>7 DEF vars, fileVars, requestVars, historyVars
<1> QED
  BY <1>1, <1>2, <1>3, <1>5, <1>6, <1>7 DEF Next

\* The invariant of the response.
LEMMA Invariant == Spec => []IInv
<1>1. Init => IInv
  BY InitInvariant
<1>2. IInv /\ [Next]_vars => IInv'
  <2> SUFFICES ASSUME IInv, [Next]_vars
               PROVE  IInv'
    OBVIOUS
  <2>1. TypeOK' /\ BodyInv' /\ Panicked' /\ Steady'
    BY StepTyped, StepBody, StepPanicked, StepSteady DEF IInv
  <2> QED
    BY <2>1, StepSaved DEF IInv
<1> QED
  BY <1>1, <1>2, PTL DEF Spec

-----------------------------------------------------------------------------
\* The response keeps its types, the wrapped lengths and the downloader's
\* file among them.
THEOREM ResponseTypes == Spec => []TypeOK
<1>1. IInv => TypeOK
  BY DEF IInv
<1> QED
  BY <1>1, Invariant, PTL

\* Every well-formed header gives the positions it asks for.
THEOREM RangesHonoured == Spec => []RangeHonoured
<1>1. IInv => RangeHonoured
  <2> SUFFICES ASSUME IInv, size > 0, WellFormed(req)
               PROVE  Honoured(req, size)
    BY DEF RangeHonoured, Honoured
  <2>1. req \in Requests /\ size \in 0..MaxLen
    BY ResponseTyped DEF IInv
  <2>2. size \in 1..MaxLen
    BY <2>1, Constants
  <2> QED
    BY <2>1, <2>2, HeaderHonoured
<1> QED
  BY <1>1, Invariant, PTL

\* Overflow checks stop only requests for nothing.
THEOREM OnlyEmptyPanics == Spec => []PanicsOnlyOnEmpty
<1>1. IInv => PanicsOnlyOnEmpty
  <2> SUFFICES ASSUME IInv, Overflows(req, size), size # 0, WellFormed(req)
               PROVE  FALSE
    BY DEF IInv, Panicked, PanicsOnlyOnEmpty
  <2>1. req \in Requests /\ size \in 0..MaxLen /\ size \in 1..MaxLen
    BY ResponseTyped, Constants DEF IInv
  <2>2. Parses(req, size) /\ End(req, size) < Start(req, size)
    BY DEF Overflows
  <2>3. Asked(req, size) # {} /\ Asked(req, size) = Start(req, size)..End(req, size)
    BY <2>1, <2>2, HeaderHonoured DEF Honoured
  <2>4. Start(req, size) \in 0..size /\ End(req, size) \in U64
    BY <2>1, StartBounded, EndBounded
  <2>5. Start(req, size)..End(req, size) = {}
    BY <2>1, <2>2, <2>4, Constants DEF U64
  <2> QED
    BY <2>3, <2>5
<1> QED
  BY <1>1, Invariant, PTL

\* How many positions a range has.
LEMMA PositionsCounted ==
    ASSUME NEW h \in Requests, NEW n \in 0..MaxLen, Length(h, n) <= MaxLen
    PROVE  Cardinality({i \in 0..(n - 1) : Start(h, n) <= i /\ i <= End(h, n)})
             = Length(h, n)
<1> DEFINE S == {i \in 0..(n - 1) : Start(h, n) <= i /\ i <= End(h, n)}
<1>1. /\ n \in Nat /\ Start(h, n) \in 0..n /\ End(h, n) \in Nat
      /\ n > 0 => End(h, n) \in 0..(n - 1)
      /\ ~Parses(h, n) => Start(h, n) = 0 /\ Length(h, n) = n
  BY StartBounded, EndBounded, LengthOf, Constants DEF U64
<1>2. CASE n = 0
  <2>1. S = {}
    BY <1>1, <1>2
  <2>2. Length(h, n) = 0
    BY <1>1, <1>2, LengthOf
  <2> QED
    BY <2>1, <2>2, FS_EmptySet
<1>3. CASE n > 0
  <2>1. S = Start(h, n)..End(h, n)
    BY <1>1, <1>3
  <2>2. Cardinality(S) = IF Start(h, n) > End(h, n) THEN 0
                         ELSE End(h, n) - Start(h, n) + 1
    <3>1. Start(h, n) \in Int /\ End(h, n) \in Int
      BY <1>1
    <3>2. Cardinality(Start(h, n)..End(h, n)) =
            IF Start(h, n) > End(h, n) THEN 0 ELSE End(h, n) - Start(h, n) + 1
      BY <3>1, FS_Interval, Zenon
    <3> HIDE DEF S
    <3> QED
      BY <2>1, <3>2, Zenon
  <2>3. CASE Parses(h, n)
    <3>1. Start(h, n) <= End(h, n) + 1
      BY <1>1, <1>3, <2>3, LengthOf, Constants DEF U64
    <3>2. Length(h, n) = End(h, n) - Start(h, n) + 1
      BY <1>3, <2>3, <3>1, LengthOf
    <3> QED
      BY <1>1, <2>2, <3>1, <3>2
  <2>4. CASE ~Parses(h, n)
    <3>1. End(h, n) = n - 1
      <4>1. End(h, n) = MinusOne(n)
        BY <2>4 DEF End
      <4> QED
        BY <1>3, <4>1, LastPosition
    <3> QED
      BY <1>1, <1>3, <2>2, <2>4, <3>1
  <2> QED
    BY <2>3, <2>4
<1> QED
  BY <1>1, <1>2, <1>3

\* A body that arrives in one piece has the bytes that were advertised.
THEOREM CompleteBodiesExact == Spec => []CompleteIsExact
<1>1. IInv => CompleteIsExact
  <2> SUFFICES ASSUME IInv, hpc = "done", ~moved
               PROVE  /\ size = len[path]
                      /\ Len(part) = Cardinality({i \in 0..(size - 1) :
                           Start(req, size) <= i /\ i <= End(req, size)})
                      /\ \A i \in 1..Len(part) :
                           part[i] = <<path, Start(req, size) + i - 1>>
    BY DEF CompleteIsExact
  <2>1. /\ size = len[path]
        /\ part = <<>> \/ Start(req, size) + Len(part) <= size
        /\ \A i \in 1..Len(part) : part[i] = <<path, Start(req, size) + i - 1>>
    BY DEF IInv, Steady, Sized, Body
  <2>2. Len(part) = Length(req, size)
    BY DEF IInv, BodyInv, BodyFits
  <2>3. /\ req \in Requests /\ size \in 0..MaxLen /\ size \in Nat
        /\ Len(part) \in Nat /\ Start(req, size) \in Nat
    BY ResponseTyped DEF IInv
  <2>4. Length(req, size) <= MaxLen
    <3>1. CASE part = <<>>
      BY <2>2, <3>1, Constants
    <3>2. CASE Start(req, size) + Len(part) <= size
      BY <2>2, <2>3, <3>2, Constants
    <3> QED
      BY <2>1, <3>1, <3>2
  <2>5. Len(part) = Cardinality({i \in 0..(size - 1) :
                           Start(req, size) <= i /\ i <= End(req, size)})
    BY <2>2, <2>3, <2>4, PositionsCounted
  <2> QED
    BY <2>1, <2>5
<1> QED
  BY <1>1, Invariant, PTL

\* Resuming puts a file that is left alone together, however often it takes.
THEOREM ResumingAssembles == Spec => []ResumeAssembles
<1>1. IInv => ResumeAssembles
  <2> SUFFICES ASSUME IInv, req.goal = "file", hpc \in Body, ~changed
               PROVE  /\ \A i \in 1..Len(Assembled) : Assembled[i] = <<path, i - 1>>
                      /\ hpc = "done" => Len(Assembled) = len[path]
    BY DEF ResumeAssembles
  <2>1. \A i \in 1..Len(Assembled) : Assembled[i] = <<path, i - 1>>
    BY AssembledSteady
  <2>2. ASSUME hpc = "done"
        PROVE  Len(Assembled) = len[path]
    <3>1. ~moved
      BY DEF IInv, TypeOK
    <3>2. size = len[path] /\ Len(part) = Length(req, size)
      BY <2>2, <3>1 DEF IInv, Steady, Sized, BodyInv, BodyFits
    <3>3. /\ Len(Assembled) = Start(req, size) + Len(part)
          /\ Parses(req, size) => req.kind = "from"
          /\ ~Parses(req, size) => Start(req, size) = 0
      BY AssembledLength DEF IInv
    <3>4. req \in Requests /\ size \in 0..MaxLen /\ size \in Nat
          /\ Start(req, size) \in Nat
      BY ResponseTyped DEF IInv
    <3>5. CASE ~Parses(req, size)
      BY <3>2, <3>3, <3>4, <3>5, LengthOf
    <3>6. CASE Parses(req, size)
      <4>1. Start(req, size) < size
        BY <3>3, <3>4, <3>6, StartBounded
      <4>2. size > 0
        BY <3>4, <4>1
      <4>3. End(req, size) = size - 1
        BY <3>3, <3>4, <3>6, <4>2, EndBounded, LastPosition
      <4>4. Start(req, size) <= End(req, size) + 1
        BY <3>4, <4>1, <4>3
      <4>5. Length(req, size) = End(req, size) - Start(req, size) + 1
        BY <3>4, <3>6, <4>2, <4>4, LengthOf
      <4> QED
        BY <3>2, <3>3, <3>4, <4>3, <4>5
    <3> QED
      BY <3>5, <3>6
  <2> QED
    BY <2>1, <2>2
<1> QED
  BY <1>1, Invariant, PTL
=============================================================================
