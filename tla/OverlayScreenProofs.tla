--------------------------- MODULE OverlayScreenProofs ---------------------------
(***************************************************************************)
(* The safety of OverlayScreen, for any heights of the terminal and of the *)
(* reserved rows that its assumptions allow, any number of goroutines that *)
(* show and hide the overlay, and any output of the child.  The clamp      *)
(* comes first: what it makes of the child's output byte by byte, and what *)
(* the terminal makes of that.                                             *)
(***************************************************************************)
EXTENDS OverlayScreen, TLAPS, Integers, WellFoundedInduction

SetterLabel == {"signal", "ptySize", "setPty", "size", "visible", "region",
                "clear", "program", "child", "stop", "over"}

\* The part of the state the proofs need the type of: the region is left out, and
\* what the terminal has read and the clamp holds back is in OutputInv.
Types ==
    /\ rows \in 1 .. 9 /\ winch \in BOOLEAN /\ visible \in BOOLEAN
    /\ pc \in [Setter -> SetterLabel]
    /\ size \in [Setter -> 0 .. 9] /\ seen \in [Setter -> BOOLEAN]
    /\ childBottom \in 0 .. 9 /\ ptyRows \in Nat
    /\ toggling \in [Toggler -> {"nothing", "clear", "divider"}]
    /\ pty \in Seq(Byte)

\* After a hide that nobody's drawing crossed, whoever still has something to do
\* erases, or lays out without a divider; once nobody has, the rows are blank.
HiddenInv ==
    ~visible /\ ~crossed =>
        /\ \A t \in Toggler : toggling[t] # "divider"
        /\ \A p \in Setter : pc[p] = "region" => ~seen[p]
        /\ (\A t \in Toggler : toggling[t] = "nothing") => screen = {}

\* While no signal is on its way, what the resize goroutine has read is the
\* height of the terminal, and what it has set is for that height.
LayoutInv ==
    ~winch =>
        /\ pc.resizer \in {"setPty", "visible", "region"} => size.resizer = rows
        /\ pc.resizer \in {"size", "visible", "region", "signal"} => ptyRows = LastRow(rows)
        /\ pc.resizer = "signal" /\ ~stale =>
              /\ childBottom = LastRow(rows)
              /\ pc.run # "over" /\ LastRow(rows) > 1 => region[2] <= LastRow(rows)

-----------------------------------------------------------------------------
(* Numbers, and parts of sequences.                                        *)

LEMMA NatOrder ==
    \E R : IsWellFoundedOn(R, Nat) /\ \A x, y \in Nat : x < y => <<x, y>> \in R
<1>1. \A x, y \in Nat : x < y => <<x, y>> \in OpToRel(<, Nat)
  <2> TAKE x, y \in Nat
  <2> HAVE x < y
  <2>1. <<x, y>>[1] < <<x, y>>[2] /\ <<x, y>> \in Nat \X Nat
    OBVIOUS
  <2> QED
    BY <2>1, Zenon DEF OpToRel
<1> QED
  BY <1>1, NatLessThanWellFounded, Zenon

\* A set of naturals has a least element.
LEMMA MinIsLeast ==
    ASSUME NEW S \in SUBSET Nat, S # {}
    PROVE  Min(S) \in S /\ \A y \in S : Min(S) <= y
<1>1. PICK R : IsWellFoundedOn(R, Nat) /\ \A x, y \in Nat : x < y => <<x, y>> \in R
  BY NatOrder
<1>2. IsWellFoundedOn(R, Nat)
  BY <1>1, Zenon
<1>3. \E x \in S : \A y \in S : ~(<<y, x>> \in R)
  BY <1>2, WFMin, Zenon
<1>4. \A x, y \in Nat : x <= y \/ y < x
  OBVIOUS
<1>5. \E x \in S : \A y \in S : x <= y
  BY <1>1, <1>3, <1>4, Zenon
<1> QED
  BY <1>5, Zenon DEF Min

\* Induction, for a set.
LEMMA NatInduct ==
    ASSUME NEW S, 0 \in S, \A n \in Nat : n \in S => n + 1 \in S
    PROVE  \A n \in Nat : n \in S
<1> SUFFICES ASSUME Nat \ S # {} PROVE FALSE
  OBVIOUS
<1> DEFINE m == Min(Nat \ S)
<1>1. m \in Nat \ S /\ \A y \in Nat \ S : m <= y
  BY MinIsLeast
<1>2. m # 0 /\ m - 1 \in Nat /\ ~(m <= m - 1)
  BY <1>1
<1>3. m - 1 \in S
  BY <1>1, <1>2
<1>4. (m - 1) + 1 \in S
  BY <1>2, <1>3
<1> QED
  BY <1>1, <1>2, <1>4

\* The elements of a part of a sequence.
LEMMA PartIs ==
    ASSUME NEW S, NEW z \in Seq(S), NEW a \in Nat, NEW b \in a .. Len(z)
    PROVE  /\ SubSeq(z, a + 1, b) \in Seq(S) /\ Len(SubSeq(z, a + 1, b)) = b - a
           /\ \A i \in 1 .. b - a : SubSeq(z, a + 1, b)[i] = z[a + i]
<1>1. CASE a = b
  BY <1>1
<1>2. CASE a < b
  BY <1>2
<1> QED
  BY <1>1, <1>2

\* A part of a part.
LEMMA PartOfPart ==
    ASSUME NEW S, NEW z \in Seq(S), NEW a \in Nat, NEW b \in a .. Len(z),
           NEW c \in Nat, NEW e \in c .. b - a
    PROVE  SubSeq(SubSeq(z, a + 1, b), c + 1, e) = SubSeq(z, (a + c) + 1, a + e)
<1> DEFINE y == SubSeq(z, a + 1, b)
           u == SubSeq(y, c + 1, e)
           v == SubSeq(z, (a + c) + 1, a + e)
<1>1. y \in Seq(S) /\ Len(y) = b - a /\ \A i \in 1 .. b - a : y[i] = z[a + i]
  BY PartIs
<1> HIDE DEF y
<1>2. u \in Seq(S) /\ Len(u) = e - c /\ \A i \in 1 .. e - c : u[i] = y[c + i]
  <2>1. e \in c .. Len(y)
    BY <1>1
  <2> QED
    BY <1>1, <2>1, PartIs
<1>3. v \in Seq(S) /\ Len(v) = e - c /\ \A i \in 1 .. e - c : v[i] = z[(a + c) + i]
  <2>1. a + c \in Nat /\ a + e \in a + c .. Len(z) /\ (a + e) - (a + c) = e - c
    OBVIOUS
  <2> QED
    BY <2>1, PartIs
<1>4. \A i \in 1 .. e - c : c + i \in 1 .. b - a /\ a + (c + i) = (a + c) + i
  OBVIOUS
<1>5. \A i \in 1 .. e - c : u[i] = v[i]
  BY <1>1, <1>2, <1>3, <1>4
<1> HIDE DEF u, v
<1>6. u = v
  BY <1>2, <1>3, <1>5
<1> QED
  BY <1>6 DEF u, v, y

-----------------------------------------------------------------------------
(* Fed and ClampScrollRegions define a function by recursion: it exists,   *)
(* for it does up to every number of steps.                                *)

\* f has what the terminal is after each of the bytes.
Reads(f, term, bytes) ==
    /\ f[0] = term
    /\ \A n \in 1 .. Len(bytes) : f[n] = Feed(f[n - 1], bytes[n])
    /\ Fed(term, bytes) = f[Len(bytes)]

LEMMA FedSteps ==
    ASSUME NEW term, NEW bytes, Len(bytes) \in Nat
    PROVE  \E f : Reads(f, term, bytes)
<1> DEFINE After(k, f) ==
      f = [n \in 0 .. k |-> IF n = 0 THEN term ELSE Feed(f[n - 1], bytes[n])]
<1> DEFINE S == {k \in Nat : \E f : After(k, f)}
<1>1. 0 \in S
  <2> DEFINE f == [n \in 0 .. 0 |-> term]
  <2>1. After(0, f)
    OBVIOUS
  <2> QED
    BY <2>1
<1>2. ASSUME NEW k \in Nat, k \in S PROVE k + 1 \in S
  <2>1. PICK f : After(k, f)
    BY <1>2
  <2> DEFINE g == [n \in 0 .. k + 1 |-> IF n = k + 1 THEN Feed(f[k], bytes[k + 1]) ELSE f[n]]
  <2>2. \A n \in 0 .. k : g[n] = f[n] /\ f[n] = IF n = 0 THEN term ELSE Feed(f[n - 1], bytes[n])
    BY <2>1
  <2>3. \A n \in 0 .. k + 1 : g[n] = IF n = 0 THEN term ELSE Feed(g[n - 1], bytes[n])
    <3> TAKE n \in 0 .. k + 1
    <3>1. CASE n = k + 1
      <4>1. g[n] = Feed(f[k], bytes[n]) /\ n # 0 /\ n - 1 = k /\ k \in 0 .. k
        BY <3>1
      <4>2. g[n - 1] = f[k]
        BY <2>2, <4>1
      <4> QED
        BY <4>1, <4>2, Zenon
    <3>2. CASE n # k + 1
      <4>1. n \in 0 .. k /\ (n # 0 => n - 1 \in 0 .. k)
        BY <3>2
      <4> HIDE DEF g
      <4>2. n # 0 => g[n - 1] = f[n - 1]
        BY <2>2, <4>1
      <4> QED
        BY <2>2, <4>1, <4>2
    <3> QED
      BY <3>1, <3>2
  <2>4. After(k + 1, g)
    <3> DEFINE h == [n \in 0 .. k + 1 |-> IF n = 0 THEN term ELSE Feed(g[n - 1], bytes[n])]
    <3>1. \A n \in 0 .. k + 1 : g[n] = h[n]
      BY <2>3
    <3>2. g = h
      BY <3>1
    <3> QED
      BY <3>2
  <2> HIDE DEF After, g
  <2>5. \E f_ : After(k + 1, f_)
    BY <2>4, Zenon
  <2> QED
    BY <2>5
<1>3. Len(bytes) \in S
  <2> HIDE DEF S
  <2> QED
    BY <1>1, <1>2, NatInduct
<1> DEFINE f == CHOOSE f : After(Len(bytes), f)
<1>4. After(Len(bytes), f)
  BY <1>3, Zenon
<1>5. Fed(term, bytes) = f[Len(bytes)]
  BY Zenon DEF Fed
<1>6. \A n \in 0 .. Len(bytes) : f[n] = IF n = 0 THEN term ELSE Feed(f[n - 1], bytes[n])
  <2> HIDE DEF f
  <2> QED
    BY <1>4
<1> HIDE DEF f
<1>7. f[0] = term /\ \A n \in 1 .. Len(bytes) : f[n] = Feed(f[n - 1], bytes[n])
  BY <1>6
<1>8. Reads(f, term, bytes)
  BY <1>5, <1>7 DEF Reads
<1> QED
  BY <1>8, Zenon

\* What the loop has done after each of its turns.
LEMMA ClampSteps ==
    ASSUME NEW data, Len(data) \in Nat
    PROVE  \E f : /\ f[0] = [data |-> data, out |-> <<>>, pend |-> <<>>]
                  /\ \A n \in 1 .. Len(data) : f[n] = Round(f[n - 1])
                  /\ ClampScrollRegions(data) = f[Len(data)]
<1> DEFINE Start == [data |-> data, out |-> <<>>, pend |-> <<>>]
<1> DEFINE After(k, f) ==
      f = [n \in 0 .. k |-> IF n = 0 THEN Start ELSE Round(f[n - 1])]
<1> DEFINE S == {k \in Nat : \E f : After(k, f)}
<1>1. 0 \in S
  <2> DEFINE f == [n \in 0 .. 0 |-> Start]
  <2>1. After(0, f)
    OBVIOUS
  <2> QED
    BY <2>1
<1>2. ASSUME NEW k \in Nat, k \in S PROVE k + 1 \in S
  <2>1. PICK f : After(k, f)
    BY <1>2
  <2> DEFINE g == [n \in 0 .. k + 1 |-> IF n = k + 1 THEN Round(f[k]) ELSE f[n]]
  <2>2. \A n \in 0 .. k : g[n] = f[n] /\ f[n] = IF n = 0 THEN Start ELSE Round(f[n - 1])
    BY <2>1
  <2>3. \A n \in 0 .. k + 1 : g[n] = IF n = 0 THEN Start ELSE Round(g[n - 1])
    <3> TAKE n \in 0 .. k + 1
    <3>1. CASE n = k + 1
      <4>1. g[n] = Round(f[k]) /\ n # 0 /\ n - 1 = k /\ k \in 0 .. k
        BY <3>1
      <4>2. g[n - 1] = f[k]
        BY <2>2, <4>1
      <4> QED
        BY <4>1, <4>2, Zenon
    <3>2. CASE n # k + 1
      <4>1. n \in 0 .. k /\ (n # 0 => n - 1 \in 0 .. k)
        BY <3>2
      <4> HIDE DEF g
      <4>2. n # 0 => g[n - 1] = f[n - 1]
        BY <2>2, <4>1
      <4> QED
        BY <2>2, <4>1, <4>2
    <3> QED
      BY <3>1, <3>2
  <2>4. After(k + 1, g)
    <3> DEFINE h == [n \in 0 .. k + 1 |-> IF n = 0 THEN Start ELSE Round(g[n - 1])]
    <3>1. \A n \in 0 .. k + 1 : g[n] = h[n]
      BY <2>3
    <3>2. g = h
      BY <3>1
    <3> QED
      BY <3>2
  <2> HIDE DEF After, g
  <2>5. \E f_ : After(k + 1, f_)
    BY <2>4, Zenon
  <2> QED
    BY <2>5
<1>3. Len(data) \in S
  <2> HIDE DEF S
  <2> QED
    BY <1>1, <1>2, NatInduct
<1> DEFINE f == CHOOSE f : After(Len(data), f)
<1>4. After(Len(data), f)
  BY <1>3, Zenon
<1>5. ClampScrollRegions(data) = f[Len(data)]
  BY Zenon DEF ClampScrollRegions
<1>6. \A n \in 0 .. Len(data) : f[n] = IF n = 0 THEN Start ELSE Round(f[n - 1])
  <2> HIDE DEF f
  <2> QED
    BY <1>4
<1> HIDE DEF f
<1>7. f[0] = [data |-> data, out |-> <<>>, pend |-> <<>>] /\ \A n \in 1 .. Len(data) : f[n] = Round(f[n - 1])
  BY <1>6
<1> QED
  BY <1>5, <1>7

-----------------------------------------------------------------------------
(* The sequences of the child.                                             *)

\* What the terminal keeps of a sequence, and what it may be sent.
CsiByte == ParamByte \cup {"ESC", "["}
OutByte == Byte \cup CsiByte \cup {"r"}

\* A sequence of which l bytes have been read, and which z has the rest of after
\* its first n, goes on to m.
Goes(l, z, n, m) ==
    /\ m \in n .. Len(z) - 1
    /\ \A i \in n + 1 .. m : Continues(l + i - n, z[i])
    /\ ~Continues(l + m + 1 - n, z[m + 1])
    /\ Uninterrupted => z[m + 1] # "ESC"

\* It ends, and sets no region.
Harmless(l, z, n) ==
    l > 0 => \E m \in Nat : Goes(l, z, n, m) /\ (l + m - n > 1 => z[m + 1] # "r")

\* Every sequence in z ends, and what sets a region is short.
Clean(z) ==
    \A s \in 1 .. Len(z) : z[s] = "ESC" =>
        \E m \in Nat : /\ Goes(1, z, s, m)
                       /\ m > s /\ z[m + 1] = "r" => m - s + 1 <= MaxHeld

\* Numerals, the semicolon and what delimits a region are all different.
LEMMA BytesApart ==
    /\ "ESC" \notin ParamByte /\ "[" \notin ParamByte /\ "r" \notin ParamByte
    /\ \A k \in 1 .. 9 : Numerals[k] \in ParamByte /\ Numerals[k] # Semicolon
    /\ ParamByte \ {Semicolon} = {Numerals[k] : k \in 1 .. 9}
    /\ \A j, k \in 1 .. 9 : Numerals[j] = Numerals[k] => j = k
    /\ Len(Numerals) = 9 /\ DOMAIN Numerals = 1 .. 9 /\ Semicolon \in ParamByte
<1>1. /\ Len(Numerals) = 9 /\ DOMAIN Numerals = 1 .. 9
      /\ ParamByte = {Numerals[k] : k \in 1 .. 9} \cup {Semicolon}
  BY DEF ParamByte, Numerals, ToSet
<1>2. /\ \A k \in 1 .. 9 : Numerals[k] \in {"1", "2", "3", "4", "5", "6", "7", "8", "9"}
      /\ \A j, k \in 1 .. 9 : Numerals[j] = Numerals[k] => j = k
  BY DEF Numerals
<1>3. /\ {"1", "2", "3", "4", "5", "6", "7", "8", "9"} \cap {Semicolon, "ESC", "[", "r"} = {}
      /\ Semicolon \notin {"ESC", "[", "r"}
  BY Zenon DEF Semicolon
<1>4. \A k \in 1 .. 9 : Numerals[k] \notin {Semicolon, "ESC", "[", "r"}
  BY <1>2, <1>3
<1>5. {Numerals[k] : k \in 1 .. 9} = ParamByte \ {Semicolon}
  BY <1>1, <1>4, Zenon
<1>6. "ESC" \notin ParamByte /\ "[" \notin ParamByte /\ "r" \notin ParamByte
  BY <1>1, <1>2, <1>3
<1> QED
  BY <1>1, <1>2, <1>3, <1>5, <1>6, <1>4

\* RegionPrefix goes as far as a region may, and no further.
LEMMA PrefixEnds ==
    ASSUME NEW S, NEW w \in Seq(S), Len(w) > 0
    PROVE  /\ RegionPrefix(w) \in 1 .. Len(w)
           /\ \A k \in 2 .. RegionPrefix(w) : Continues(k, w[k])
           /\ RegionPrefix(w) < Len(w) =>
                ~Continues(RegionPrefix(w) + 1, w[RegionPrefix(w) + 1])
<1> DEFINE C == {k \in 1 .. Len(w) - 1 : ~Continues(k + 1, w[k + 1])} \cup {Len(w)}
<1>1. C \in SUBSET Nat /\ C # {}
  OBVIOUS
<1>2. RegionPrefix(w) \in C /\ \A k \in C : RegionPrefix(w) <= k
  BY <1>1, MinIsLeast DEF RegionPrefix
<1>3. ASSUME NEW k \in 2 .. RegionPrefix(w) PROVE Continues(k, w[k])
  <2>1. k - 1 \in 1 .. Len(w) - 1 /\ ~(RegionPrefix(w) <= k - 1) /\ (k - 1) + 1 = k
    BY <1>2
  <2> QED
    BY <1>2, <2>1
<1> QED
  BY <1>2, <1>3

\* What the assumption on the child comes to.
LEMMA ChildIsClean ==
    ASSUME NEW s \in ChildSequences
    PROVE  s \in Seq(Byte) /\ Clean(s)
<1>1. s \in Seq(Byte) /\ Ended(s)
  BY ChildAssumption
<1>2. ASSUME NEW i \in 1 .. Len(s), s[i] = "ESC"
      PROVE  \E m \in Nat : /\ Goes(1, s, i, m)
                            /\ m > i /\ s[m + 1] = "r" => m - i + 1 <= MaxHeld
  <2> DEFINE w == SubSeq(s, i, Len(s))
             j == RegionPrefix(w)
             m == i + j - 1
  <2>1. w \in Seq(Byte) /\ Len(w) = Len(s) - i + 1 /\ \A k \in 1 .. Len(w) : w[k] = s[i + k - 1]
    BY <1>1
  <2>2. i \in DOMAIN s
    BY <1>1
  <2>3. j < Len(w) /\ (j > 1 /\ w[j + 1] = "r" => j <= MaxHeld)
    BY <1>1, <1>2, <2>2, Zenon DEF Ended
  <2>4. Uninterrupted => w[j + 1] # "ESC"
    BY <1>2, <2>2, Zenon DEF Uninterrupted
  <2>5. w \in Seq(Byte) /\ Len(w) > 0
    BY <2>1
  <2> HIDE DEF w
  <2>6. /\ j \in 1 .. Len(w) /\ \A k \in 2 .. j : Continues(k, w[k])
        /\ j < Len(w) => ~Continues(j + 1, w[j + 1])
    BY <2>5, PrefixEnds
  <2> HIDE DEF j
  <2>7. m \in i .. Len(s) - 1 /\ w[j + 1] = s[m + 1] /\ j = m - i + 1
    BY <2>1, <2>6, <2>3
  <2>8. ASSUME NEW k \in i + 1 .. m PROVE Continues(1 + k - i, s[k])
    <3>1. k - i + 1 \in 2 .. j /\ 1 + k - i = k - i + 1 /\ s[k] = w[k - i + 1]
      BY <2>1, <2>6, <2>7
    <3> QED
      BY <2>6, <3>1
  <2>9. ~Continues(1 + m + 1 - i, s[m + 1])
    <3>1. 1 + m + 1 - i = j + 1
      BY <2>6
    <3> QED
      BY <2>6, <2>3, <2>7, <3>1
  <2>10. Goes(1, s, i, m)
    BY <2>4, <2>7, <2>8, <2>9 DEF Goes
  <2> QED
    BY <2>3, <2>7, <2>10
<1> QED
  BY <1>1, <1>2 DEF Clean

\* What holds of bytes holds of them when others follow, and of their end.
LEMMA GoesConcat ==
    ASSUME NEW S, NEW z \in Seq(S), NEW y \in Seq(S), NEW l \in Nat, NEW n \in Nat,
           NEW m \in Nat, Goes(l, z, n, m)
    PROVE  Goes(l, z \o y, n, m)
<1>1. Len(z \o y) = Len(z) + Len(y) /\ \A i \in 1 .. Len(z) : (z \o y)[i] = z[i]
  OBVIOUS
<1>2. m + 1 \in 1 .. Len(z) /\ \A i \in n + 1 .. m : i \in 1 .. Len(z)
  BY DEF Goes
<1> QED
  BY <1>1, <1>2 DEF Goes

LEMMA GoesShift ==
    ASSUME NEW S, NEW z \in Seq(S), NEW c \in 0 .. Len(z), NEW l \in Nat, NEW n \in Nat,
           NEW m \in Nat
    PROVE  Goes(l, z, n + c, m + c) <=> Goes(l, SubSeq(z, c + 1, Len(z)), n, m)
<1> DEFINE y == SubSeq(z, c + 1, Len(z))
<1>1. Len(y) = Len(z) - c /\ \A i \in 1 .. Len(y) : y[i] = z[i + c]
  BY PartIs
<1> HIDE DEF y
<1>2. m + c \in n + c .. Len(z) - 1 <=> m \in n .. Len(y) - 1
  BY <1>1
<1>3. ASSUME m \in n .. Len(y) - 1
      PROVE  /\ (\A i \in (n + c) + 1 .. m + c : Continues(l + i - (n + c), z[i]))
                 <=> (\A i \in n + 1 .. m : Continues(l + i - n, y[i]))
             /\ z[(m + c) + 1] = y[m + 1]
             /\ l + (m + c) + 1 - (n + c) = l + m + 1 - n
  <2>1. \A i \in n + 1 .. m : /\ y[i] = z[i + c] /\ i + c \in (n + c) + 1 .. m + c
                             /\ l + (i + c) - (n + c) = l + i - n
    BY <1>1, <1>3
  <2>2. \A i \in (n + c) + 1 .. m + c : /\ i - c \in n + 1 .. m /\ (i - c) + c = i
                                       /\ l + i - (n + c) = l + (i - c) - n
    BY <1>3
  <2>3. z[(m + c) + 1] = y[m + 1]
    BY <1>1, <1>3
  <2>4. (\A i \in (n + c) + 1 .. m + c : Continues(l + i - (n + c), z[i]))
            => (\A i \in n + 1 .. m : Continues(l + i - n, y[i]))
    BY <2>1
  <2>5. ASSUME \A i \in n + 1 .. m : Continues(l + i - n, y[i]),
               NEW i \in (n + c) + 1 .. m + c
        PROVE  Continues(l + i - (n + c), z[i])
    <3>1. i - c \in n + 1 .. m /\ (i - c) + c = i /\ l + i - (n + c) = l + (i - c) - n
      BY <2>2
    <3>2. Continues(l + (i - c) - n, y[i - c]) /\ y[i - c] = z[(i - c) + c]
      BY <2>1, <2>5, <3>1
    <3> QED
      BY <3>1, <3>2, Zenon
  <2> QED
    BY <2>3, <2>4, <2>5
<1>4. Goes(l, z, n + c, m + c) <=> Goes(l, y, n, m)
  BY <1>2, <1>3 DEF Goes
<1> QED
  BY <1>4 DEF y

LEMMA HarmlessShift ==
    ASSUME NEW S, NEW z \in Seq(S), NEW c \in 0 .. Len(z), NEW l \in Nat, Harmless(l, z, c)
    PROVE  Harmless(l, SubSeq(z, c + 1, Len(z)), 0)
<1> SUFFICES ASSUME l > 0
             PROVE  \E m \in Nat : /\ Goes(l, SubSeq(z, c + 1, Len(z)), 0, m)
                                   /\ l + m - 0 > 1 => SubSeq(z, c + 1, Len(z))[m + 1] # "r"
  BY DEF Harmless
<1>1. PICK k \in Nat : Goes(l, z, c, k) /\ (l + k - c > 1 => z[k + 1] # "r")
  BY DEF Harmless
<1> DEFINE m == k - c
<1>2. m \in Nat /\ m + c = k /\ k \in c .. Len(z) - 1 /\ 0 + c = c
  BY <1>1 DEF Goes
<1> HIDE DEF m
<1>3. Goes(l, z, 0 + c, m + c)
  BY <1>1, <1>2
<1>4. Goes(l, SubSeq(z, c + 1, Len(z)), 0, m)
  BY <1>2, <1>3, GoesShift
<1>5. SubSeq(z, c + 1, Len(z))[m + 1] = z[k + 1]
  BY <1>2, PartIs
<1> QED
  BY <1>1, <1>2, <1>4, <1>5

LEMMA HarmlessConcat ==
    ASSUME NEW S, NEW z \in Seq(S), NEW y \in Seq(S), NEW l \in Nat, NEW n \in Nat,
           Harmless(l, z, n)
    PROVE  Harmless(l, z \o y, n)
<1> SUFFICES ASSUME l > 0
             PROVE  \E m \in Nat : Goes(l, z \o y, n, m) /\ (l + m - n > 1 => (z \o y)[m + 1] # "r")
  BY DEF Harmless
<1>1. PICK m \in Nat : Goes(l, z, n, m) /\ (l + m - n > 1 => z[m + 1] # "r")
  BY DEF Harmless
<1>2. Goes(l, z \o y, n, m)
  BY <1>1, GoesConcat
<1>3. (z \o y)[m + 1] = z[m + 1]
  BY <1>1 DEF Goes
<1> QED
  BY <1>1, <1>2, <1>3

LEMMA CleanShift ==
    ASSUME NEW S, NEW z \in Seq(S), NEW c \in 0 .. Len(z), Clean(z)
    PROVE  Clean(SubSeq(z, c + 1, Len(z)))
<1> DEFINE y == SubSeq(z, c + 1, Len(z))
<1>1. Len(y) = Len(z) - c /\ \A i \in 1 .. Len(y) : y[i] = z[c + i]
  BY PartIs
<1>2. ASSUME NEW n \in Nat, NEW m \in Nat, Goes(1, z, n + c, m + c)
      PROVE  Goes(1, y, n, m)
  BY <1>2, GoesShift
<1> HIDE DEF y
<1>3. ASSUME NEW s \in 1 .. Len(y), y[s] = "ESC"
      PROVE  \E m \in Nat : Goes(1, y, s, m) /\ (m > s /\ y[m + 1] = "r" => m - s + 1 <= MaxHeld)
  <2>1. s + c \in 1 .. Len(z) /\ z[s + c] = "ESC"
    BY <1>1, <1>3
  <2>2. PICK k \in Nat : /\ Goes(1, z, s + c, k)
                         /\ k > s + c /\ z[k + 1] = "r" => k - (s + c) + 1 <= MaxHeld
    BY <2>1 DEF Clean
  <2> DEFINE m == k - c
  <2>3. m \in Nat /\ m + c = k /\ k \in s + c .. Len(z) - 1
    BY <2>2 DEF Goes
  <2> HIDE DEF m
  <2>4. s \in Nat /\ c \in Nat
    OBVIOUS
  <2>5. Goes(1, z, s + c, m + c)
    BY <2>2, <2>3, Zenon
  <2>6. Goes(1, y, s, m)
    BY <1>2, <2>3, <2>4, <2>5, Zenon
  <2>7. y[m + 1] = z[k + 1]
    <3>1. m + 1 \in 1 .. Len(y) /\ c + (m + 1) = k + 1
      BY <1>1, <2>3, <2>4
    <3>2. y[m + 1] = z[c + (m + 1)]
      BY <1>1, <3>1, Zenon
    <3> QED
      BY <3>1, <3>2, Zenon
  <2>8. m - s + 1 = k - (s + c) + 1 /\ (m > s <=> k > s + c)
    BY <2>3, <2>4
  <2> QED
    BY <2>2, <2>3, <2>6, <2>7, <2>8
<1>4. Clean(y)
  BY <1>3 DEF Clean
<1> QED
  BY <1>4 DEF y

LEMMA CleanConcat ==
    ASSUME NEW S, NEW x \in Seq(S), NEW y \in Seq(S), Clean(x), Clean(y)
    PROVE  Clean(x \o y)
<1> DEFINE z == x \o y
           c == Len(x)
<1>1. /\ z \in Seq(S) /\ Len(z) = c + Len(y) /\ c \in 0 .. Len(z)
      /\ \A i \in 1 .. c : z[i] = x[i]
      /\ \A i \in 1 .. Len(y) : z[c + i] = y[i]
  OBVIOUS
<1>2. SubSeq(z, c + 1, Len(z)) = y
  <2>1. /\ SubSeq(z, c + 1, Len(z)) \in Seq(S) /\ Len(SubSeq(z, c + 1, Len(z))) = Len(y)
        /\ \A i \in 1 .. Len(y) : SubSeq(z, c + 1, Len(z))[i] = y[i]
    BY <1>1, PartIs
  <2> QED
    BY <2>1
<1>3. ASSUME NEW n \in Nat, NEW m \in Nat, Goes(1, y, n, m)
      PROVE  Goes(1, z, n + c, m + c)
  BY <1>1, <1>2, <1>3, GoesShift
<1>4. ASSUME NEW n \in Nat, NEW m \in Nat, Goes(1, x, n, m)
      PROVE  Goes(1, z, n, m)
  BY <1>4, GoesConcat
<1> HIDE DEF z
<1>5. ASSUME NEW s \in 1 .. Len(z), z[s] = "ESC"
      PROVE  \E m \in Nat : Goes(1, z, s, m) /\ (m > s /\ z[m + 1] = "r" => m - s + 1 <= MaxHeld)
  <2>1. CASE s <= c
    <3>1. s \in 1 .. Len(x) /\ x[s] = "ESC"
      BY <1>1, <1>5, <2>1
    <3>2. PICK m \in Nat : Goes(1, x, s, m) /\ (m > s /\ x[m + 1] = "r" => m - s + 1 <= MaxHeld)
      BY <3>1 DEF Clean
    <3>3. z[m + 1] = x[m + 1]
      BY <1>1, <3>2 DEF Goes
    <3> QED
      BY <1>4, <3>2, <3>3
  <2>2. CASE s > c
    <3> DEFINE t == s - c
    <3>1. t \in 1 .. Len(y) /\ t + c = s /\ y[t] = "ESC"
      BY <1>1, <1>5, <2>2
    <3> HIDE DEF t
    <3>2. PICK m \in Nat : Goes(1, y, t, m) /\ (m > t /\ y[m + 1] = "r" => m - t + 1 <= MaxHeld)
      BY <3>1 DEF Clean
    <3>3. Goes(1, z, s, m + c) /\ m + c \in Nat
      BY <1>1, <1>3, <3>1, <3>2
    <3>4. z[(m + c) + 1] = y[m + 1]
      <4>1. m + 1 \in 1 .. Len(y) /\ (m + c) + 1 = c + (m + 1)
        BY <3>2 DEF Goes
      <4> QED
        BY <1>1, <4>1
    <3>5. (m + c > s <=> m > t) /\ (m + c) - s + 1 = m - t + 1
      BY <3>1
    <3> QED
      BY <3>2, <3>3, <3>4, <3>5
  <2> QED
    BY <1>1, <2>1, <2>2
<1>6. Clean(z)
  BY <1>5 DEF Clean
<1> QED
  BY <1>6 DEF z

-----------------------------------------------------------------------------
(* What the terminal reads.                                                *)

IsTerm(T) ==
    /\ T = [region |-> T.region, partial |-> T.partial]
    /\ T.partial \in Seq(CsiByte)

\* One byte of the child, of a sequence that is harmless: the region stays.
LEMMA FeedHarmless ==
    ASSUME NEW T, IsTerm(T), NEW S, NEW z \in Seq(S), NEW n \in 0 .. Len(z) - 1,
           Harmless(Len(T.partial), z, n), z[n + 1] = "ESC" => Harmless(1, z, n + 1)
    PROVE  LET U == Feed(T, z[n + 1])
           IN  IsTerm(U) /\ U.region = T.region /\ Harmless(Len(U.partial), z, n + 1)
<1> DEFINE b == z[n + 1]
           U == Feed(T, b)
           l == Len(T.partial)
<1>1. l \in Nat /\ T = [region |-> T.region, partial |-> T.partial]
  BY DEF IsTerm
<1>2. CASE b = "ESC"
  <2>1. U = [T EXCEPT !.partial = <<"ESC">>]
    BY <1>2, BytesApart DEF Feed, Continues
  <2>2. U = [region |-> T.region, partial |-> <<"ESC">>]
    BY <1>1, <2>1
  <2>3. Len(U.partial) = 1 /\ U.partial \in Seq(CsiByte)
    BY <2>2 DEF CsiByte
  <2>4. Harmless(Len(U.partial), z, n + 1)
    BY <1>2, <2>3, Zenon
  <2> QED
    BY <2>2, <2>3, <2>4 DEF IsTerm
<1>3. CASE b # "ESC" /\ l > 0 /\ Continues(l + 1, b)
  <2>1. U = [T EXCEPT !.partial = Append(@, b)]
    BY <1>3, BytesApart DEF Feed, Continues
  <2>2. U = [region |-> T.region, partial |-> Append(T.partial, b)]
    BY <1>1, <2>1
  <2>3. b \in CsiByte
    BY <1>3 DEF Continues, CsiByte
  <2>4. Len(U.partial) = l + 1 /\ U.partial \in Seq(CsiByte)
    BY <2>2, <2>3 DEF IsTerm
  <2>5. PICK m \in Nat : Goes(l, z, n, m) /\ (l + m - n > 1 => z[m + 1] # "r")
    BY <1>1, <1>3 DEF Harmless
  <2>6. m # n
    <3>1. l + n + 1 - n = l + 1
      BY <1>1
    <3> QED
      BY <1>3, <2>5, <3>1 DEF Goes
  <2>7. m \in n + 1 .. Len(z) - 1
    BY <2>5, <2>6 DEF Goes
  <2>8. n \in Nat
    OBVIOUS
  <2> HIDE DEF l
  <2>9. /\ l + m + 1 - n = (l + 1) + m + 1 - (n + 1) /\ l + m - n = (l + 1) + m - (n + 1)
        /\ \A i \in (n + 1) + 1 .. m : i \in n + 1 .. m /\ l + i - n = (l + 1) + i - (n + 1)
    <3>1. l \in Nat /\ m \in Nat
      BY <1>1
    <3> QED
      BY <2>8, <3>1
  <2>10. Goes(l + 1, z, n + 1, m)
    <3>1. \A i \in (n + 1) + 1 .. m : Continues((l + 1) + i - (n + 1), z[i])
      BY <2>5, <2>9 DEF Goes
    <3>2. ~Continues((l + 1) + m + 1 - (n + 1), z[m + 1])
      BY <2>5, <2>9, Zenon DEF Goes
    <3> QED
      BY <2>5, <2>7, <3>1, <3>2 DEF Goes
  <2>11. Harmless(l + 1, z, n + 1)
    BY <2>5, <2>9, <2>10 DEF Harmless
  <2> QED
    BY <2>2, <2>4, <2>11 DEF IsTerm
<1>4. CASE b # "ESC" /\ ~(l > 0 /\ Continues(l + 1, b))
  <2>1. ~(l > 1 /\ b = "r")
    <3> SUFFICES ASSUME l > 1, b = "r" PROVE FALSE
      OBVIOUS
    <3>1. PICK m \in Nat : Goes(l, z, n, m) /\ (l + m - n > 1 => z[m + 1] # "r")
      BY <1>1 DEF Harmless
    <3>2. m = n
      <4> SUFFICES ASSUME m # n PROVE FALSE
        OBVIOUS
      <4>1. n + 1 \in n + 1 .. m /\ l + (n + 1) - n = l + 1
        BY <1>1, <3>1 DEF Goes
      <4>2. Continues(l + (n + 1) - n, z[n + 1])
        BY <3>1, <4>1 DEF Goes
      <4> QED
        BY <1>1, <1>4, <4>1, <4>2
    <3> QED
      BY <1>1, <3>1, <3>2
  <2>2. U = [T EXCEPT !.partial = <<>>]
    BY <1>4, <2>1 DEF Feed
  <2>3. U = [region |-> T.region, partial |-> <<>>]
    BY <1>1, <2>2
  <2> QED
    BY <2>3 DEF IsTerm, Harmless
<1> QED
  BY <1>2, <1>3, <1>4

LEMMA FedNothing ==
    ASSUME NEW T
    PROVE  Fed(T, <<>>) = T
<1>1. Len(<<>>) = 0
  OBVIOUS
<1>2. PICK f : Reads(f, T, <<>>)
  BY <1>1, FedSteps, Zenon
<1> QED
  BY <1>1, <1>2 DEF Reads

\* Bytes in two parts.
LEMMA FedConcat ==
    ASSUME NEW T, NEW S, NEW x \in Seq(S), NEW y \in Seq(S)
    PROVE  Fed(T, x \o y) = Fed(Fed(T, x), y)
<1>1. Len(x \o y) \in Nat /\ Len(x) \in Nat /\ Len(y) \in Nat
  OBVIOUS
<1>2. PICK f : /\ f[0] = T
               /\ \A n \in 1 .. Len(x \o y) : f[n] = Feed(f[n - 1], (x \o y)[n])
               /\ Fed(T, x \o y) = f[Len(x \o y)]
  <2>1. \E f : Reads(f, T, x \o y)
    BY <1>1, FedSteps, Zenon
  <2> QED
    BY <2>1 DEF Reads
<1>3. PICK g : /\ g[0] = T
               /\ \A n \in 1 .. Len(x) : g[n] = Feed(g[n - 1], x[n])
               /\ Fed(T, x) = g[Len(x)]
  <2>1. \E g : Reads(g, T, x)
    BY <1>1, FedSteps, Zenon
  <2> QED
    BY <2>1 DEF Reads
<1>4. PICK h : /\ h[0] = Fed(T, x)
               /\ \A n \in 1 .. Len(y) : h[n] = Feed(h[n - 1], y[n])
               /\ Fed(Fed(T, x), y) = h[Len(y)]
  <2>1. \E h : Reads(h, Fed(T, x), y)
    BY <1>1, FedSteps, Zenon
  <2> QED
    BY <2>1 DEF Reads
<1>5. /\ Len(x \o y) = Len(x) + Len(y)
      /\ \A n \in 1 .. Len(x) : (x \o y)[n] = x[n]
      /\ \A n \in 1 .. Len(y) : (x \o y)[Len(x) + n] = y[n]
  OBVIOUS
<1> DEFINE A == {n \in Nat : n <= Len(x) => f[n] = g[n]}
<1>6. ASSUME NEW n \in Nat, n \in A PROVE n + 1 \in A
  <2> SUFFICES ASSUME n + 1 <= Len(x) PROVE f[n + 1] = g[n + 1]
    OBVIOUS
  <2>1. n + 1 \in 1 .. Len(x) /\ n + 1 \in 1 .. Len(x \o y) /\ (n + 1) - 1 = n /\ f[n] = g[n]
    BY <1>5, <1>6
  <2>2. f[n + 1] = Feed(f[n], x[n + 1]) /\ g[n + 1] = Feed(g[n], x[n + 1])
    BY <1>2, <1>3, <1>5, <2>1
  <2> QED
    BY <2>1, <2>2
<1>7. f[Len(x)] = g[Len(x)]
  <2>1. 0 \in A
    BY <1>2, <1>3
  <2>2. Len(x) \in Nat /\ (Len(x) \in A => f[Len(x)] = g[Len(x)])
    OBVIOUS
  <2> HIDE DEF A
  <2> QED
    BY <1>6, <2>1, <2>2, NatInduct
<1> DEFINE B == {n \in Nat : n <= Len(y) => f[Len(x) + n] = h[n]}
<1>8. ASSUME NEW n \in Nat, n \in B PROVE n + 1 \in B
  <2> SUFFICES ASSUME n + 1 <= Len(y) PROVE f[Len(x) + (n + 1)] = h[n + 1]
    OBVIOUS
  <2>1. /\ n + 1 \in 1 .. Len(y) /\ (n + 1) - 1 = n /\ f[Len(x) + n] = h[n]
        /\ Len(x) + (n + 1) \in 1 .. Len(x \o y) /\ (Len(x) + (n + 1)) - 1 = Len(x) + n
    BY <1>5, <1>8
  <2>2. /\ f[Len(x) + (n + 1)] = Feed(f[Len(x) + n], y[n + 1])
        /\ h[n + 1] = Feed(h[n], y[n + 1])
    BY <1>2, <1>4, <1>5, <2>1
  <2> QED
    BY <2>1, <2>2
<1>9. f[Len(x) + Len(y)] = h[Len(y)]
  <2>1. 0 \in B
    BY <1>3, <1>4, <1>7
  <2>2. Len(y) \in Nat /\ (Len(y) \in B => f[Len(x) + Len(y)] = h[Len(y)])
    OBVIOUS
  <2> HIDE DEF B
  <2> QED
    BY <1>8, <2>1, <2>2, NatInduct
<1> QED
  BY <1>2, <1>4, <1>5, <1>9

\* Bytes of the child, none of which begins a harmful sequence.
LEMMA FedHarmless ==
    ASSUME NEW T, IsTerm(T), NEW S, NEW z \in Seq(S), NEW n \in Nat, NEW m \in n .. Len(z),
           Harmless(Len(T.partial), z, n),
           \A i \in n + 1 .. m : z[i] = "ESC" => Harmless(1, z, i)
    PROVE  LET U == Fed(T, SubSeq(z, n + 1, m))
           IN  IsTerm(U) /\ U.region = T.region /\ Harmless(Len(U.partial), z, m)
<1> DEFINE y == SubSeq(z, n + 1, m)
<1>1. Len(y) = m - n /\ Len(y) \in Nat /\ \A i \in 1 .. m - n : y[i] = z[n + i]
  BY PartIs
<1> HIDE DEF y
<1>2. PICK f : /\ f[0] = T
               /\ \A i \in 1 .. Len(y) : f[i] = Feed(f[i - 1], y[i])
               /\ Fed(T, y) = f[Len(y)]
  <2>1. Len(y) \in Nat
    BY <1>1
  <2>2. \E f : Reads(f, T, y)
    BY <2>1, FedSteps, Zenon
  <2> QED
    BY <2>2 DEF Reads
<1> DEFINE Good(i) == IsTerm(f[i]) /\ f[i].region = T.region /\ Harmless(Len(f[i].partial), z, n + i)
           A == {i \in Nat : i <= m - n => Good(i)}
<1>3. ASSUME NEW i \in Nat, i \in A PROVE i + 1 \in A
  <2> SUFFICES ASSUME i + 1 <= m - n PROVE Good(i + 1)
    OBVIOUS
  <2>1. /\ i + 1 \in 1 .. m - n /\ (i + 1) - 1 = i /\ n + i \in 0 .. Len(z) - 1
        /\ (n + i) + 1 = n + (i + 1) /\ (n + i) + 1 \in n + 1 .. m
    OBVIOUS
  <2>2. f[i + 1] = Feed(f[i], z[(n + i) + 1])
    BY <1>1, <1>2, <2>1
  <2>3. IsTerm(f[i]) /\ f[i].region = T.region /\ Harmless(Len(f[i].partial), z, n + i)
    BY <1>3
  <2>4. z[(n + i) + 1] = "ESC" => Harmless(1, z, (n + i) + 1)
    BY <2>1
  <2>5. /\ IsTerm(f[i + 1]) /\ f[i + 1].region = f[i].region
        /\ Harmless(Len(f[i + 1].partial), z, (n + i) + 1)
    <3> DEFINE V == f[i]
    <3>1. IsTerm(V) /\ Harmless(Len(V.partial), z, n + i)
      BY <2>3
    <3>2. f[i + 1] = Feed(V, z[(n + i) + 1])
      BY <2>2
    <3>3. f[i].region = V.region
      OBVIOUS
    <3> HIDE DEF V
    <3> QED
      BY <2>1, <2>4, <3>1, <3>2, <3>3, FeedHarmless
  <2> QED
    BY <2>1, <2>3, <2>5
<1>4. 0 \in A
  <2>1. n + 0 = n
    OBVIOUS
  <2> QED
    BY <1>2, <2>1
<1>5. m - n \in Nat /\ n + (m - n) = m /\ (m - n \in A => Good(m - n))
  OBVIOUS
<1>6. Good(m - n)
  <2> HIDE DEF A, Good
  <2> QED
    BY <1>3, <1>4, <1>5, NatInduct
<1>7. Fed(T, y) = f[m - n]
  BY <1>1, <1>2
<1>8. IsTerm(Fed(T, y)) /\ Fed(T, y).region = T.region /\ Harmless(Len(Fed(T, y).partial), z, m)
  BY <1>5, <1>6, <1>7
<1> QED
  BY <1>8 DEF y

-----------------------------------------------------------------------------
(* What the terminal and the clamp make of the parameters of a region.     *)

LEMMA UpToIs ==
    ASSUME NEW p \in Seq(ParamByte)
    PROVE  \E c \in 0 .. Len(p) : /\ UpToSemicolon(p) = SubSeq(p, 1, c)
                                  /\ \A i \in 1 .. c : p[i] # Semicolon
                                  /\ c < Len(p) => p[c + 1] = Semicolon
<1> DEFINE C == {i \in DOMAIN p : p[i] = Semicolon} \cup {Len(p) + 1}
           c == Min(C) - 1
<1>1. Len(p) \in Nat
  OBVIOUS
<1>2. C = {i \in 1 .. Len(p) : p[i] = Semicolon} \cup {Len(p) + 1}
  OBVIOUS
<1>3. C \in SUBSET Nat /\ C # {}
  BY <1>1, <1>2
<1>4. Min(C) \in C /\ \A i \in C : Min(C) <= i
  <2> HIDE DEF C
  <2> QED
    BY <1>3, MinIsLeast
<1>5. UpToSemicolon(p) = SubSeq(p, 1, c)
  BY Zenon DEF UpToSemicolon
<1> DEFINE k == Min(C)
<1>6. k \in 1 .. Len(p) + 1 /\ (k <= Len(p) => p[k] = Semicolon) /\ c = k - 1
  <2> HIDE DEF C
  <2> QED
    BY <1>1, <1>2, <1>4
<1>7. \A i \in 1 .. Len(p) : p[i] = Semicolon => k <= i
  <2> HIDE DEF C
  <2> QED
    BY <1>1, <1>2, <1>4
<1> HIDE DEF k, c
<1>8. c \in 0 .. Len(p) /\ c + 1 = k /\ \A i \in 1 .. c : i \in 1 .. Len(p) /\ ~(k <= i)
  BY <1>1, <1>6
<1> QED
  BY <1>5, <1>6, <1>7, <1>8

LEMMA NumberIsNat ==
    ASSUME NEW p \in Seq(ParamByte)
    PROVE  Number(UpToSemicolon(p)) \in Nat
<1>1. PICK c \in 0 .. Len(p) : /\ UpToSemicolon(p) = SubSeq(p, 1, c)
                               /\ \A i \in 1 .. c : p[i] # Semicolon
  BY UpToIs
<1>2. /\ SubSeq(p, 1, c) \in Seq(ParamByte) /\ Len(SubSeq(p, 1, c)) = c /\ c \in Nat
      /\ \A i \in 1 .. c : SubSeq(p, 1, c)[i] = p[i]
  <2>1. 0 \in Nat /\ c \in 0 .. Len(p) /\ 0 + 1 = 1 /\ c - 0 = c /\ \A i \in 1 .. c : 0 + i = i
    OBVIOUS
  <2> QED
    BY <2>1, PartIs
<1>3. CASE c = 1
  <2>1. 1 \in 1 .. c /\ 1 \in 1 .. Len(p)
    BY <1>3
  <2>2. p[1] \in ParamByte \ {Semicolon}
    BY <1>1, <2>1
  <2>3. PICK k \in 1 .. 9 : p[1] = Numerals[k]
    BY <2>2, BytesApart
  <2> DEFINE w == SubSeq(p, 1, c)
  <2>4. Len(w) = 1 /\ w[1] = Numerals[k]
    BY <1>2, <1>3, <2>1, <2>3
  <2> HIDE DEF w
  <2>5. (CHOOSE j \in DOMAIN Numerals : Numerals[j] = Numerals[k]) = k
    BY BytesApart
  <2>6. Number(w) = k
    BY <2>4, <2>5 DEF Number
  <2>7. Number(w) \in Nat
    BY <2>6
  <2> QED
    BY <1>1, <2>7 DEF w
<1>4. CASE c # 1
  <2>1. Number(SubSeq(p, 1, c)) \in {0, Len(Numerals) + 1}
    BY <1>2, <1>4 DEF Number
  <2> QED
    BY <1>1, <2>1, BytesApart
<1> QED
  BY <1>3, <1>4

LEMMA NumberFirst ==
    ASSUME NEW p \in Seq(ParamByte), NEW k \in 1 .. 9, Len(p) > 0, p[1] = Numerals[k],
           Len(p) > 1 => p[2] = Semicolon
    PROVE  Number(UpToSemicolon(p)) = k /\ Len(UpToSemicolon(p)) = 1
<1>1. PICK c \in 0 .. Len(p) : /\ UpToSemicolon(p) = SubSeq(p, 1, c)
                               /\ \A i \in 1 .. c : p[i] # Semicolon
                               /\ c < Len(p) => p[c + 1] = Semicolon
  BY UpToIs
<1>2. p[1] # Semicolon
  BY BytesApart
<1>3. c = 1
  <2>1. c # 0
    BY <1>1, <1>2
  <2>2. ~(c > 1)
    <3> SUFFICES ASSUME c > 1 PROVE FALSE
      OBVIOUS
    <3>1. 2 \in 1 .. c /\ Len(p) > 1
      OBVIOUS
    <3> QED
      BY <1>1, <3>1
  <2> QED
    BY <2>1, <2>2
<1> DEFINE w == SubSeq(p, 1, 1)
<1>4. Len(w) = 1 /\ w[1] = Numerals[k]
  <2>1. 1 \in 0 .. Len(p)
    OBVIOUS
  <2> QED
    BY <2>1
<1> HIDE DEF w
<1>5. (CHOOSE j \in DOMAIN Numerals : Numerals[j] = Numerals[k]) = k
  BY BytesApart
<1>6. Number(w) = k
  BY <1>4, <1>5 DEF Number
<1>7. UpToSemicolon(p) = w
  BY <1>1, <1>3 DEF w
<1> QED
  BY <1>4, <1>6, <1>7

\* A sequence that the terminal reads on, and one that sets a region.
LEMMA FeedMore ==
    ASSUME NEW T, IsTerm(T), NEW c \in CsiByte, c # "ESC", Len(T.partial) > 0,
           Continues(Len(T.partial) + 1, c)
    PROVE  Feed(T, c) = [region |-> T.region, partial |-> Append(T.partial, c)]
<1>1. Feed(T, c) = [T EXCEPT !.partial = Append(@, c)]
  BY BytesApart DEF Feed, Continues
<1> QED
  BY <1>1 DEF IsTerm

LEMMA FeedLast ==
    ASSUME NEW T, IsTerm(T), Len(T.partial) > 1
    PROVE  LET p == SubSeq(T.partial, 3, Len(T.partial))
           IN  Feed(T, "r") = [region |-> Confine(T.region, Top(p), Bottom(p)), partial |-> <<>>]
<1>1. Len(T.partial) \in Nat
  BY DEF IsTerm
<1>2. ~Continues(Len(T.partial) + 1, "r")
  BY <1>1, BytesApart DEF Continues
<1> QED
  BY <1>2 DEF Feed

\* What the terminal makes of a region the clamp has written.
LEMMA FedRegion ==
    ASSUME NEW T, IsTerm(T), NEW top \in 1 .. 9, NEW bot \in 1 .. 9
    PROVE  Fed(T, RegionSeq(top, bot)) =
             [region |-> Confine(T.region, top, bot), partial |-> <<>>]
<1> DEFINE w == RegionSeq(top, bot)
<1>1. /\ Len(w) = 6 /\ w[1] = "ESC" /\ w[2] = "[" /\ w[3] = Numerals[top]
      /\ w[4] = Semicolon /\ w[5] = Numerals[bot] /\ w[6] = "r"
  BY DEF RegionSeq
<1> HIDE DEF w
<1>2. /\ \A i \in 3 .. 5 : w[i] \in ParamByte
      /\ \A i \in 2 .. 5 : w[i] \in CsiByte /\ w[i] # "ESC" /\ Continues(i, w[i])
  <2>1. w[3] \in ParamByte /\ w[4] \in ParamByte /\ w[5] \in ParamByte
    BY <1>1, BytesApart
  <2>2. \A i \in 3 .. 5 : i = 3 \/ i = 4 \/ i = 5
    OBVIOUS
  <2>3. \A i \in 2 .. 5 : i = 2 \/ i \in 3 .. 5
    OBVIOUS
  <2>4. \A i \in 3 .. 5 : w[i] \in ParamByte /\ i # 2
    BY <2>1, <2>2
  <2> QED
    BY <1>1, <2>3, <2>4, BytesApart DEF CsiByte, Continues
<1>3. PICK f : /\ f[0] = T
               /\ \A n \in 1 .. Len(w) : f[n] = Feed(f[n - 1], w[n])
               /\ Fed(T, w) = f[Len(w)]
  <2>1. Len(w) \in Nat
    BY <1>1
  <2>2. \E f : Reads(f, T, w)
    BY <2>1, FedSteps, Zenon
  <2> QED
    BY <2>2 DEF Reads
<1> DEFINE Read(i) == /\ IsTerm(f[i]) /\ f[i].region = T.region
                      /\ Len(f[i].partial) = i
                      /\ \A k \in 1 .. i : f[i].partial[k] = w[k]
<1>4. Read(1)
  <2>1. f[1] = Feed(T, "ESC")
    BY <1>1, <1>3
  <2>2. Feed(T, "ESC") = [T EXCEPT !.partial = <<"ESC">>]
    BY BytesApart DEF Feed, Continues
  <2>3. f[1] = [region |-> T.region, partial |-> <<"ESC">>]
    BY <2>1, <2>2 DEF IsTerm
  <2>4. "ESC" \in CsiByte
    BY DEF CsiByte
  <2> QED
    BY <1>1, <2>3, <2>4 DEF IsTerm
<1>5. ASSUME NEW i \in 1 .. 4, Read(i) PROVE Read(i + 1)
  <2>1. f[i + 1] = Feed(f[i], w[i + 1])
    <3>1. i + 1 \in 1 .. Len(w) /\ (i + 1) - 1 = i
      BY <1>1
    <3> QED
      BY <1>3, <3>1
  <2>2. i + 1 \in 2 .. 5
    OBVIOUS
  <2> DEFINE c == w[i + 1]
             U == f[i]
  <2>3. c \in CsiByte /\ c # "ESC" /\ Continues(i + 1, c)
    BY <1>2, <2>2
  <2>4. /\ IsTerm(U) /\ U.region = T.region /\ Len(U.partial) = i
        /\ \A k \in 1 .. i : U.partial[k] = w[k]
    BY <1>5
  <2>5. f[i + 1] = Feed(U, c)
    BY <2>1
  <2>6. c = w[i + 1]
    OBVIOUS
  <2> HIDE DEF U, c
  <2>7. Feed(U, c) = [region |-> U.region, partial |-> Append(U.partial, c)]
    <3>1. Len(U.partial) > 0 /\ Continues(Len(U.partial) + 1, c)
      BY <2>3, <2>4
    <3> QED
      BY <2>3, <2>4, <3>1, FeedMore
  <2> DEFINE q == Append(U.partial, c)
  <2>8. q \in Seq(CsiByte) /\ Len(q) = i + 1 /\ \A k \in 1 .. i + 1 : q[k] = w[k]
    BY <2>3, <2>4, <2>6 DEF IsTerm
  <2> HIDE DEF q
  <2>9. f[i + 1] = [region |-> U.region, partial |-> q]
    BY <2>5, <2>7 DEF q
  <2> QED
    BY <2>4, <2>8, <2>9 DEF IsTerm
<1>6. Read(5)
  <2>1. Read(2)
    BY <1>4, <1>5
  <2>2. Read(3)
    BY <2>1, <1>5
  <2>3. Read(4)
    BY <2>2, <1>5
  <2> QED
    BY <2>3, <1>5
<1> DEFINE U == f[5]
           p == SubSeq(U.partial, 2 + 1, 5)
<1>7. /\ IsTerm(U) /\ U.region = T.region /\ Len(U.partial) = 5
      /\ \A k \in 1 .. 5 : U.partial[k] = w[k]
  BY <1>6
<1>8. Fed(T, w) = Feed(U, "r")
  BY <1>1, <1>3
<1> HIDE DEF U
<1>9. Len(p) = 3 /\ \A i \in 1 .. 3 : p[i] = w[2 + i]
  <2>1. U.partial \in Seq(CsiByte) /\ 5 \in 2 .. Len(U.partial)
    BY <1>7 DEF IsTerm
  <2>2. Len(p) = 5 - 2 /\ \A i \in 1 .. 5 - 2 : p[i] = U.partial[2 + i]
    BY <2>1, PartIs
  <2> QED
    BY <1>7, <2>2
<1>10. SubSeq(U.partial, 3, Len(U.partial)) = p
  BY <1>7
<1>11. p \in Seq(ParamByte)
  <2>1. p \in Seq(CsiByte)
    BY <1>7 DEF IsTerm
  <2> HIDE DEF p
  <2>2. \A i \in 1 .. Len(p) : p[i] \in ParamByte
    BY <1>2, <1>9
  <2> QED
    BY <2>1, <2>2
<1> HIDE DEF p
<1>12. Top(p) = top /\ Len(UpToSemicolon(p)) = 1
  BY <1>1, <1>9, <1>11, NumberFirst DEF Top
<1>13. Bottom(p) = bot
  <2> DEFINE q == SubSeq(p, 2 + 1, 3)
  <2>1. q \in Seq(ParamByte) /\ Len(q) = 1 /\ q[1] = Numerals[bot]
    <3>1. 3 \in 2 .. Len(p)
      BY <1>9
    <3>2. q \in Seq(ParamByte) /\ Len(q) = 3 - 2 /\ \A i \in 1 .. 3 - 2 : q[i] = p[2 + i]
      BY <1>11, <3>1, PartIs
    <3> QED
      BY <1>1, <1>9, <3>2
  <2>2. SubSeq(p, Len(UpToSemicolon(p)) + 2, Len(p)) = q
    BY <1>9, <1>12
  <2> HIDE DEF q
  <2>3. Len(q) > 0 /\ (Len(q) > 1 => q[2] = Semicolon)
    BY <2>1
  <2>4. Number(UpToSemicolon(q)) = bot
    BY <2>1, <2>3, NumberFirst
  <2> QED
    BY <2>2, <2>4, Zenon DEF Bottom
<1>14. Feed(U, "r") = [region |-> Confine(U.region, Top(p), Bottom(p)), partial |-> <<>>]
  <2>1. Len(U.partial) > 1
    BY <1>7
  <2>2. Feed(U, "r") = [region |-> Confine(U.region, Top(SubSeq(U.partial, 3, Len(U.partial))),
                                          Bottom(SubSeq(U.partial, 3, Len(U.partial)))),
                        partial |-> <<>>]
    BY <1>7, <2>1, FeedLast
  <2> QED
    BY <1>10, <2>2
<1> QED
  BY <1>7, <1>8, <1>12, <1>13, <1>14 DEF w

\* What the clamp makes of a region is within the child's rows.
LEMMA ClampedIs ==
    ASSUME NEW p \in Seq(ParamByte), childBottom \in 0 .. 9
    PROVE  \/ clampRegionSeq(p) = <<>> /\ childBottom < 2
           \/ \E top, bot \in 1 .. 9 :
                clampRegionSeq(p) = RegionSeq(top, bot) /\ bot <= childBottom
<1>1. Top(p) \in Nat
  BY NumberIsNat DEF Top
<1>2. Bottom(p) \in Nat
  <2> DEFINE q == SubSeq(p, Len(UpToSemicolon(p)) + 2, Len(p))
  <2>1. PICK c \in 0 .. Len(p) : UpToSemicolon(p) = SubSeq(p, 1, c)
    BY UpToIs
  <2>2. Len(UpToSemicolon(p)) \in Nat
    BY <2>1
  <2>3. q \in Seq(ParamByte)
    BY <2>2
  <2> HIDE DEF q
  <2>4. Number(UpToSemicolon(q)) \in Nat
    BY <2>3, NumberIsNat
  <2> QED
    BY <2>4 DEF Bottom, q
<1>3. CASE childBottom < 2
  BY <1>3 DEF clampRegionSeq
<1>4. CASE childBottom >= 2
  <2> DEFINE top == IF Top(p) = 0 THEN 1 ELSE Top(p)
             asked == IF Bottom(p) = 0 THEN childBottom ELSE Bottom(p)
             bot == IF asked > childBottom THEN childBottom ELSE asked
  <2>1. top \in Nat \ {0} /\ bot \in 1 .. 9 /\ bot <= childBottom
    BY <1>1, <1>2, <1>4
  <2>2. ~(childBottom < 2)
    BY <1>4
  <2>3. clampRegionSeq(p) = IF top >= bot THEN RegionSeq(1, childBottom) ELSE RegionSeq(top, bot)
    BY <2>2, Zenon DEF clampRegionSeq
  <2> HIDE DEF top, bot
  <2>4. CASE top >= bot
    BY <1>4, <2>3, <2>4
  <2>5. CASE ~(top >= bot)
    <3>1. top \in 1 .. 9
      BY <2>1, <2>5
    <3> QED
      BY <2>1, <2>3, <2>5, <3>1
  <2> QED
    BY <2>4, <2>5
<1> QED
  BY <1>3, <1>4

-----------------------------------------------------------------------------
(* The clamp.                                                              *)

\* How far the sequence that begins after c goes, when it goes e bytes at least.
LEMMA GoesAsFar ==
    ASSUME NEW z, NEW c \in Nat, NEW e \in Nat \ {0}, NEW m \in Nat, Goes(1, z, c + 1, m),
           \A i \in 2 .. e : Continues(i, z[c + i])
    PROVE  /\ m >= c + e
           /\ ~Continues(e + 1, z[c + e + 1]) => m = c + e
<1>1. /\ m >= c + 1 /\ \A i \in (c + 1) + 1 .. m : Continues(1 + i - (c + 1), z[i])
      /\ ~Continues(1 + m + 1 - (c + 1), z[m + 1])
  BY DEF Goes
<1>2. m >= c + e
  <2> SUFFICES ASSUME m < c + e PROVE FALSE
    OBVIOUS
  <2>1. m + 1 - c \in 2 .. e /\ c + (m + 1 - c) = m + 1 /\ 1 + m + 1 - (c + 1) = m + 1 - c
    BY <1>1
  <2>2. Continues(m + 1 - c, z[c + (m + 1 - c)])
    BY <2>1
  <2> QED
    BY <1>1, <2>1, <2>2, Zenon
<1>3. m > c + e => Continues(e + 1, z[c + e + 1])
  <2> SUFFICES ASSUME m > c + e PROVE Continues(e + 1, z[c + e + 1])
    OBVIOUS
  <2>1. c + e + 1 \in (c + 1) + 1 .. m /\ 1 + (c + e + 1) - (c + 1) = e + 1
    OBVIOUS
  <2>2. Continues(1 + (c + e + 1) - (c + 1), z[c + e + 1])
    BY <1>1, <2>1
  <2> QED
    BY <2>1, <2>2, Zenon
<1> QED
  BY <1>2, <1>3

\* A sequence is harmless that is too long for a region, or ends otherwise.
LEMMA RunHarmless ==
    ASSUME NEW z \in Seq(Byte), Clean(z), NEW c \in Nat, NEW e \in Nat \ {0},
           c + e <= Len(z), z[c + 1] = "ESC", \A i \in 2 .. e : Continues(i, z[c + i]),
           \/ e > MaxHeld
           \/ ~Continues(e + 1, z[c + e + 1]) /\ ~(e > 1 /\ z[c + e + 1] = "r")
    PROVE  /\ Harmless(1, z, c + 1)
           /\ \A i \in (c + 1) + 1 .. c + e : z[i] # "ESC"
<1>1. PICK m \in Nat : /\ Goes(1, z, c + 1, m)
                       /\ m > c + 1 /\ z[m + 1] = "r" => m - (c + 1) + 1 <= MaxHeld
  <2>1. c + 1 \in 1 .. Len(z)
    OBVIOUS
  <2> QED
    BY <2>1 DEF Clean
<1>2. m >= c + e /\ (~Continues(e + 1, z[c + e + 1]) => m = c + e)
  BY <1>1, GoesAsFar
<1>3. 1 + m - (c + 1) > 1 => z[m + 1] # "r"
  <2> SUFFICES ASSUME 1 + m - (c + 1) > 1, z[m + 1] = "r" PROVE FALSE
    OBVIOUS
  <2>1. m > c + 1 /\ m - c <= MaxHeld
    BY <1>1, MaxHeldAssumption
  <2>2. ~(e > MaxHeld)
    BY <1>2, <2>1, MaxHeldAssumption
  <2>3. m = c + e /\ ~(e > 1 /\ z[c + e + 1] = "r")
    BY <1>2, <2>2
  <2> QED
    BY <2>1, <2>3
<1>4. Harmless(1, z, c + 1)
  BY <1>1, <1>3 DEF Harmless
<1>5. ASSUME NEW i \in (c + 1) + 1 .. c + e PROVE z[i] # "ESC"
  <2>1. i - c \in 2 .. e /\ c + (i - c) = i
    OBVIOUS
  <2>2. Continues(i - c, z[i])
    BY <2>1
  <2> QED
    BY <2>2, BytesApart DEF Continues
<1> QED
  BY <1>4, <1>5

\* What such a sequence does to the terminal.
LEMMA RunFed ==
    ASSUME NEW T, IsTerm(T), NEW z \in Seq(Byte), NEW c \in Nat, NEW e \in Nat \ {0},
           c + e <= Len(z), Harmless(Len(T.partial), z, c), Harmless(1, z, c + 1),
           \A i \in (c + 1) + 1 .. c + e : z[i] # "ESC"
    PROVE  LET U == Fed(T, SubSeq(z, c + 1, c + e))
           IN  IsTerm(U) /\ U.region = T.region /\ Harmless(Len(U.partial), z, c + e)
<1>1. c + e \in c .. Len(z)
  OBVIOUS
<1>2. \A i \in c + 1 .. c + e : i = c + 1 \/ i \in (c + 1) + 1 .. c + e
  OBVIOUS
<1>3. \A i \in c + 1 .. c + e : z[i] = "ESC" => Harmless(1, z, i)
  BY <1>2
<1> QED
  BY <1>1, <1>3, FedHarmless

\* A harmless sequence of the terminal is over where the child begins another, if
\* the child is never interrupted.
LEMMA NothingRead ==
    ASSUME Uninterrupted, NEW z, NEW c \in Nat, NEW l \in Nat, Harmless(l, z, c), z[c + 1] = "ESC"
    PROVE  l = 0
<1> SUFFICES ASSUME l > 0 PROVE FALSE
  OBVIOUS
<1>1. PICK m \in Nat : Goes(l, z, c, m)
  BY DEF Harmless
<1>2. CASE m = c
  BY <1>1, <1>2 DEF Goes
<1>3. CASE m # c
  <2>1. c + 1 \in c + 1 .. m /\ l + (c + 1) - c = l + 1
    BY <1>1, <1>3 DEF Goes
  <2>2. Continues(l + (c + 1) - c, z[c + 1])
    BY <1>1, <2>1 DEF Goes
  <2> QED
    BY <2>2, BytesApart DEF Continues
<1> QED
  BY <1>2, <1>3

\* The clamp keeps the child's regions out of the reserved rows.
Quiet == childBottom > 1 \/ Uninterrupted

\* What a terminal T0 has become that k bytes of z have been passed on to.
Confined(T0, T, z, k) ==
    /\ IsTerm(T)
    /\ T.region = T0.region \/ T.region[2] <= childBottom
    /\ Harmless(Len(T.partial), z, k)

\* After a turn of the loop over the first N bytes of z, k of them are written.
Turn(s, z, N, T0, k) ==
    /\ s.out \in Seq(OutByte)
    /\ \/ s.data = SubSeq(z, k + 1, N) /\ s.pend = <<>>
       \/ s.data = <<>> /\ s.pend = SubSeq(z, k + 1, N)
    /\ Quiet => Confined(T0, Fed(T0, s.out), z, k)

\* The clamp has rewritten a region, which began after c and took e bytes and one.
LEMMA RegionTurn ==
    ASSUME rows \in Nat, childBottom \in 0 .. 9, NEW z \in Seq(Byte), NEW c \in Nat,
           z[c + 1] = "ESC", NEW k \in Nat, NEW p \in Seq(ParamByte), NEW T0, NEW T, Quiet,
           Confined(T0, T, z, c)
    PROVE  Confined(T0, Fed(T, clampRegionSeq(p)), z, k)
<1>1. CASE clampRegionSeq(p) = <<>> /\ childBottom < 2
  <2>1. Fed(T, <<>>) = T
    BY FedNothing
  <2>2. Uninterrupted
    BY <1>1 DEF Quiet
  <2>3. Len(T.partial) \in Nat
    BY DEF Confined, IsTerm
  <2>4. Len(T.partial) = 0
    BY <2>2, <2>3, NothingRead DEF Confined
  <2>5. Harmless(Len(T.partial), z, k)
    BY <2>4 DEF Harmless
  <2> QED
    BY <1>1, <2>1, <2>5 DEF Confined
<1>2. ASSUME NEW top \in 1 .. 9, NEW bot \in 1 .. 9, bot <= childBottom,
             clampRegionSeq(p) = RegionSeq(top, bot)
      PROVE  Confined(T0, Fed(T, clampRegionSeq(p)), z, k)
  <2> DEFINE U == [region |-> Confine(T.region, top, bot), partial |-> <<>>]
  <2>1. Fed(T, RegionSeq(top, bot)) = U
    BY FedRegion DEF Confined
  <2>2. U.partial = <<>> /\ U.region = Confine(T.region, top, bot)
    OBVIOUS
  <2>3. IsTerm(U) /\ Harmless(Len(U.partial), z, k)
    BY DEF IsTerm, Harmless
  <2>4. Confine(T.region, top, bot) = T.region \/ Confine(T.region, top, bot)[2] <= bot
    BY DEF Confine
  <2> HIDE DEF U
  <2>5. U.region = T0.region \/ U.region[2] <= childBottom
    <3>1. CASE U.region = T.region
      BY <3>1 DEF Confined
    <3>2. CASE U.region # T.region
      <4>1. PICK b \in Nat : Confine(T.region, top, bot)[2] = b /\ b <= bot
        BY <2>2, <3>2 DEF Confine
      <4> QED
        BY <1>2, <2>2, <4>1
    <3> QED
      BY <3>1, <3>2
  <2> QED
    BY <1>2, <2>1, <2>3, <2>5 DEF Confined
<1> QED
  BY <1>1, <1>2, ClampedIs

\* A turn of the loop.
LEMMA RoundTurn ==
    ASSUME rows \in Nat, childBottom \in 0 .. 9, NEW z \in Seq(Byte), Clean(z),
           NEW N \in 0 .. Len(z), NEW T0, NEW k \in 0 .. N, NEW s, Turn(s, z, N, T0, k)
    PROVE  \E n \in 0 .. N : /\ Turn(Round(s), z, N, T0, n)
                             /\ Round(s).data = <<>> \/ n > k
<1>1. CASE s.data = <<>>
  <2>1. Round(s) = s
    BY <1>1, Zenon DEF Round
  <2> QED
    BY <1>1, <2>1
<1>2. CASE s.data # <<>>
  <2> DEFINE d == SubSeq(z, k + 1, N)
             C == {i \in DOMAIN d : d[i] = "ESC"} \cup {Len(d) + 1}
             start == Min(C)
             rest == SubSeq(d, start, Len(d))
             j == RegionPrefix(rest)
             text == SubSeq(d, 1, start - 1)
             then(bytes, left, held) ==
               [data |-> left, out |-> s.out \o text \o bytes, pend |-> held]
             c == k + (start - 1)
  <2>1. s.data = d /\ s.pend = <<>>
    BY <1>2 DEF Turn
  <2>2. Round(s) =
          IF rest = <<>> THEN then(<<>>, <<>>, <<>>)
          ELSE IF j = Len(rest)
          THEN IF HeldBack(rest) THEN then(<<>>, <<>>, rest) ELSE then(rest, <<>>, <<>>)
          ELSE IF j > 1 /\ rest[j + 1] = "r"
          THEN then(clampRegionSeq(SubSeq(rest, 3, j)), SubSeq(rest, j + 2, Len(rest)), <<>>)
          ELSE then(SubSeq(rest, 1, j), SubSeq(rest, j + 1, Len(rest)), <<>>)
    BY <1>2, <2>1, Zenon DEF Round
  <2>3. /\ k \in Nat /\ N \in Nat /\ N \in k .. Len(z) /\ d \in Seq(Byte) /\ Len(d) = N - k
        /\ \A i \in 1 .. N - k : d[i] = z[k + i]
    BY PartIs
  <2>4. start \in 1 .. (N - k) + 1 /\ (start <= N - k => d[start] = "ESC")
        /\ \A i \in 1 .. N - k : d[i] = "ESC" => start <= i
    <3> HIDE DEF d
    <3>1. C = {i \in 1 .. N - k : d[i] = "ESC"} \cup {(N - k) + 1} /\ N - k \in Nat
      BY <2>3
    <3> HIDE DEF C
    <3>2. C \in SUBSET Nat /\ C # {}
      BY <3>1
    <3>3. start \in C /\ \A i \in C : start <= i
      BY <3>2, MinIsLeast
    <3> QED
      BY <3>1, <3>3
  <2> HIDE DEF start
  <2>5. c \in k .. N /\ c \in Nat /\ start = (c - k) + 1 /\ start - 1 = c - k /\ k + (c - k) = c
        /\ c - k \in 0 .. N - k /\ c - k \in Nat /\ N - k \in c - k .. N - k /\ k + (N - k) = N
    <3>1. k \in Nat /\ N \in Nat /\ k <= N
      BY <2>3
    <3>2. start \in Int /\ 1 <= start /\ start <= (N - k) + 1
      BY <2>4, <3>1
    <3> HIDE DEF d
    <3> QED
      BY <3>1, <3>2
  <2>6. text = SubSeq(z, k + 1, c)
    <3> DEFINE o == 0
    <3>1. o \in Nat /\ c - k \in o .. N - k /\ o + 1 = 1 /\ (k + o) + 1 = k + 1
      BY <2>3, <2>5
    <3> HIDE DEF o, c
    <3>2. SubSeq(SubSeq(z, k + 1, N), o + 1, c - k) = SubSeq(z, (k + o) + 1, k + (c - k))
      BY <2>3, <3>1, PartOfPart
    <3>3. SubSeq(SubSeq(z, k + 1, N), 1, c - k) = SubSeq(z, k + 1, c)
      BY <2>5, <3>1, <3>2
    <3> QED
      BY <2>5, <3>3
  <2>7. rest = SubSeq(z, c + 1, N)
    <3>1. SubSeq(SubSeq(z, k + 1, N), (c - k) + 1, N - k) = SubSeq(z, (k + (c - k)) + 1, k + (N - k))
      <4> HIDE DEF c
      <4> QED
        BY <2>3, <2>5, PartOfPart
    <3> QED
      BY <2>3, <2>5, <3>1
  <2>8. c < N => z[c + 1] = "ESC"
    <3>1. c < N => start <= N - k /\ start \in 1 .. N - k /\ k + start = c + 1
      <4>1. k \in Nat /\ N \in Nat /\ c \in Nat /\ start = (c - k) + 1 /\ k <= c
        BY <2>3, <2>5
      <4> HIDE DEF c, d, rest, text, C
      <4> QED
        BY <4>1
    <3> QED
      BY <2>3, <2>4, <3>1
  <2>9. \A i \in k + 1 .. c : z[i] # "ESC"
    <3> SUFFICES ASSUME NEW i \in k + 1 .. c PROVE z[i] # "ESC"
      OBVIOUS
    <3>1. i - k \in 1 .. N - k /\ k + (i - k) = i /\ ~(start <= i - k)
      <4>1. k \in Nat /\ N \in Nat /\ c \in Nat /\ start = (c - k) + 1 /\ k <= c /\ c <= N
        BY <2>3, <2>5
      <4> HIDE DEF c, d, rest, text, C
      <4> QED
        BY <4>1
    <3> QED
      BY <2>3, <2>4, <3>1
  <2> HIDE DEF c, d, rest, text, C
  <2>10. text \in Seq(OutByte) /\ rest \in Seq(Byte) /\ Len(rest) = N - c
         /\ \A i \in 1 .. N - c : rest[i] = z[c + i]
    <3>1. c \in k .. Len(z) /\ N \in c .. Len(z)
      BY <2>3, <2>5
    <3>2. text \in Seq(Byte)
      BY <2>3, <2>6, <3>1, PartIs
    <3>3. text \in Seq(OutByte)
      BY <3>2 DEF OutByte
    <3>4. /\ SubSeq(z, c + 1, N) \in Seq(Byte) /\ Len(SubSeq(z, c + 1, N)) = N - c
          /\ \A i \in 1 .. N - c : SubSeq(z, c + 1, N)[i] = z[c + i]
      BY <2>5, <3>1, PartIs
    <3> QED
      BY <2>7, <3>3, <3>4
  <2> DEFINE T1 == Fed(Fed(T0, s.out), text)
  <2>11. Quiet => Confined(T0, T1, z, c)
    <3> SUFFICES ASSUME Quiet PROVE Confined(T0, T1, z, c)
      OBVIOUS
    <3> DEFINE T == Fed(T0, s.out)
    <3>1. Confined(T0, T, z, k)
      BY DEF Turn
    <3> HIDE DEF T
    <3>2. c \in k .. Len(z) /\ \A i \in k + 1 .. c : z[i] = "ESC" => Harmless(1, z, i)
      BY <2>3, <2>5, <2>9
    <3> DEFINE U == Fed(T, SubSeq(z, k + 1, c))
    <3>3. IsTerm(U) /\ U.region = T.region /\ Harmless(Len(U.partial), z, c)
      BY <2>3, <3>1, <3>2, FedHarmless DEF Confined
    <3> HIDE DEF U
    <3>4. Confined(T0, U, z, c)
      BY <3>1, <3>3 DEF Confined
    <3> QED
      BY <2>6, <3>4 DEF U, T
  <2>12. ASSUME NEW w \in Seq(OutByte)
         PROVE  /\ s.out \o text \o w \in Seq(OutByte)
                /\ Fed(T0, s.out \o text \o w) = Fed(T1, w)
    <3>1. s.out \in Seq(OutByte) /\ s.out \o text \in Seq(OutByte)
      BY <2>10 DEF Turn
    <3> DEFINE x == s.out \o text
    <3>2. x \in Seq(OutByte)
      BY <3>1
    <3>3. Fed(T0, s.out \o text) = T1
      BY <2>10, <3>1, FedConcat
    <3>4. Fed(T0, x) = T1
      BY <3>3
    <3> HIDE DEF x, T1
    <3>5. Fed(T0, x \o w) = Fed(Fed(T0, x), w)
      BY <3>2, FedConcat
    <3>6. Fed(T0, s.out \o text \o w) = Fed(T1, w)
      BY <3>4, <3>5 DEF x
    <3> QED
      BY <3>1, <3>6, <3>3
  <2> HIDE DEF T1
  \* What is to be shown of each way the turn may end.
  <2>13. ASSUME NEW w \in Seq(OutByte), NEW left, NEW held, Round(s) = then(w, left, held),
                NEW n \in 0 .. N,
                \/ left = SubSeq(z, n + 1, N) /\ held = <<>>
                \/ left = <<>> /\ held = SubSeq(z, n + 1, N),
                Quiet => Confined(T0, Fed(T1, w), z, n),
                left = <<>> \/ n > k
         PROVE  \E i \in 0 .. N : Turn(Round(s), z, N, T0, i) /\ (Round(s).data = <<>> \/ i > k)
    <3>1. /\ Round(s).data = left /\ Round(s).pend = held
          /\ Round(s).out = s.out \o text \o w
      BY <2>13
    <3>2. Round(s).out \in Seq(OutByte) /\ Fed(T0, Round(s).out) = Fed(T1, w)
      BY <2>12, <3>1
    <3>3. Turn(Round(s), z, N, T0, n)
      BY <2>13, <3>1, <3>2 DEF Turn
    <3> QED
      BY <2>13, <3>1, <3>3
  <2>14. c \in 0 .. N /\ <<>> \in Seq(OutByte) /\ Fed(T1, <<>>) = T1
    BY <2>3, <2>5, FedNothing
  <2>15. SubSeq(z, N + 1, N) = <<>> /\ N \in 0 .. N
    BY <2>3
  <2>16. CASE rest = <<>>
    <3>1. c = N
      <4>1. Len(rest) = 0 /\ Len(rest) = N - c
        BY <2>10, <2>16
      <4>2. c \in Nat /\ N \in Nat
        BY <2>3, <2>5
      <4> HIDE DEF then, j
      <4> QED
        BY <4>1, <4>2
    <3>2. Round(s) = then(<<>>, <<>>, <<>>)
      BY <2>2, <2>16
    <3>3. Quiet => Confined(T0, Fed(T1, <<>>), z, N)
      BY <2>11, <2>14, <3>1
    <3> HIDE DEF then
    <3> QED
      BY <2>13, <2>14, <2>15, <3>2, <3>3
  <2>17. CASE rest # <<>>
    <3>1. Len(rest) > 0 /\ c < N
      <4>1. Len(rest) # 0
        BY <2>10, <2>17
      <4>2. c \in Nat /\ N \in Nat /\ c <= N /\ Len(rest) = N - c
        BY <2>3, <2>5, <2>10
      <4> HIDE DEF then, j
      <4> QED
        BY <4>1, <4>2
    <3>2. /\ j \in 1 .. Len(rest) /\ \A i \in 2 .. j : Continues(i, rest[i])
          /\ j < Len(rest) => ~Continues(j + 1, rest[j + 1])
      BY <2>10, <3>1, PrefixEnds
    <3> HIDE DEF j
    <3>3. /\ j \in Nat \ {0} /\ j <= N - c /\ c + j <= Len(z) /\ c + j \in 0 .. N
          /\ z[c + 1] = "ESC" /\ \A i \in 2 .. j : Continues(i, z[c + i])
      BY <2>3, <2>5, <2>8, <2>10, <3>1, <3>2
    <3>4. j # Len(rest) => /\ c + j + 1 \in 0 .. N /\ rest[j + 1] = z[c + j + 1]
                           /\ ~Continues(j + 1, z[c + j + 1]) /\ j < Len(rest)
      <4> SUFFICES ASSUME j # Len(rest)
                   PROVE  /\ c + j + 1 \in 0 .. N /\ rest[j + 1] = z[c + j + 1]
                          /\ ~Continues(j + 1, z[c + j + 1]) /\ j < Len(rest)
        OBVIOUS
      <4>1. j < Len(rest) /\ Len(rest) = N - c /\ j \in Nat
        BY <2>10, <3>2, <3>3
      <4>2. j < Len(rest) /\ j + 1 \in 1 .. N - c /\ c + (j + 1) = c + j + 1
        BY <2>3, <2>5, <4>1
      <4>3. c + j + 1 \in 0 .. N
        BY <2>3, <2>5, <4>2
      <4> QED
        BY <2>10, <3>2, <4>2, <4>3
    <3>5. CASE j = Len(rest) /\ HeldBack(rest)
      <4>1. Round(s) = then(<<>>, <<>>, rest)
        BY <2>2, <2>17, <3>5
      <4>2. Quiet => Confined(T0, Fed(T1, <<>>), z, c)
        BY <2>11, <2>14
      <4> HIDE DEF then
      <4> QED
        BY <2>7, <2>13, <2>14, <4>1, <4>2
    \* The child's sequence that starts after c goes out as it is, up to e.
    <3>6. ASSUME \/ j > MaxHeld
                 \/ ~Continues(j + 1, z[c + j + 1]) /\ ~(j > 1 /\ z[c + j + 1] = "r"),
                 Quiet
          PROVE  Confined(T0, Fed(T1, SubSeq(z, c + 1, c + j)), z, c + j)
      <4>1. /\ Harmless(1, z, c + 1)
            /\ \A i \in (c + 1) + 1 .. c + j : z[i] # "ESC"
        BY <2>5, <3>3, <3>6, RunHarmless
      <4>2. Confined(T0, T1, z, c)
        BY <2>11, <3>6
      <4> DEFINE U == Fed(T1, SubSeq(z, c + 1, c + j))
      <4>3. IsTerm(U) /\ U.region = T1.region /\ Harmless(Len(U.partial), z, c + j)
        BY <2>5, <3>3, <4>1, <4>2, RunFed DEF Confined
      <4> HIDE DEF U
      <4>4. Confined(T0, U, z, c + j)
        BY <4>2, <4>3 DEF Confined
      <4> QED
        BY <4>4 DEF U
    <3>7. CASE j = Len(rest) /\ ~HeldBack(rest)
      <4>1. Round(s) = then(rest, <<>>, <<>>)
        BY <2>2, <2>17, <3>7
      <4>2. j > MaxHeld /\ c + j = N
        BY <2>3, <2>5, <2>10, <3>3, <3>7, MaxHeldAssumption DEF HeldBack
      <4>3. rest = SubSeq(z, c + 1, c + j)
        BY <2>7, <4>2
      <4>4. Quiet => Confined(T0, Fed(T1, rest), z, N)
        BY <3>6, <4>2, <4>3
      <4>5. rest \in Seq(OutByte)
        BY <2>10 DEF OutByte
      <4> HIDE DEF then
      <4> QED
        BY <2>13, <2>15, <4>1, <4>4, <4>5
    <3>8. CASE j # Len(rest) /\ j > 1 /\ rest[j + 1] = "r"
      <4> DEFINE p == SubSeq(rest, 3, j)
                 left == SubSeq(rest, j + 2, Len(rest))
                 n == c + j + 1
      <4>1. Round(s) = then(clampRegionSeq(p), left, <<>>)
        BY <2>2, <2>17, <3>8
      <4>2. p \in Seq(ParamByte)
        <5>1. 2 \in Nat /\ j \in 2 .. Len(rest)
          BY <3>2, <3>3, <3>8
        <5>2. SubSeq(rest, 2 + 1, j) \in Seq(Byte) /\ Len(SubSeq(rest, 2 + 1, j)) = j - 2
              /\ \A i \in 1 .. j - 2 : SubSeq(rest, 2 + 1, j)[i] = rest[2 + i]
          BY <2>10, <5>1, PartIs
        <5>3. p \in Seq(Byte) /\ Len(p) = j - 2 /\ \A i \in 1 .. j - 2 : p[i] = rest[2 + i]
          BY <5>2
        <5> HIDE DEF p
        <5>4. \A i \in 1 .. j - 2 : rest[2 + i] \in ParamByte
          <6> TAKE i \in 1 .. j - 2
          <6>1. 2 + i \in 2 .. j /\ 2 + i # 2
            BY <3>3
          <6>2. Continues(2 + i, rest[2 + i])
            BY <3>2, <6>1
          <6> QED
            BY <6>1, <6>2, Zenon DEF Continues
        <5>5. \A i \in 1 .. Len(p) : p[i] \in ParamByte
          BY <5>3, <5>4
        <5> QED
          BY <5>3, <5>5
      <4>3. left = SubSeq(z, n + 1, N)
        <5> DEFINE o == j + 1
        <5>1. o \in Nat /\ N - c \in o .. N - c /\ N \in c .. Len(z) /\ c + (N - c) = N
              /\ (c + o) + 1 = n + 1 /\ o + 1 = j + 2
          BY <2>3, <2>5, <2>10, <3>3, <3>4, <3>8
        <5> HIDE DEF o
        <5>2. SubSeq(SubSeq(z, c + 1, N), o + 1, N - c) = SubSeq(z, (c + o) + 1, c + (N - c))
          BY <2>5, <5>1, PartOfPart
        <5> QED
          BY <2>7, <2>10, <5>1, <5>2
      <4>4. Quiet => Confined(T0, Fed(T1, clampRegionSeq(p)), z, n)
        <5>1. n \in Nat
          BY <2>5, <3>3
        <5> HIDE DEF n, p
        <5> QED
          BY <2>5, <2>11, <3>3, <4>2, <5>1, RegionTurn
      <4>5. clampRegionSeq(p) \in Seq(OutByte)
        <5> HIDE DEF p
        <5>1. \A top, bot \in 1 .. 9 : RegionSeq(top, bot) \in Seq(OutByte)
          BY BytesApart DEF RegionSeq, OutByte, CsiByte
        <5> QED
          BY <2>14, <4>2, <5>1, ClampedIs
      <4>6. n \in 0 .. N /\ n > k
        BY <2>3, <2>5, <3>3, <3>4, <3>8
      <4> HIDE DEF then, p, left, n
      <4> QED
        BY <2>13, <4>1, <4>3, <4>4, <4>5, <4>6
    <3>9. CASE j # Len(rest) /\ ~(j > 1 /\ rest[j + 1] = "r")
      <4> DEFINE w == SubSeq(rest, 1, j)
                 left == SubSeq(rest, j + 1, Len(rest))
                 n == c + j
      <4>1. Round(s) = then(w, left, <<>>)
        BY <2>2, <2>17, <3>9
      <4>2. w = SubSeq(z, c + 1, n)
        <5> DEFINE o == 0
        <5>1. o \in Nat /\ j \in o .. N - c /\ N \in c .. Len(z) /\ o + 1 = 1 /\ (c + o) + 1 = c + 1
          BY <2>3, <2>5, <3>3
        <5> HIDE DEF o
        <5>2. SubSeq(SubSeq(z, c + 1, N), o + 1, j) = SubSeq(z, (c + o) + 1, c + j)
          BY <2>5, <5>1, PartOfPart
        <5> QED
          BY <2>7, <5>1, <5>2
      <4>3. left = SubSeq(z, n + 1, N)
        <5>1. j \in Nat /\ N - c \in j .. N - c /\ N \in c .. Len(z) /\ c + (N - c) = N
          BY <2>3, <2>5, <3>3
        <5>2. SubSeq(SubSeq(z, c + 1, N), j + 1, N - c) = SubSeq(z, (c + j) + 1, c + (N - c))
          BY <2>5, <5>1, PartOfPart
        <5> QED
          BY <2>7, <2>10, <5>1, <5>2
      <4>4. Quiet => Confined(T0, Fed(T1, w), z, n)
        BY <3>4, <3>6, <3>9, <4>2
      <4>5. w \in Seq(OutByte)
        <5>1. w \in Seq(Byte)
          <6>1. n \in c .. Len(z)
            BY <2>5, <3>3
          <6> QED
            BY <2>5, <4>2, <6>1, PartIs
        <5> QED
          BY <5>1 DEF OutByte
      <4>6. n \in 0 .. N /\ n > k
        BY <2>3, <2>5, <3>3
      <4> HIDE DEF then, w, left, n
      <4> QED
        BY <2>13, <4>1, <4>3, <4>4, <4>5, <4>6
    <3> QED
      BY <3>5, <3>7, <3>8, <3>9
  <2> QED
    BY <2>16, <2>17
<1> QED
  BY <1>1, <1>2

\* The loop as a whole: of the first N bytes of z some are written, and the others
\* held back.
LEMMA ClampConfines ==
    ASSUME rows \in Nat, childBottom \in 0 .. 9, NEW z \in Seq(Byte), Clean(z),
           NEW N \in 0 .. Len(z), NEW T0, Quiet => Confined(T0, T0, z, 0)
    PROVE  LET clamped == ClampScrollRegions(SubSeq(z, 1, N))
           IN  \E k \in 0 .. N : /\ clamped.pend = SubSeq(z, k + 1, N)
                                 /\ Quiet => Confined(T0, Fed(T0, clamped.out), z, k)
<1> DEFINE d == SubSeq(z, 1, N)
<1>1. d \in Seq(Byte) /\ Len(d) = N /\ N \in Nat
  OBVIOUS
<1> HIDE DEF d
<1>2. PICK f : /\ f[0] = [data |-> d, out |-> <<>>, pend |-> <<>>]
               /\ \A n \in 1 .. Len(d) : f[n] = Round(f[n - 1])
               /\ ClampScrollRegions(d) = f[Len(d)]
  <2>1. Len(d) \in Nat
    BY <1>1
  <2> QED
    BY <2>1, ClampSteps
<1> DEFINE Good(n) == \E k \in 0 .. N : Turn(f[n], z, N, T0, k) /\ (f[n].data = <<>> \/ k >= n)
           A == {n \in Nat : n <= N => Good(n)}
<1>3. Good(0)
  <2>1. f[0].data = d /\ f[0].out = <<>> /\ f[0].pend = <<>>
    BY <1>2
  <2>2. Fed(T0, <<>>) = T0 /\ <<>> \in Seq(OutByte) /\ 0 \in 0 .. N /\ 0 >= 0
    BY <1>1, FedNothing
  <2>3. d = SubSeq(z, 0 + 1, N)
    BY DEF d
  <2>4. Turn(f[0], z, N, T0, 0)
    BY <2>1, <2>2, <2>3 DEF Turn
  <2> QED
    BY <2>2, <2>4
<1>4. ASSUME NEW n \in Nat, n \in A PROVE n + 1 \in A
  <2> SUFFICES ASSUME n + 1 <= N PROVE Good(n + 1)
    OBVIOUS
  <2>1. f[n + 1] = Round(f[n])
    <3>1. n + 1 \in 1 .. Len(d) /\ (n + 1) - 1 = n
      BY <1>1
    <3> QED
      BY <1>2, <3>1
  <2>2. PICK k \in 0 .. N : Turn(f[n], z, N, T0, k) /\ (f[n].data = <<>> \/ k >= n)
    BY <1>1, <1>4
  <2> DEFINE s == f[n]
  <2>3. Turn(s, z, N, T0, k) /\ f[n + 1] = Round(s)
    BY <2>1, <2>2
  <2>4. s.data = <<>> => Round(s).data = <<>>
    <3>1. s.data = <<>> => Round(s) = s
      BY Zenon DEF Round
    <3> QED
      BY <3>1
  <2>5. s.data = <<>> \/ k >= n
    BY <2>2
  <2> HIDE DEF s
  <2>6. PICK i \in 0 .. N : /\ Turn(Round(s), z, N, T0, i)
                            /\ Round(s).data = <<>> \/ i > k
    BY <2>3, RoundTurn
  <2>7. Round(s).data = <<>> \/ i >= n + 1
    BY <1>1, <2>4, <2>5, <2>6
  <2> QED
    BY <2>3, <2>6, <2>7
<1>5. Good(N)
  <2>1. 0 \in A /\ (N \in A => Good(N))
    BY <1>1, <1>3
  <2> HIDE DEF A, Good
  <2> QED
    BY <1>1, <1>4, <2>1, NatInduct
<1>6. PICK k \in 0 .. N : Turn(f[N], z, N, T0, k) /\ (f[N].data = <<>> \/ k >= N)
  BY <1>5
<1>7. f[N].pend = SubSeq(z, k + 1, N)
  <2>1. CASE f[N].data = <<>> /\ f[N].pend = SubSeq(z, k + 1, N)
    BY <2>1
  <2>2. CASE f[N].data = SubSeq(z, k + 1, N) /\ f[N].pend = <<>>
    <3>1. k = N
      <4>1. CASE f[N].data = <<>>
        <5>1. Len(SubSeq(z, k + 1, N)) = N - k
          <6>1. k \in Nat /\ N \in k .. Len(z)
            BY <1>1
          <6> QED
            BY <6>1, PartIs
        <5>2. N - k = 0
          BY <2>2, <4>1, <5>1
        <5> QED
          BY <1>1, <5>2
      <4>2. CASE k >= N
        BY <1>1, <4>2
      <4> QED
        BY <1>6, <4>1, <4>2
    <3>2. SubSeq(z, N + 1, N) = <<>>
      BY <1>1
    <3> QED
      BY <2>2, <3>1, <3>2
  <2> QED
    BY <1>6, <2>1, <2>2 DEF Turn
<1>8. ClampScrollRegions(d) = f[N]
  BY <1>1, <1>2
<1>9. /\ ClampScrollRegions(d).pend = SubSeq(z, k + 1, N)
      /\ Quiet => Confined(T0, Fed(T0, ClampScrollRegions(d).out), z, k)
  BY <1>6, <1>7, <1>8 DEF Turn
<1> QED
  BY <1>9 DEF d

\* What the child has written, as far as the terminal has not: what the clamp holds
\* back and what the pty still has begin no harmful sequence, and with what the
\* terminal has read they make none.
OutputInv ==
    /\ pend \in Seq(Byte)
    /\ Clean(pend \o pty)
    /\ Quiet => /\ IsTerm([region |-> region, partial |-> partial])
                /\ Harmless(Len(partial), pend \o pty, 0)

-----------------------------------------------------------------------------
(* Steps, as far as the invariants need them.                              *)

\* A read of the child's output takes some of it, and changes only the terminal
\* besides.
LEMMA CopyLeaves ==
    ASSUME CopyChild
    PROVE  /\ UNCHANGED <<rows, winch, pc, size, seen, visible, childBottom, toggling,
                          screen, ptyRows, stale, crossed>>
           /\ pc.run = "child"
           /\ \E n \in 1 .. Len(pty) : pty' = SubSeq(pty, n + 1, Len(pty))
BY Zenon DEF CopyChild, PassOn, history

LEMMA LastRowType ==
    ASSUME NEW r \in 0 .. 9
    PROVE  LastRow(r) \in Nat /\ LastRow(r) \in 0 .. 9 /\ (LastRow(r) > 1 => LastRow(r) < r)
BY HeightAssumption DEF LastRow

LEMMA TypesStep ==
    ASSUME Types, Next
    PROVE  Types'
<1>1. height \in Nat /\ Rows \subseteq 1 .. 9
  BY RowsAssumption, HeightAssumption
<1>2. \A p \in Setter : LastRow(size[p]) \in 0 .. 9 /\ LastRow(size[p]) \in Nat
  BY LastRowType DEF Types
<1>3. CASE Resize
  BY <1>1, <1>3 DEF Resize, Notify, Types, child
<1>4. CASE TakeSignal
  BY <1>4 DEF TakeSignal, Goto, Types, terminal, child, Setter, SetterLabel
<1>5. CASE resizePty
  BY <1>2, <1>5 DEF resizePty, Goto, Types, terminal, Setter, SetterLabel
<1>6. ASSUME NEW p \in Setter, GetSize(p) PROVE Types'
  BY <1>6 DEF GetSize, Goto, Types, terminal, child, Setter, SetterLabel
<1>7. ASSUME NEW p \in Setter, ReadVisible(p) PROVE Types'
  BY <1>7 DEF ReadVisible, Goto, Types, terminal, child, Setter, SetterLabel
<1>8. ASSUME NEW p \in Setter, setScrollRegion(p) PROVE Types'
  BY <1>2, <1>8 DEF setScrollRegion, Draw, Goto, Types, child, Setter, SetterLabel
<1>9. CASE ClearScreen
  BY <1>9 DEF ClearScreen, Draw, Goto, Types, child, Setter, SetterLabel
<1>10. CASE startProgram
  BY <1>10 DEF startProgram, Goto, Types, terminal, child, Setter, SetterLabel
<1>11. CASE ChildExits
  BY <1>11 DEF ChildExits, Goto, Types, terminal, child, Setter, SetterLabel
<1>12. CASE resetScrollRegion
  BY <1>12 DEF resetScrollRegion, Draw, Goto, Types, child, Setter, SetterLabel
<1>13. ASSUME NEW t \in Toggler, SetVisible(t) PROVE Types'
  BY <1>13 DEF SetVisible, Types, terminal, child
<1>14. ASSUME NEW t \in Toggler, drawDivider(t) PROVE Types'
  BY <1>14 DEF drawDivider, Draw, Types, terminal, child
<1>15. ASSUME NEW t \in Toggler, clearBottomRows(t) PROVE Types'
  BY <1>15 DEF clearBottomRows, Draw, Types, child
<1>16. CASE WriteFrame
  BY <1>16 DEF WriteFrame, Draw, Types, child
<1>17. CASE ChildWrites
  BY <1>17, ChildAssumption DEF ChildWrites, Types, terminal
<1>18. CASE CopyChild
  <2>1. PICK n \in 1 .. Len(pty) : pty' = SubSeq(pty, n + 1, Len(pty))
    BY <1>18, CopyLeaves
  <2>2. pty' \in Seq(Byte)
    BY <2>1 DEF Types
  <2> QED
    BY <1>18, <2>2, CopyLeaves DEF Types
<1> QED
  BY <1>3, <1>4, <1>5, <1>6, <1>7, <1>8, <1>9, <1>10, <1>11, <1>12, <1>13, <1>14,
     <1>15, <1>16, <1>17, <1>18 DEF Next

LEMMA TypesHold == Spec => []Types
<1>1. Init => Types
  BY RowsAssumption DEF Init, Types, Setter, SetterLabel
<1>2. Types /\ [Next]_vars => Types'
  <2>1. ASSUME Types, UNCHANGED vars PROVE Types'
    BY <2>1 DEF Types, vars
  <2> QED
    BY <2>1, TypesStep
<1> QED
  BY <1>1, <1>2, PTL DEF Spec

-----------------------------------------------------------------------------
(* What is in the reserved rows.                                           *)

LEMMA HiddenStep ==
    ASSUME Types, HiddenInv, Next
    PROVE  HiddenInv'
\* Steps that show and hide nothing, and leave drawing to nobody new.
<1>1. ASSUME visible' = visible, crossed' = crossed, toggling' = toggling,
             screen' \subseteq screen,
             \A p \in Setter : pc'[p] = "region" => seen'[p] = seen[p] /\ pc[p] = "region"
      PROVE  HiddenInv'
  <2>1. screen = {} => screen' = {}
    BY <1>1
  <2> QED
    BY <1>1, <2>1 DEF HiddenInv
<1>2. CASE Resize
  BY <1>1, <1>2 DEF Resize, history
<1>3. CASE TakeSignal
  BY <1>1, <1>3 DEF TakeSignal, Goto, Types, Setter, history
<1>4. CASE resizePty
  BY <1>1, <1>4 DEF resizePty, Goto, Types, Setter, history
<1>5. ASSUME NEW p \in Setter, GetSize(p) PROVE HiddenInv'
  BY <1>1, <1>5 DEF GetSize, Goto, Types, Setter, history
<1>6. ASSUME NEW p \in Setter, ReadVisible(p) PROVE HiddenInv'
  <2>1. seen'[p] = visible /\ \A q \in Setter \ {p} : seen'[q] = seen[q] /\ pc'[q] = pc[q]
    BY <1>6 DEF ReadVisible, Goto, Types
  <2>2. UNCHANGED <<visible, crossed, toggling, screen>>
    BY <1>6 DEF ReadVisible, history
  <2> QED
    BY <2>1, <2>2 DEF HiddenInv
<1>7. ASSUME NEW p \in Setter, setScrollRegion(p) PROVE HiddenInv'
  <2>1. /\ pc[p] = "region" /\ pc'[p] # "region"
        /\ \A q \in Setter \ {p} : seen'[q] = seen[q] /\ pc'[q] = pc[q]
        /\ UNCHANGED <<visible, crossed, toggling>>
        /\ ~seen[p] => screen' = screen
    BY <1>7 DEF setScrollRegion, Goto, Types
  <2> QED
    BY <2>1 DEF HiddenInv
<1>8. CASE ClearScreen
  BY <1>1, <1>8 DEF ClearScreen, Goto, Types, Setter, history
<1>9. CASE startProgram
  BY <1>1, <1>9 DEF startProgram, Goto, Types, Setter, history
<1>10. CASE ChildExits
  BY <1>1, <1>10 DEF ChildExits, Goto, Types, Setter, history
<1>11. CASE resetScrollRegion
  BY <1>1, <1>11 DEF resetScrollRegion, Goto, Types, Setter, history
<1>12. ASSUME NEW t \in Toggler, SetVisible(t) PROVE HiddenInv'
  <2>1. CASE visible
    <3>1. /\ toggling' = [toggling EXCEPT ![t] = "clear"]
          /\ pc' = pc /\ (crossed' <=> AboutToDraw)
      BY <1>12, <2>1 DEF SetVisible
    <3>2. toggling'[t] # "nothing"
      BY <3>1 DEF Types
    <3>3. ~crossed' => /\ \A u \in Toggler : toggling'[u] # "divider"
                       /\ \A p \in Setter : pc'[p] # "region"
      BY <3>1 DEF AboutToDraw, Types
    <3> QED
      BY <3>2, <3>3 DEF HiddenInv
  <2>2. CASE ~visible
    <3>1. visible'
      BY <1>12, <2>2, Zenon DEF SetVisible
    <3> QED
      BY <3>1 DEF HiddenInv
  <2> QED
    BY <2>1, <2>2
<1>13. ASSUME NEW t \in Toggler, drawDivider(t) PROVE HiddenInv'
  BY <1>13 DEF drawDivider, HiddenInv, history
<1>14. ASSUME NEW t \in Toggler, clearBottomRows(t) PROVE HiddenInv'
  BY <1>14 DEF clearBottomRows, HiddenInv, history, Types
<1>15. CASE WriteFrame
  BY <1>15 DEF WriteFrame, FrameShown, HiddenInv, history
<1>16. CASE ChildWrites
  BY <1>1, <1>16 DEF ChildWrites, history
<1>17. CASE CopyChild
  BY <1>1, <1>17, CopyLeaves
<1> QED
  BY <1>2, <1>3, <1>4, <1>5, <1>6, <1>7, <1>8, <1>9, <1>10, <1>11, <1>12, <1>13,
     <1>14, <1>15, <1>16, <1>17 DEF Next

\* A hidden overlay leaves nothing in the reserved rows, whoever hides and shows
\* it and however its frames, its divider and its erasing interleave.
THEOREM HiddenStaysBlank == Spec => []HiddenIsBlank
<1>1. Init => HiddenInv
  BY DEF Init, HiddenInv
<1>2. Types /\ HiddenInv /\ [Next]_vars => HiddenInv'
  <2>1. ASSUME HiddenInv, UNCHANGED vars PROVE HiddenInv'
    BY <2>1 DEF HiddenInv, vars
  <2> QED
    BY <2>1, HiddenStep
<1>3. HiddenInv => HiddenIsBlank
  BY DEF HiddenInv, HiddenIsBlank
<1> QED
  BY <1>1, <1>2, <1>3, TypesHold, PTL DEF Spec

-----------------------------------------------------------------------------
(* The output of the child.                                                *)

\* A read of the pty: what the clamp holds back and what the pty still has are an
\* end of what they were.
LEMMA CopyConfines ==
    ASSUME Types, OutputInv, CopyChild
    PROVE  /\ pend' \in Seq(Byte) /\ Clean(pend' \o pty')
           /\ Quiet => /\ IsTerm([region |-> region', partial |-> partial'])
                       /\ Harmless(Len(partial'), pend' \o pty', 0)
                       /\ region' # region => region'[2] <= childBottom
<1> DEFINE z == pend \o pty
           T0 == [region |-> region, partial |-> partial]
<1>1. PICK n \in 1 .. Len(pty) :
        LET clamped == ClampScrollRegions(pend \o SubSeq(pty, 1, n))
        IN  /\ pty' = SubSeq(pty, n + 1, Len(pty))
            /\ pend' = clamped.pend
            /\ PassOn(clamped.out)
  BY DEF CopyChild
<1> DEFINE N == Len(pend) + n
<1>2. /\ pend \in Seq(Byte) /\ pty \in Seq(Byte) /\ z \in Seq(Byte) /\ Len(z) = Len(pend) + Len(pty)
      /\ N \in 0 .. Len(z) /\ N \in Nat
  BY DEF Types, OutputInv
<1>3. SubSeq(z, 1, N) = pend \o SubSeq(pty, 1, n)
  <2> DEFINE u == SubSeq(z, 1, N)
             v == SubSeq(pty, 1, n)
             w == pend \o v
  <2>1. u \in Seq(Byte) /\ Len(u) = N /\ \A i \in 1 .. N : u[i] = z[i]
    BY <1>2
  <2>2. v \in Seq(Byte) /\ Len(v) = n /\ \A i \in 1 .. n : v[i] = pty[i]
    BY <1>2
  <2>3. /\ \A i \in 1 .. Len(pend) : z[i] = pend[i]
        /\ \A i \in 1 .. Len(pty) : z[Len(pend) + i] = pty[i]
    BY <1>2
  <2> HIDE DEF u, v
  <2>4. /\ w \in Seq(Byte) /\ Len(w) = N /\ \A i \in 1 .. Len(pend) : w[i] = pend[i]
        /\ \A i \in 1 .. n : w[Len(pend) + i] = v[i]
    <3>1. pend \in Seq(Byte) /\ n \in Nat
      BY <1>2
    <3> HIDE DEF z
    <3> QED
      BY <2>2, <3>1
  <2> HIDE DEF w, z
  <2>5. \A i \in 1 .. N : u[i] = w[i]
    <3> TAKE i \in 1 .. N
    <3>1. CASE i <= Len(pend)
      <4>1. i \in 1 .. Len(pend)
        BY <1>2, <3>1
      <4> QED
        BY <2>1, <2>3, <2>4, <4>1
    <3>2. CASE i > Len(pend)
      <4> DEFINE e == i - Len(pend)
      <4>1. e \in 1 .. n /\ Len(pend) + e = i /\ e \in 1 .. Len(pty)
        BY <1>2, <3>2
      <4> HIDE DEF e
      <4>2. u[i] = pty[e]
        BY <2>1, <2>3, <4>1
      <4>3. w[i] = pty[e]
        BY <2>2, <2>4, <4>1
      <4> QED
        BY <4>2, <4>3
    <3> QED
      BY <1>2, <3>1, <3>2
  <2>6. u = w
    BY <2>1, <2>4, <2>5
  <2> QED
    BY <2>6 DEF u, v, w
<1>4. rows \in Nat /\ childBottom \in 0 .. 9 /\ Clean(z)
  BY DEF Types, OutputInv
<1>5. Quiet => Confined(T0, T0, z, 0)
  BY DEF OutputInv, Confined, IsTerm
<1>6. T0.region = region /\ T0 = [region |-> region, partial |-> partial]
  OBVIOUS
<1> HIDE DEF z, T0, N
<1>7. PICK k \in 0 .. N :
        /\ ClampScrollRegions(SubSeq(z, 1, N)).pend = SubSeq(z, k + 1, N)
        /\ Quiet => Confined(T0, Fed(T0, ClampScrollRegions(SubSeq(z, 1, N)).out), z, k)
  BY <1>2, <1>4, <1>5, ClampConfines
<1> DEFINE T == Fed(T0, ClampScrollRegions(SubSeq(z, 1, N)).out)
<1>8. /\ pend' = SubSeq(z, k + 1, N) /\ region' = T.region /\ partial' = T.partial
      /\ pty' = SubSeq(pty, n + 1, Len(pty))
  BY <1>1, <1>3, <1>6, <1>7 DEF PassOn
<1>9. pend' \o pty' = SubSeq(z, k + 1, Len(z)) /\ pend' \in Seq(Byte) /\ k \in 0 .. Len(z) /\ k \in Nat
  <2>1. k \in Nat /\ N \in k .. Len(z)
    BY <1>2
  <2> DEFINE u == SubSeq(z, k + 1, N)
             v == SubSeq(pty, n + 1, Len(pty))
             w == SubSeq(z, k + 1, Len(z))
  <2>2. u \in Seq(Byte) /\ Len(u) = N - k /\ \A i \in 1 .. N - k : u[i] = z[k + i]
    BY <1>2, <2>1, PartIs
  <2>3. w \in Seq(Byte) /\ Len(w) = Len(z) - k /\ \A i \in 1 .. Len(z) - k : w[i] = z[k + i]
    BY <1>2, <2>1, PartIs
  <2>4. v \in Seq(Byte) /\ Len(v) = Len(pty) - n /\ \A i \in 1 .. Len(pty) - n : v[i] = pty[n + i]
    <3>1. n \in Nat /\ Len(pty) \in n .. Len(pty)
      BY <1>2
    <3> QED
      BY <1>2, <3>1, PartIs
  <2>5. \A i \in 1 .. Len(pty) : z[Len(pend) + i] = pty[i]
    BY <1>2 DEF z
  <2>6. N = Len(pend) + n /\ Len(pend) \in Nat /\ Len(pty) \in Nat
    BY <1>2 DEF N
  <2> HIDE DEF u, v, w
  <2> DEFINE x == u \o v
  <2>7. /\ x \in Seq(Byte) /\ Len(x) = Len(u) + Len(v)
        /\ \A i \in 1 .. Len(u) : x[i] = u[i]
        /\ \A i \in 1 .. Len(v) : x[Len(u) + i] = v[i]
    <3>1. u \in Seq(Byte) /\ v \in Seq(Byte)
      BY <2>2, <2>4
    <3> QED
      BY <3>1
  <2> HIDE DEF x
  <2>8. Len(x) = Len(z) - k
    BY <1>2, <2>1, <2>2, <2>4, <2>6, <2>7
  <2>9. \A i \in 1 .. Len(z) - k : x[i] = w[i]
    <3> TAKE i \in 1 .. Len(z) - k
    <3>1. CASE i <= N - k
      <4>1. i \in 1 .. N - k
        BY <3>1
      <4> QED
        BY <2>2, <2>3, <2>7, <4>1
    <3>2. CASE i > N - k
      <4> DEFINE e == i - (N - k)
      <4>1. e \in 1 .. Len(pty) - n /\ (N - k) + e = i /\ k + i = Len(pend) + (n + e)
            /\ n + e \in 1 .. Len(pty)
        BY <1>2, <2>1, <2>6, <3>2
      <4> HIDE DEF e
      <4>2. x[i] = pty[n + e]
        BY <2>2, <2>4, <2>7, <4>1
      <4>3. w[i] = pty[n + e]
        BY <2>3, <2>5, <4>1
      <4> QED
        BY <4>2, <4>3
    <3>3. i <= N - k \/ i > N - k
      BY <1>2, <2>1
    <3> QED
      BY <3>1, <3>2, <3>3
  <2>10. x = w
    <3>1. /\ x \in Seq(Byte) /\ w \in Seq(Byte) /\ Len(x) = Len(w)
          /\ \A i \in 1 .. Len(w) : x[i] = w[i]
      BY <2>3, <2>7, <2>8, <2>9
    <3> QED
      BY <3>1
  <2>11. pend' = u /\ pty' = v
    BY <1>8 DEF u, v
  <2>12. pend' \o pty' = w /\ pend' \in Seq(Byte)
    BY <2>2, <2>10, <2>11 DEF x
  <2> QED
    BY <1>2, <2>1, <2>12 DEF w
<1>10. Clean(pend' \o pty')
  BY <1>2, <1>4, <1>9, CleanShift
<1>11. ASSUME Quiet
       PROVE  /\ IsTerm([region |-> region', partial |-> partial'])
              /\ Harmless(Len(partial'), pend' \o pty', 0)
              /\ region' # region => region'[2] <= childBottom
  <2>1. IsTerm(T) /\ (T.region = region \/ T.region[2] <= childBottom) /\ Harmless(Len(T.partial), z, k)
    BY <1>6, <1>7, <1>11 DEF Confined
  <2> HIDE DEF T
  <2>2. Len(T.partial) \in Nat
    BY <2>1 DEF IsTerm
  <2>3. Harmless(Len(T.partial), SubSeq(z, k + 1, Len(z)), 0)
    BY <1>2, <1>9, <2>1, <2>2, HarmlessShift
  <2>4. IsTerm([region |-> region', partial |-> partial'])
    BY <1>8, <2>1 DEF IsTerm
  <2> QED
    BY <1>8, <1>9, <2>1, <2>3, <2>4
<1> QED
  BY <1>9, <1>10, <1>11

\* Steps that write whole sequences to the terminal, or nothing.
LEMMA OutputKept ==
    ASSUME OutputInv, UNCHANGED <<pend, pty>>,
           partial' = <<>> \/ (partial' = partial /\ childBottom' = childBottom)
    PROVE  OutputInv'
<1>1. pend' \o pty' = pend \o pty /\ (Uninterrupted' <=> Uninterrupted)
  OBVIOUS
<1>2. Clean(pend' \o pty') /\ pend' \in Seq(Byte)
  BY <1>1 DEF OutputInv
<1>3. CASE partial' = <<>>
  <2>1. IsTerm([region |-> region', partial |-> partial']) /\ Harmless(Len(partial'), pend' \o pty', 0)
    BY <1>3 DEF IsTerm, Harmless
  <2> QED
    BY <1>2, <2>1 DEF OutputInv
<1>4. CASE partial' = partial /\ childBottom' = childBottom
  <2>1. Quiet' <=> Quiet
    BY <1>4 DEF Quiet
  <2>2. Quiet => /\ partial \in Seq(CsiByte)
                 /\ Harmless(Len(partial'), pend' \o pty', 0)
    BY <1>1, <1>4 DEF OutputInv, IsTerm
  <2>3. Quiet => IsTerm([region |-> region', partial |-> partial'])
    BY <1>4, <2>2 DEF IsTerm
  <2> QED
    BY <1>2, <2>1, <2>2, <2>3 DEF OutputInv
<1> QED
  BY <1>3, <1>4

LEMMA OutputStep ==
    ASSUME Types, OutputInv, Next
    PROVE  OutputInv'
<1>1. CASE Resize
  BY <1>1, OutputKept DEF Resize, child
<1>2. CASE TakeSignal
  BY <1>2, OutputKept DEF TakeSignal, terminal, child
<1>3. CASE resizePty
  BY <1>3, OutputKept DEF resizePty, terminal
<1>4. ASSUME NEW p \in Setter, GetSize(p) PROVE OutputInv'
  BY <1>4, OutputKept DEF GetSize, terminal, child
<1>5. ASSUME NEW p \in Setter, ReadVisible(p) PROVE OutputInv'
  BY <1>5, OutputKept DEF ReadVisible, terminal, child
<1>6. ASSUME NEW p \in Setter, setScrollRegion(p) PROVE OutputInv'
  BY <1>6, OutputKept DEF setScrollRegion, Draw, child
<1>7. CASE ClearScreen
  BY <1>7, OutputKept DEF ClearScreen, Draw, child
<1>8. CASE startProgram
  BY <1>8, OutputKept DEF startProgram, terminal, child
<1>9. CASE ChildExits
  BY <1>9, OutputKept DEF ChildExits, terminal, child
<1>10. CASE resetScrollRegion
  BY <1>10, OutputKept DEF resetScrollRegion, Draw, child
<1>11. ASSUME NEW t \in Toggler, SetVisible(t) PROVE OutputInv'
  BY <1>11, OutputKept DEF SetVisible, terminal, child
<1>12. ASSUME NEW t \in Toggler, drawDivider(t) PROVE OutputInv'
  BY <1>12, OutputKept DEF drawDivider, Draw, terminal, child
<1>13. ASSUME NEW t \in Toggler, clearBottomRows(t) PROVE OutputInv'
  BY <1>13, OutputKept DEF clearBottomRows, Draw, child
<1>14. CASE WriteFrame
  BY <1>14, OutputKept DEF WriteFrame, Draw, child
<1>15. CASE ChildWrites
  <2>1. /\ pty = <<>> /\ pty' \in ChildSequences /\ pend' = pend /\ partial' = partial
        /\ childBottom' = childBottom /\ region' = region
    BY <1>15 DEF ChildWrites, terminal
  <2>2. pty' \in Seq(Byte) /\ Clean(pty')
    BY <2>1, ChildIsClean
  <2>3. pend \in Seq(Byte) /\ pend \o pty = pend
    BY <2>1 DEF OutputInv
  <2>4. Clean(pend \o pty')
    BY <2>2, <2>3, CleanConcat DEF OutputInv
  <2>5. Quiet => Harmless(Len(partial), pend \o pty', 0)
    <3> SUFFICES ASSUME Quiet PROVE Harmless(Len(partial), pend \o pty', 0)
      OBVIOUS
    <3>1. Harmless(Len(partial), pend, 0) /\ partial \in Seq(CsiByte)
      BY <2>3 DEF OutputInv, IsTerm
    <3> DEFINE l == Len(partial)
               y == pty'
    <3>2. l \in Nat /\ Harmless(l, pend, 0) /\ y \in Seq(Byte)
      BY <2>2, <3>1
    <3> HIDE DEF l, y
    <3>3. Harmless(l, pend \o y, 0)
      BY <2>3, <3>2, HarmlessConcat
    <3> QED
      BY <3>3 DEF l, y
  <2>6. Quiet' <=> Quiet
    BY <2>1 DEF Quiet
  <2> QED
    BY <2>1, <2>3, <2>4, <2>5, <2>6 DEF OutputInv
<1>16. CASE CopyChild
  <2>1. childBottom' = childBottom
    BY <1>16, CopyLeaves
  <2>2. Quiet' <=> Quiet
    BY <2>1 DEF Quiet
  <2> QED
    BY <1>16, <2>2, CopyConfines DEF OutputInv
<1> QED
  BY <1>1, <1>2, <1>3, <1>4, <1>5, <1>6, <1>7, <1>8, <1>9, <1>10, <1>11, <1>12,
     <1>13, <1>14, <1>15, <1>16 DEF Next

LEMMA OutputHolds == Spec => []OutputInv
<1>1. Init => OutputInv
  <2> SUFFICES ASSUME Init PROVE OutputInv
    OBVIOUS
  <2>1. pend = <<>> /\ pty = <<>> /\ partial = <<>>
    BY DEF Init
  <2>2. pend \o pty = <<>> /\ Len(<<>>) = 0 /\ pend \in Seq(Byte)
    BY <2>1
  <2>3. Clean(pend \o pty)
    BY <2>2 DEF Clean
  <2> QED
    BY <2>1, <2>2, <2>3 DEF OutputInv, IsTerm, Harmless
<1>2. Types /\ OutputInv /\ [Next]_vars => OutputInv'
  <2>1. ASSUME OutputInv, UNCHANGED vars PROVE OutputInv'
    BY <2>1, OutputKept DEF vars
  <2> QED
    BY <2>1, OutputStep
<1> QED
  BY <1>1, <1>2, TypesHold, PTL DEF Spec

\* Only a read of its output takes from the child's pty.
LEMMA OnlyCopyTakes ==
    ASSUME Types, Next, Len(pty') < Len(pty)
    PROVE  CopyChild
<1>1. pty' # pty /\ Len(pty) # 0
  <2>1. Len(pty) \in Nat
    BY DEF Types
  <2>2. CASE ChildWrites
    <3>1. Len(pty') \in Nat /\ Len(pty) = 0
      BY <2>2, ChildAssumption DEF ChildWrites
    <3> QED
      BY <3>1
  <2>3. CASE CopyChild
    <3>1. PICK n \in 1 .. Len(pty) : TRUE
      BY <2>3, CopyLeaves
    <3> QED
      BY <2>1, <3>1
  <2> QED
    BY <2>1
<1> QED
  BY <1>1 DEF Next, Resize, TakeSignal, resizePty, GetSize, ReadVisible, setScrollRegion,
     ClearScreen, startProgram, ChildExits, resetScrollRegion, SetVisible, drawDivider,
     clearBottomRows, WriteFrame, ChildWrites, child

\* No region the child asks for takes in the reserved rows, wherever its output is
\* cut, if it begins no sequence within another: for any sequences it writes, any
\* number of bytes the clamp may hold back, and in any order of its output,
\* resizes and drawing.
THEOREM ChildIsConfined ==
    ASSUME Uninterrupted
    PROVE  Spec => RegionConfined
<1>1. Types /\ OutputInv /\ [Next]_vars
      => [Len(pty') < Len(pty) /\ region' # region => region'[2] <= childBottom]_vars
  <2> SUFFICES ASSUME Types, OutputInv, Next, Len(pty') < Len(pty), region' # region
               PROVE  region'[2] <= childBottom
    OBVIOUS
  <2> QED
    BY OnlyCopyTakes, CopyConfines DEF Quiet
<1> QED
  BY <1>1, TypesHold, OutputHolds, PTL DEF Spec, RegionConfined

\* Whatever the child writes, once there is room for a region the clamp keeps it
\* within the child's rows.
THEOREM RoomIsConfined ==
    Spec => [][CopyChild /\ childBottom > 1 /\ region' # region => region'[2] <= childBottom]_vars
<1>1. Types /\ OutputInv /\ [Next]_vars
      => [CopyChild /\ childBottom > 1 /\ region' # region => region'[2] <= childBottom]_vars
  BY CopyConfines DEF Quiet
<1> QED
  BY <1>1, TypesHold, OutputHolds, PTL DEF Spec

-----------------------------------------------------------------------------
(* The layout.                                                             *)

LEMMA LayoutStep ==
    ASSUME Types, LayoutInv, Next,
           CopyChild /\ childBottom > 1 /\ region' # region => region'[2] <= childBottom
    PROVE  LayoutInv'
<1>1. \A p \in Setter : size[p] \in Nat /\ LastRow(size[p]) \in Nat
                        /\ (LastRow(size[p]) > 1 => LastRow(size[p]) < size[p])
  <2>1. \A p \in Setter : size[p] \in 0 .. 9
    BY DEF Types
  <2> QED
    BY <2>1, LastRowType
<1>2. "resizer" \in Setter /\ "run" \in Setter
  BY DEF Setter
\* Steps that change no size and no layout.
<1>3. ASSUME UNCHANGED <<rows, winch, size, ptyRows, childBottom, stale, region>>,
             pc'.resizer = pc.resizer, pc'.run = "over" <=> pc.run = "over"
      PROVE  LayoutInv'
  BY <1>3 DEF LayoutInv, LastRow
<1>4. CASE Resize
  <2>1. winch'
    BY <1>4, Zenon DEF Resize, Notify
  <2> QED
    BY <2>1 DEF LayoutInv
<1>5. CASE TakeSignal
  BY <1>5, <1>2 DEF TakeSignal, Goto, Types, LayoutInv
<1>6. CASE resizePty
  BY <1>6, <1>2 DEF resizePty, Goto, Types, LayoutInv, terminal, LastRow
<1>7. ASSUME NEW p \in Setter, GetSize(p) PROVE LayoutInv'
  <2>1. CASE p = "resizer"
    BY <1>7, <1>2, <2>1 DEF GetSize, Goto, Types, LayoutInv, terminal, child, LastRow
  <2>2. CASE p = "run"
    BY <1>7, <1>2, <2>2 DEF GetSize, Goto, Types, LayoutInv, terminal, child, history, LastRow
  <2> QED
    BY <2>1, <2>2 DEF Setter
<1>8. ASSUME NEW p \in Setter, ReadVisible(p) PROVE LayoutInv'
  <2>1. CASE p = "resizer"
    BY <1>8, <1>2, <2>1 DEF ReadVisible, Goto, Types, LayoutInv, terminal, child, LastRow
  <2>2. CASE p = "run"
    BY <1>3, <1>8, <1>2, <2>2 DEF ReadVisible, Goto, Types, terminal, child, history
  <2> QED
    BY <2>1, <2>2 DEF Setter
<1>9. ASSUME NEW p \in Setter, setScrollRegion(p) PROVE LayoutInv'
  <2>1. /\ childBottom' = LastRow(size[p])
        /\ region' = Confine(region, 1, LastRow(size[p]))
        /\ UNCHANGED <<rows, winch, ptyRows>>
    BY <1>9 DEF setScrollRegion, Draw, child
  <2>2. size[p] = rows /\ LastRow(rows) > 1 => region'[2] = LastRow(rows)
    BY <1>1, <2>1 DEF Confine, Types
  <2>3. size[p] = rows => /\ childBottom' = LastRow(rows')
                          /\ LastRow(rows') > 1 => region'[2] <= LastRow(rows')
    BY <1>1, <2>1, <2>2 DEF LastRow, Types
  <2>4. CASE p = "resizer"
    BY <1>9, <1>2, <2>1, <2>3, <2>4 DEF setScrollRegion, Goto, Types, LayoutInv, LastRow
  <2>5. CASE p = "run"
    <3>1. stale' <=> size[p] # rows
      BY <1>9, <2>5 DEF setScrollRegion
    <3>2. pc'.resizer = pc.resizer /\ size'.resizer = size.resizer
      BY <1>9, <1>2, <2>5 DEF setScrollRegion, Goto, Types
    <3> QED
      BY <2>1, <2>3, <3>1, <3>2 DEF LayoutInv, LastRow
  <2> QED
    BY <2>4, <2>5 DEF Setter
<1>10. CASE ClearScreen
  BY <1>3, <1>2, <1>10 DEF ClearScreen, Draw, Goto, Types, child, history
<1>11. CASE startProgram
  BY <1>3, <1>2, <1>11 DEF startProgram, Goto, Types, terminal, child, history
<1>12. CASE ChildExits
  BY <1>3, <1>2, <1>12 DEF ChildExits, Goto, Types, terminal, child, history
<1>13. CASE resetScrollRegion
  BY <1>2, <1>13 DEF resetScrollRegion, Draw, Goto, Types, LayoutInv, child, history, LastRow
<1>14. ASSUME NEW t \in Toggler, SetVisible(t) PROVE LayoutInv'
  BY <1>3, <1>14 DEF SetVisible, terminal, child
<1>15. ASSUME NEW t \in Toggler, drawDivider(t) PROVE LayoutInv'
  BY <1>3, <1>15 DEF drawDivider, Draw, terminal, child, history
<1>16. ASSUME NEW t \in Toggler, clearBottomRows(t) PROVE LayoutInv'
  BY <1>3, <1>16 DEF clearBottomRows, Draw, child, history
<1>17. CASE WriteFrame
  BY <1>3, <1>17 DEF WriteFrame, Draw, child, history
<1>18. CASE ChildWrites
  BY <1>3, <1>18 DEF ChildWrites, terminal, history
<1>19. CASE CopyChild
  <2>1. childBottom > 1 => region' = region \/ region'[2] <= childBottom
    BY <1>19
  <2> QED
    BY <1>19, <2>1, CopyLeaves DEF LayoutInv, LastRow
<1> QED
  BY <1>4, <1>5, <1>6, <1>7, <1>8, <1>9, <1>10, <1>11, <1>12, <1>13, <1>14,
     <1>15, <1>16, <1>17, <1>18, <1>19 DEF Next

\* The child's pty, the clamp and the region agree with the height of the terminal
\* whenever the resize goroutine has served its signals, in every order of resizes,
\* reads of the size, layouts of the two goroutines and output of the child.
THEOREM LayoutAgrees == Spec => []RegionAgrees
<1>1. Init => LayoutInv
  <2>1. Init => winch
    BY Zenon DEF Init
  <2> QED
    BY <2>1 DEF LayoutInv
<1>2. Types /\ OutputInv /\ LayoutInv /\ [Next]_vars => LayoutInv'
  <2>1. ASSUME LayoutInv, UNCHANGED vars PROVE LayoutInv'
    BY <2>1 DEF LayoutInv, vars, LastRow
  <2>2. ASSUME Types, OutputInv, LayoutInv, Next PROVE LayoutInv'
    BY <2>2, LayoutStep, CopyConfines DEF Quiet
  <2> QED
    BY <2>1, <2>2
<1>3. LayoutInv => RegionAgrees
  BY DEF LayoutInv, RegionAgrees, Settled
<1> QED
  BY <1>1, <1>2, <1>3, TypesHold, OutputHolds, PTL DEF Spec
=============================================================================
