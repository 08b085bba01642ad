---------------------------- MODULE CommandsProofs ----------------------------
(***************************************************************************)
(* Proofs about the file system and the command line, for every image,     *)
(* line, block size and size of read.                                      *)
(***************************************************************************)
EXTENDS Commands, SequenceTheorems, NaturalsInduction, WellFoundedInduction, TLAPS

\* A set of numbers has a least one.
LEMMA LeastNumber ==
  ASSUME NEW S \in SUBSET Nat, S # {}
  PROVE  \E n \in S : \A m \in S : n <= m
<1> DEFINE Less == OpToRel(<, Nat)
<1>1. IsWellFoundedOn(Less, Nat)
  BY NatLessThanWellFounded
<1>2. \A m, n \in Nat : m < n => <<m, n>> \in Less
  BY DEF OpToRel
<1> HIDE DEF Less
<1>3. PICK n \in S : \A m \in S : <<m, n>> \notin Less
  BY <1>1, WFMin
<1>4. \A m \in S : ~(m < n)
  BY <1>2, <1>3
<1> QED BY <1>3, <1>4

\* Min picks it.
LEMMA MinIsLeast ==
  ASSUME NEW S \in SUBSET Nat, S # {}
  PROVE  Min(S) \in S /\ \A m \in S : Min(S) <= m
<1>1. \E n \in S : \A m \in S : n <= m
  BY LeastNumber
<1> QED BY <1>1 DEF Min

-----------------------------------------------------------------------------
(***************************************************************************)
(* Sequences.                                                              *)
(***************************************************************************)

\* Sequences are equal that have the same elements.
LEMMA SameSeq ==
  ASSUME NEW X, NEW x \in Seq(X), NEW y \in Seq(X), NEW n \in Nat,
         Len(x) = n, Len(y) = n, \A j \in 1 .. n : x[j] = y[j]
  PROVE  x = y
<1>1. Len(x) = Len(y) /\ \A j \in 1 .. Len(x) : x[j] = y[j]
  OBVIOUS
<1> QED BY <1>1

\* Appending stays in the sequences.
LEMMA AppendStays ==
  ASSUME NEW X, NEW s \in Seq(X), NEW x \in X
  PROVE  Append(s, x) \in Seq(X)
OBVIOUS

\* The elements of two sequences in a row.
LEMMA JoinFacts ==
  ASSUME NEW X, NEW x \in Seq(X), NEW y \in Seq(X), NEW a \in Nat, NEW c \in Nat,
         Len(x) = a, Len(y) = c
  PROVE  /\ x \o y \in Seq(X) /\ Len(x \o y) = a + c
         /\ \A j \in 1 .. a : (x \o y)[j] = x[j]
         /\ \A j \in 1 .. c : (x \o y)[a + j] = y[j]
<1>1. x \o y \in Seq(X) /\ Len(x \o y) = Len(x) + Len(y)
  OBVIOUS
<1>2. \A j \in 1 .. Len(x) : (x \o y)[j] = x[j]
  OBVIOUS
<1>3. \A j \in 1 .. Len(y) : (x \o y)[Len(x) + j] = y[j]
  OBVIOUS
<1> QED BY <1>1, <1>2, <1>3

-----------------------------------------------------------------------------
(***************************************************************************)
(* Names.                                                                  *)
(***************************************************************************)

\* A text is a sequence without NUL.
LEMMA TextFacts ==
  ASSUME NEW w, IsText(w)
  PROVE  w \in Seq(Chars) /\ Len(w) \in Nat /\ \A i \in 1 .. Len(w) : w[i] # NUL
<1>1. w \in Seq(Chars \ {NUL})
  BY DEF IsText
<1>2. w \in Seq(Chars)
  BY <1>1, SeqMonotonic
<1> QED BY <1>1, <1>2

\* A C string has its text, and then NUL.
LEMMA CStringFacts ==
  ASSUME NEW w, IsText(w)
  PROVE  /\ CString(w) \in Seq(Chars)
         /\ Len(CString(w)) = Len(w) + 1 /\ Len(w) \in Nat
         /\ \A i \in 1 .. Len(w) : CString(w)[i] = w[i] /\ CString(w)[i] # NUL
         /\ CString(w)[Len(w) + 1] = NUL
<1>1. w \in Seq(Chars) /\ Len(w) \in Nat /\ \A i \in 1 .. Len(w) : w[i] # NUL
  BY TextFacts
<1>2. NUL \in Chars
  BY FileSystemAssumption
<1>3. PICK u \in Seq(Chars) : u = <<NUL>> /\ Len(u) = 1 /\ u[1] = NUL
  <2>1. <<NUL>> \in Seq(Chars)
    BY <1>2
  <2>2. Len(<<NUL>>) = 1 /\ <<NUL>>[1] = NUL
    OBVIOUS
  <2> QED BY <2>1, <2>2
<1>4. /\ w \o u \in Seq(Chars) /\ Len(w \o u) = Len(w) + 1
      /\ \A i \in 1 .. Len(w) : (w \o u)[i] = w[i]
      /\ (w \o u)[Len(w) + 1] = u[1]
  BY <1>1, <1>3
<1> QED BY <1>1, <1>3, <1>4 DEF CString

\* Where strlen stops is the first NUL.
LEMMA StrlenIs ==
  ASSUME NEW s \in Seq(Chars), NEW n \in Nat, n < Len(s),
         s[n + 1] = NUL, \A i \in 1 .. n : s[i] # NUL
  PROVE  strlen(s) = n
<1> DEFINE S == {i \in 1 .. Len(s) : s[i] = NUL}
<1>0. Len(s) \in Nat
  OBVIOUS
<1>1. n + 1 \in S /\ S \in SUBSET Nat
  BY <1>0
<1>2. \A i \in S : i >= n + 1
  BY <1>0
<1> HIDE DEF S
<1>3. Min(S) \in S /\ Min(S) <= n + 1
  BY <1>1, MinIsLeast
<1>4. Min(S) = n + 1
  <2>1. Min(S) \in Nat /\ Min(S) >= n + 1
    BY <1>1, <1>2, <1>3
  <2> QED BY <1>3, <2>1
<1>5. Min(S) - 1 = n
  BY <1>4
<1> QED BY <1>5 DEF strlen, S

\* strlen of a C string is the length of its text.
LEMMA StrlenOfCString ==
  ASSUME NEW w, IsText(w)
  PROVE  strlen(CString(w)) = Len(w)
<1>1. /\ CString(w) \in Seq(Chars)
      /\ Len(CString(w)) = Len(w) + 1 /\ Len(w) \in Nat
      /\ \A i \in 1 .. Len(w) : CString(w)[i] # NUL
      /\ CString(w)[Len(w) + 1] = NUL
  BY CStringFacts
<1> DEFINE n == Len(w)
           s == CString(w)
<1> HIDE DEF n, s
<1>2. n \in Nat /\ s \in Seq(Chars) /\ Len(s) = n + 1 /\ s[n + 1] = NUL
        /\ \A i \in 1 .. n : s[i] # NUL
  BY <1>1 DEF n, s
<1>3. n < Len(s)
  BY <1>2
<1>4. strlen(s) = n
  BY <1>2, <1>3, StrlenIs
<1> QED BY <1>4 DEF n, s

(***************************************************************************)
(* What the code reads at an entry's filename: the clipped length is the   *)
(* name's, also of a name that fills the field and has no end in it.       *)
(***************************************************************************)
LEMMA FilenameFacts ==
  ASSUME NEW d, IsText(d.name), Len(d.name) <= FILENAME_LEN
  PROVE  /\ Clipped(strlen(Filename(d))) = Len(d.name)
         /\ \A i \in 1 .. Len(d.name) : Filename(d)[i] = d.name[i]
         /\ strlen(Filename(d)) \in Nat /\ Filename(d) \in Seq(Chars)
         /\ Len(Filename(d)) = FILENAME_LEN + 2
         /\ Len(d.name) < FILENAME_LEN => strlen(Filename(d)) = Len(d.name)
<1> DEFINE F == FILENAME_LEN
<1>0. F \in Nat /\ NUL \in Chars /\ TypeByte \in Chars
  BY FileSystemAssumption
<1>1. PICK w \in Seq(Chars), n \in Nat :
        /\ w = d.name /\ Len(w) = n /\ n <= F
        /\ \A i \in 1 .. n : w[i] # NUL
  BY TextFacts
<1>2. PICK pad \in Seq(Chars) :
        /\ pad = [k \in 1 .. F - n |-> NUL] /\ Len(pad) = F - n
        /\ \A i \in 1 .. F - n : pad[i] = NUL
  <2>1. F - n \in Nat
    BY <1>0, <1>1
  <2>2. PICK m \in Nat : m = F - n
    BY <2>1
  <2>3. /\ [k \in 1 .. m |-> NUL] \in Seq(Chars) /\ Len([k \in 1 .. m |-> NUL]) = m
        /\ \A i \in 1 .. m : [k \in 1 .. m |-> NUL][i] = NUL
    BY <1>0
  <2> QED BY <2>2, <2>3
<1>3. PICK tail \in Seq(Chars) :
        /\ tail = <<IF d.filetype = RtcType THEN NUL ELSE TypeByte, NUL>>
        /\ Len(tail) = 2 /\ tail[2] = NUL
  <2> DEFINE c == IF d.filetype = RtcType THEN NUL ELSE TypeByte
  <2>1. c \in Chars
    BY <1>0
  <2> HIDE DEF c
  <2>2. <<c, NUL>> \in Seq(Chars)
    BY <1>0, <2>1
  <2>3. Len(<<c, NUL>>) = 2 /\ <<c, NUL>>[2] = NUL
    OBVIOUS
  <2> QED BY <2>2, <2>3 DEF c
<1>4. PICK padded \in Seq(Chars) :
        /\ padded = w \o pad /\ Len(padded) = n + Len(pad)
        /\ \A i \in 1 .. n : padded[i] = w[i]
        /\ \A i \in 1 .. Len(pad) : padded[n + i] = pad[i]
  <2>1. w \o pad \in Seq(Chars) /\ Len(w \o pad) = Len(w) + Len(pad)
    OBVIOUS
  <2>2. /\ \A i \in 1 .. n : (w \o pad)[i] = w[i]
        /\ \A i \in 1 .. Len(pad) : (w \o pad)[n + i] = pad[i]
    <3>1. Len(w) = n
      BY <1>1
    <3>2. PICK p \in Nat : p = Len(pad)
      OBVIOUS
    <3>3. \A i \in 1 .. n : (w \o pad)[i] = w[i]
      BY <3>1, <3>2, JoinFacts
    <3>4. \A i \in 1 .. p : (w \o pad)[n + i] = pad[i]
      <4>1. \A i \in 1 .. Len(pad) : (w \o pad)[Len(w) + i] = pad[i]
        OBVIOUS
      <4> QED BY <3>1, <3>2, <4>1
    <3> QED BY <3>2, <3>3, <3>4
  <2> QED BY <1>1, <2>1, <2>2
<1>5. Len(padded) = F
  BY <1>0, <1>1, <1>2, <1>4
<1>6. PICK s \in Seq(Chars) :
        /\ s = padded \o tail /\ Len(s) = F + 2
        /\ \A i \in 1 .. F : s[i] = padded[i]
        /\ s[F + 2] = NUL
  <2>1. padded \o tail \in Seq(Chars) /\ Len(padded \o tail) = F + 2
    BY <1>3, <1>5
  <2>2. /\ \A i \in 1 .. F : (padded \o tail)[i] = padded[i]
        /\ (padded \o tail)[F + 2] = tail[2]
    BY <1>0, <1>3, <1>5
  <2> QED BY <1>3, <2>1, <2>2
<1>7. s = Filename(d)
  BY <1>1, <1>2, <1>3, <1>4, <1>6 DEF Filename
<1>8. \A i \in 1 .. n : s[i] = w[i] /\ s[i] # NUL
  BY <1>0, <1>1, <1>4, <1>6
<1>9. CASE n < F
  <2>1. s[n + 1] = NUL
    <3>1. n + 1 \in 1 .. F /\ 1 \in 1 .. F - n
      BY <1>0, <1>9
    <3> QED BY <1>2, <1>4, <1>6, <3>1
  <2>2. n < Len(s)
    BY <1>0, <1>1, <1>6
  <2>3. strlen(s) = n
    BY <1>8, <2>1, <2>2, StrlenIs
  <2>4. Clipped(n) = n
    BY <1>0, <1>1 DEF Clipped
  <2> QED BY <1>0, <1>1, <1>6, <1>7, <1>8, <1>9, <2>3, <2>4
<1>10. CASE n = F
  <2>1. strlen(s) \in {F, F + 1}
    <3>1. CASE s[F + 1] = NUL
      <4>1. F < Len(s)
        BY <1>0, <1>6
      <4> QED BY <1>0, <1>8, <1>10, <3>1, <4>1, StrlenIs
    <3>2. CASE s[F + 1] # NUL
      <4>1. PICK m \in Nat : m = F + 1
        BY <1>0
      <4>2. m < Len(s) /\ s[m + 1] = NUL
        BY <1>0, <1>6, <4>1
      <4>3. \A i \in 1 .. m : s[i] # NUL
        BY <1>0, <1>8, <1>10, <3>2, <4>1
      <4> QED BY <4>1, <4>2, <4>3, StrlenIs
    <3> QED BY <3>1, <3>2
  <2>2. Clipped(strlen(s)) = n /\ strlen(s) \in Nat
    BY <1>0, <1>10, <2>1 DEF Clipped
  <2> QED BY <1>0, <1>1, <1>6, <1>7, <1>8, <1>10, <2>2
<1> QED BY <1>0, <1>1, <1>9, <1>10

(***************************************************************************)
(* On characters of which none is NUL, strncmp compares.                   *)
(***************************************************************************)
LEMMA StrnEqualIs ==
  ASSUME NEW s \in Seq(Chars), NEW u \in Seq(Chars), NEW n \in Nat,
         n <= Len(s), n <= Len(u), \A i \in 1 .. n : s[i] # NUL
  PROVE  StrnEqual(s, u, n) <=> \A i \in 1 .. n : s[i] = u[i]
<1> DEFINE stops == {i \in 1 .. n : s[i] # u[i] \/ s[i] = NUL}
<1>1. stops = {i \in 1 .. n : s[i] # u[i]}
  OBVIOUS
<1>2. StrnEqual(s, u, n) <=> stops = {} \/ s[Min(stops)] = u[Min(stops)]
  BY DEF StrnEqual
<1>3. stops # {} => Min(stops) \in stops
  <2>1. stops \in SUBSET Nat
    OBVIOUS
  <2> HIDE DEF stops
  <2> QED BY <2>1, MinIsLeast
<1> QED BY <1>1, <1>2, <1>3

\* A word is found under what is left of it in a name's field.
LEMMA TruncatedFacts ==
  ASSUME NEW w, IsText(w)
  PROVE  /\ Truncated(w) \in Seq(Chars)
         /\ Len(Truncated(w)) = Clipped(Len(w))
         /\ Clipped(Len(w)) \in 0 .. FILENAME_LEN /\ Clipped(Len(w)) <= Len(w)
         /\ \A i \in 1 .. Clipped(Len(w)) : Truncated(w)[i] = w[i]
         /\ Clipped(Len(w)) = 0 <=> w = <<>>
<1>0. FILENAME_LEN \in Nat \ {0}
  BY FileSystemAssumption
<1>1. PICK v \in Seq(Chars), n \in Nat : v = w /\ n = Len(v)
  BY TextFacts
<1>2. PICK k \in Nat : k = Clipped(n)
  BY <1>0 DEF Clipped
<1>3. k <= n /\ k <= FILENAME_LEN /\ (k = 0 <=> n = 0)
  BY <1>0, <1>2 DEF Clipped
<1>4. Truncated(w) = SubSeq(v, 1, k)
  BY <1>1, <1>2 DEF Truncated, Clipped
<1>5. /\ SubSeq(v, 1, k) \in Seq(Chars) /\ Len(SubSeq(v, 1, k)) = k
      /\ \A i \in 1 .. k : SubSeq(v, 1, k)[i] = v[i]
  BY <1>1, <1>3
<1>6. n = 0 <=> v = <<>>
  BY <1>1
<1> QED BY <1>0, <1>1, <1>2, <1>3, <1>4, <1>5, <1>6

\* What an image's entries are, with those behind its directory.
LEMMA DentryFacts ==
  ASSUME NEW im, IsImage(im), NEW i \in 0 .. NUM_DENTRIES_BOOT
  PROVE  /\ IsText(Dentry(im, i).name) /\ Len(Dentry(im, i).name) \in 0 .. FILENAME_LEN
         /\ i < NUM_DENTRIES_BOOT /\ Dentry(im, i).name # <<>> =>
              i < Len(im.dentries) /\ Dentry(im, i) = im.dentries[i + 1]
         /\ i < Len(im.dentries) =>
              /\ i + 1 \in 1 .. Len(im.dentries)
              /\ i < NUM_DENTRIES_BOOT /\ Dentry(im, i) = im.dentries[i + 1]
              /\ Dentry(im, i).name # <<>>
<1>0. FILENAME_LEN \in Nat /\ NUM_DENTRIES_BOOT \in Nat
  BY FileSystemAssumption
<1>1. PICK L \in Nat : L = Len(im.dentries) /\ L <= NUM_DENTRIES_BOOT
  BY DEF IsImage
<1>2. \A j \in 1 .. L : /\ IsText(im.dentries[j].name)
                        /\ Len(im.dentries[j].name) \in 1 .. FILENAME_LEN
  BY <1>1 DEF IsImage
<1>3. IsText(<<>>) /\ Len(<<>>) = 0
  BY DEF IsText
<1>4. CASE i = NUM_DENTRIES_BOOT
  <2>1. Dentry(im, i).name = im.behind
    BY <1>4 DEF Dentry, NoDentry
  <2>2. IsText(im.behind) /\ Len(im.behind) \in 0 .. FILENAME_LEN
    <3>1. IsText(im.behind) /\ Len(im.behind) <= FILENAME_LEN
      BY DEF IsImage
    <3>2. Len(im.behind) \in Nat
      BY <3>1, TextFacts
    <3> QED BY <1>0, <3>1, <3>2
  <2> QED BY <1>0, <1>1, <1>4, <2>1, <2>2
<1>5. CASE i < L
  <2>1. i + 1 \in 1 .. L /\ i < NUM_DENTRIES_BOOT /\ i # NUM_DENTRIES_BOOT
    BY <1>0, <1>1, <1>5
  <2>2. Dentry(im, i) = im.dentries[i + 1]
    BY <1>1, <1>5, <2>1 DEF Dentry
  <2>3. IsText(Dentry(im, i).name) /\ Len(Dentry(im, i).name) \in 1 .. FILENAME_LEN
    BY <1>2, <2>1, <2>2
  <2>4. Dentry(im, i).name # <<>>
    BY <1>0, <1>3, <2>3
  <2> QED BY <1>0, <1>1, <1>5, <2>1, <2>2, <2>3, <2>4
<1>6. CASE i # NUM_DENTRIES_BOOT /\ ~(i < L)
  <2>1. Dentry(im, i).name = <<>>
    BY <1>1, <1>6 DEF Dentry, NoDentry
  <2> QED BY <1>0, <1>1, <1>3, <1>6, <2>1
<1> QED BY <1>4, <1>5, <1>6

\* Whether the search stops at an entry: its name is the one asked for, clipped.
LEMMA EntryMatches ==
  ASSUME NEW w, IsText(w), NEW d, IsText(d.name), Len(d.name) \in 0 .. FILENAME_LEN
  PROVE  LET len == Clipped(Len(w))
             f == Filename(d)
         IN (Clipped(strlen(f)) = len /\ StrnEqual(CString(w), f, len))
              <=> d.name = Truncated(w)
<1>0. FILENAME_LEN \in Nat
  BY FileSystemAssumption
<1>1. PICK x \in Seq(Chars), k \in Nat, c \in Seq(Chars) :
        /\ x = Truncated(w) /\ k = Clipped(Len(w)) /\ Len(x) = k
        /\ c = CString(w) /\ k <= Len(c) /\ k <= FILENAME_LEN
        /\ \A i \in 1 .. k : x[i] = c[i] /\ c[i] # NUL
  <2>1. /\ Truncated(w) \in Seq(Chars) /\ CString(w) \in Seq(Chars)
        /\ Clipped(Len(w)) \in Nat
    BY TruncatedFacts, CStringFacts
  <2>2. /\ Len(Truncated(w)) = Clipped(Len(w)) /\ Clipped(Len(w)) <= Len(CString(w))
        /\ Clipped(Len(w)) <= FILENAME_LEN
    BY <1>0, TruncatedFacts, CStringFacts
  <2>3. \A i \in 1 .. Clipped(Len(w)) :
          Truncated(w)[i] = CString(w)[i] /\ CString(w)[i] # NUL
    <3>1. PICK m \in Nat, l \in Nat : m = Clipped(Len(w)) /\ l = Len(w) /\ m <= l
      BY TruncatedFacts, CStringFacts
    <3>2. \A i \in 1 .. m : i \in 1 .. l
      BY <3>1
    <3> QED BY <3>1, <3>2, TruncatedFacts, CStringFacts
  <2> QED BY <2>1, <2>2, <2>3
<1>2. PICK e \in Seq(Chars), n \in Nat, f \in Seq(Chars) :
        /\ e = d.name /\ n = Len(e) /\ f = Filename(d) /\ n <= Len(f)
        /\ Clipped(strlen(f)) = n /\ \A i \in 1 .. n : f[i] = e[i]
  <2>1. d.name \in Seq(Chars) /\ Len(d.name) \in Nat
    BY TextFacts
  <2>2. Filename(d) \in Seq(Chars) /\ Len(d.name) <= Len(Filename(d))
    BY <1>0, FilenameFacts
  <2>3. /\ Clipped(strlen(Filename(d))) = Len(d.name)
        /\ \A i \in 1 .. Len(d.name) : Filename(d)[i] = d.name[i]
    BY <1>0, FilenameFacts
  <2> QED BY <2>1, <2>2, <2>3
<1>3. CASE n = k
  <2>1. StrnEqual(c, f, k) <=> \A i \in 1 .. k : c[i] = f[i]
    <3>1. k <= Len(c) /\ k <= Len(f) /\ \A i \in 1 .. k : c[i] # NUL
      BY <1>1, <1>2, <1>3
    <3> QED BY <3>1, StrnEqualIs
  <2>2. (\A i \in 1 .. k : c[i] = f[i]) <=> \A i \in 1 .. k : x[i] = e[i]
    BY <1>1, <1>2, <1>3
  <2>3. (\A i \in 1 .. k : x[i] = e[i]) <=> x = e
    <3>1. Len(x) = k /\ Len(e) = k
      BY <1>1, <1>2, <1>3
    <3> QED BY <3>1
  <2> QED BY <1>1, <1>2, <1>3, <2>1, <2>2, <2>3
<1>4. CASE n # k
  <2>1. e # x
    BY <1>1, <1>2, <1>4
  <2> QED BY <1>1, <1>2, <1>4, <2>1
<1> QED BY <1>3, <1>4

(***************************************************************************)
(* read_dentry_by_name finds an entry of that name, as far as a field can  *)
(* hold it, if the directory has one, and nothing else (filesys.c).        *)
(***************************************************************************)
LEMMA ByName ==
  ASSUME NEW im, IsImage(im), NEW w, IsText(w)
  PROVE  LET r == read_dentry_by_name(im, CString(w)) IN
           /\ r.ok \in BOOLEAN
           /\ r.ok <=> w # <<>> /\ Named(im, w) # {}
           /\ r.ok => r.dentry \in Named(im, w)
<1>0. NUM_DENTRIES_BOOT \in Nat \ {0}
  BY FileSystemAssumption
<1> DEFINE fname == CString(w)
           len == Clipped(strlen(fname))
           Matches(i) ==
             LET f == Filename(Dentry(im, i))
             IN Clipped(strlen(f)) = len /\ StrnEqual(fname, f, len)
           hits == {i \in 0 .. SUPERBLOCK_SIZE - 1 : Matches(i)}
           r == read_dentry_by_name(im, CString(w))
<1>1. r = IF len = 0 \/ hits = {} THEN NotFound
          ELSE read_dentry_by_index(im, Min(hits))
  BY DEF read_dentry_by_name
<1>2. len = Clipped(Len(w)) /\ (len = 0 <=> w = <<>>)
  BY StrlenOfCString, TruncatedFacts
<1>3. hits = {i \in 0 .. NUM_DENTRIES_BOOT : Dentry(im, i).name = Truncated(w)}
  <2>1. SUPERBLOCK_SIZE - 1 = NUM_DENTRIES_BOOT
    BY <1>0 DEF SUPERBLOCK_SIZE
  <2>2. \A i \in 0 .. NUM_DENTRIES_BOOT : Matches(i) <=> Dentry(im, i).name = Truncated(w)
    BY <1>2, DentryFacts, EntryMatches
  <2> QED BY <2>1, <2>2
<1>4. hits \in SUBSET Nat
  BY <1>0, <1>3
<1>5. Truncated(w) = <<>> <=> w = <<>>
  <2>1. Truncated(w) \in Seq(Chars) /\ Len(Truncated(w)) = Clipped(Len(w))
          /\ (Clipped(Len(w)) = 0 <=> w = <<>>)
    BY TruncatedFacts
  <2>2. \A x \in Seq(Chars) : Len(x) = 0 <=> x = <<>>
    OBVIOUS
  <2> QED BY <2>1, <2>2
<1>6. Named(im, w) = {im.dentries[i] : i \in {j \in 1 .. Len(im.dentries) :
                                                im.dentries[j].name = Truncated(w)}}
  BY DEF Named
<1> HIDE DEF len, hits
<1>7. CASE len = 0
  BY <1>1, <1>2, <1>7 DEF NotFound
<1>8. CASE len # 0 /\ hits = {}
  <2>1. Named(im, w) = {}
    <3> SUFFICES ASSUME NEW j \in 1 .. Len(im.dentries), im.dentries[j].name = Truncated(w)
                 PROVE  FALSE
      BY <1>6
    <3>1. PICK L \in Nat : L = Len(im.dentries) /\ L <= NUM_DENTRIES_BOOT
      BY DEF IsImage
    <3>2. PICK i \in 0 .. NUM_DENTRIES_BOOT : i < L /\ j = i + 1
      BY <1>0, <3>1
    <3> QED BY <1>3, <1>8, <3>1, <3>2, DentryFacts
  <2> QED BY <1>1, <1>8, <2>1 DEF NotFound
<1>9. CASE len # 0 /\ hits # {}
  <2>1. PICK i \in hits : i = Min(hits) /\ \A j \in hits : i <= j
    BY <1>4, <1>9, MinIsLeast
  <2>2. i \in 0 .. NUM_DENTRIES_BOOT /\ Dentry(im, i).name = Truncated(w)
          /\ Dentry(im, i).name # <<>>
    BY <1>2, <1>3, <1>5, <1>9, <2>1
  <2>3. r = IF InDirectory(i) THEN Found(im, i) ELSE NotFound
    BY <1>1, <1>9, <2>1 DEF read_dentry_by_index
  <2>4. CASE i < NUM_DENTRIES_BOOT
    <3>1. i < Len(im.dentries) /\ Dentry(im, i) = im.dentries[i + 1]
            /\ i + 1 \in 1 .. Len(im.dentries)
      BY <2>2, <2>4, DentryFacts
    <3>2. Dentry(im, i) \in Named(im, w)
      BY <1>6, <2>2, <3>1
    <3> QED BY <1>2, <1>9, <2>3, <2>4, <3>2 DEF InDirectory, Found
  <2>5. CASE ~(i < NUM_DENTRIES_BOOT)
    <3>1. Named(im, w) = {}
      <4> SUFFICES ASSUME NEW j \in 1 .. Len(im.dentries),
                          im.dentries[j].name = Truncated(w)
                   PROVE  FALSE
        BY <1>6
      <4>1. PICK L \in Nat : L = Len(im.dentries) /\ L <= NUM_DENTRIES_BOOT
        BY DEF IsImage
      <4>2. PICK k \in 0 .. NUM_DENTRIES_BOOT : k < L /\ j = k + 1
        BY <1>0, <4>1
      <4>3. k \in hits
        BY <1>3, <4>1, <4>2, DentryFacts
      <4> QED BY <1>0, <2>1, <2>2, <2>5, <4>1, <4>2, <4>3
    <3> QED BY <2>3, <2>5, <3>1 DEF InDirectory, NotFound
  <2> QED BY <2>4, <2>5
<1> QED BY <1>7, <1>8, <1>9

-----------------------------------------------------------------------------
(***************************************************************************)
(* Functions defined by recursion over an interval, and their values.      *)
(***************************************************************************)

\* A set of numbers that has lo and, with a number, the next one.
LEMMA Climb ==
  ASSUME NEW S, NEW lo \in Nat, lo \in S,
         \A n \in Nat : n >= lo /\ n \in S => n + 1 \in S
  PROVE  \A n \in Nat : n >= lo => n \in S
<1> DEFINE Bad == {n \in Nat : n >= lo /\ n \notin S}
<1> SUFFICES ASSUME Bad # {} PROVE FALSE
  OBVIOUS
<1>1. Bad \in SUBSET Nat
  OBVIOUS
<1>2. PICK n \in Bad : \A m \in Bad : n <= m
  BY <1>1, LeastNumber
<1>3. n \in Nat /\ n >= lo /\ n \notin S /\ n # lo
  OBVIOUS
<1>4. n - 1 \in Nat /\ n - 1 >= lo /\ n - 1 \in S
  <2>1. n - 1 \in Nat /\ n - 1 >= lo
    BY <1>3
  <2>2. n - 1 \notin Bad
    BY <1>2, <1>3, <2>1
  <2> QED BY <2>1, <2>2
<1>5. (n - 1) + 1 = n
  BY <1>3
<1> QED BY <1>3, <1>4, <1>5

\* What a recursion from b by steps of step makes of i.
Recursion(f, lo, b, step, i) == IF i = lo THEN b ELSE step[i][f[i - 1]]

\* f follows that recursion from lo to n.
Follows(f, X, lo, n, b, step) ==
  /\ f \in [lo .. n -> X]
  /\ \A i \in lo .. n : f[i] = Recursion(f, lo, b, step, i)

LEMMA RecursionExists ==
  \A X : \A b \in X, step \in [Nat -> [X -> X]], lo \in Nat, n \in Nat :
    n >= lo => \E f : Follows(f, X, lo, n, b, step)
<1> SUFFICES
      ASSUME NEW X, NEW b \in X, NEW step \in [Nat -> [X -> X]], NEW lo \in Nat
      PROVE  \A n \in Nat : n >= lo =>
               \E f \in [lo .. n -> X] :
                 \A i \in lo .. n : f[i] = Recursion(f, lo, b, step, i)
  BY DEF Follows
<1> DEFINE Funs(n) == {f \in [lo .. n -> X] : \A i \in lo .. n :
                                                f[i] = Recursion(f, lo, b, step, i)}
           S == {n \in Nat : Funs(n) # {}}
<1>1. lo \in S
  <2> DEFINE f == [i \in lo .. lo |-> b]
  <2>1. f \in [lo .. lo -> X]
    OBVIOUS
  <2>2. \A i \in lo .. lo : i = lo /\ f[i] = Recursion(f, lo, b, step, i)
    BY DEF Recursion
  <2> QED BY <2>1, <2>2
<1>2. ASSUME NEW n \in Nat, n >= lo, n \in S
      PROVE  n + 1 \in S
  <2>1. PICK f \in [lo .. n -> X] : \A i \in lo .. n : f[i] = Recursion(f, lo, b, step, i)
    BY <1>2
  <2>2. f[n] \in X
    BY <1>2, <2>1
  <2>3. step[n + 1][f[n]] \in X
    BY <2>2
  <2> DEFINE y == step[n + 1][f[n]]
             g == [i \in lo .. n + 1 |-> IF i = n + 1 THEN y ELSE f[i]]
  <2>4. \A i \in lo .. n + 1 : i # n + 1 => i \in lo .. n
    BY <1>2
  <2>5. g \in [lo .. n + 1 -> X]
    <3> HIDE DEF y
    <3>1. y \in X
      BY <2>3 DEF y
    <3> QED BY <2>1, <2>4, <3>1
  <2>6. \A i \in lo .. n + 1 : g[i] = Recursion(g, lo, b, step, i)
    <3> TAKE i \in lo .. n + 1
    <3>1. CASE i = n + 1
      <4>1. i - 1 = n /\ i # lo /\ n \in lo .. n + 1 /\ n # n + 1
        BY <1>2, <3>1
      <4>2. g[n] = f[n] /\ g[i] = y
        BY <3>1, <4>1
      <4> QED BY <3>1, <4>1, <4>2 DEF Recursion
    <3>2. CASE i # n + 1
      <4>1. i \in lo .. n /\ g[i] = f[i]
        BY <2>4, <3>2
      <4>2. CASE i = lo
        BY <2>1, <4>1, <4>2 DEF Recursion
      <4>3. CASE i # lo
        <5>1. i - 1 \in lo .. n + 1 /\ i - 1 # n + 1
          BY <4>1, <4>3
        <5>2. g[i - 1] = f[i - 1]
          BY <5>1
        <5>3. f[i] = Recursion(f, lo, b, step, i)
          BY <2>1, <4>1
        <5> QED BY <4>1, <4>3, <5>2, <5>3 DEF Recursion
      <4> QED BY <4>2, <4>3
    <3> QED BY <3>1, <3>2
  <2> HIDE DEF g
  <2> QED BY <2>5, <2>6
<1>3. \A n \in Nat : n >= lo => n \in S
  <2> HIDE DEF S
  <2> QED BY <1>1, <1>2, Climb
<1> QED BY <1>3

-----------------------------------------------------------------------------
(***************************************************************************)
(* read_data.                                                              *)
(***************************************************************************)
Block == EXT2_DATA_BLOCK_SIZE

\* Quotient and remainder are determined by their product and sum.
LEMMA DivMod ==
  \A B \in Nat \ {0}, q, r, k \in Nat :
    r < B /\ k = q * B + r => k \div B = q /\ k % B = r
<1> SUFFICES ASSUME NEW B \in Nat \ {0}, NEW q \in Nat, NEW r \in Nat,
                    NEW k \in Nat, r < B, k = q * B + r
             PROVE  k \div B = q /\ k % B = r
  BY Zenon
<1>1. PICK d \in Nat, m \in Nat : d = k \div B /\ m = k % B /\ k = B * d + m /\ m < B
  OBVIOUS
<1>2. B * q + r = B * d + m
  BY <1>1
<1>3. d = q
  <2>1. ~(d > q)
    <3> SUFFICES ASSUME d >= q + 1 PROVE FALSE
      OBVIOUS
    <3>1. PICK e \in Nat : d = q + 1 + e
      <4>1. d - (q + 1) \in Nat
        OBVIOUS
      <4> QED BY <4>1
    <3>2. B * d = B * q + B + B * e /\ B * e >= 0
      BY <3>1
    <3> QED BY <1>1, <1>2, <3>2
  <2>2. ~(q > d)
    <3> SUFFICES ASSUME q >= d + 1 PROVE FALSE
      OBVIOUS
    <3>1. PICK e \in Nat : q = d + 1 + e
      <4>1. q - (d + 1) \in Nat
        OBVIOUS
      <4> QED BY <4>1
    <3>2. B * q = B * d + B + B * e /\ B * e >= 0
      BY <3>1
    <3> QED BY <1>1, <1>2, <3>2
  <2> QED BY <2>1, <2>2
<1>4. m = r
  BY <1>1, <1>2, <1>3
<1> QED BY <1>1, <1>3, <1>4

\* A position inside a file lies in one of its blocks.
LEMMA BlockInList ==
  ASSUME NEW B \in Nat \ {0}, NEW L \in Nat, NEW k \in Nat, k < L * B
  PROVE  k \div B \in 0 .. L - 1 /\ k % B \in 0 .. B - 1
<1>1. PICK d \in Nat, m \in Nat : d = k \div B /\ m = k % B /\ k = B * d + m /\ m < B
  OBVIOUS
<1>2. ~(d >= L)
  <2> SUFFICES ASSUME d >= L PROVE FALSE
    OBVIOUS
  <2>1. PICK e \in Nat : d = L + e
    <3>1. d - L \in Nat
      OBVIOUS
    <3> QED BY <3>1
  <2>2. B * d = L * B + B * e /\ B * e >= 0
    BY <2>1
  <2> QED BY <1>1, <2>2
<1> QED BY <1>1, <1>2

\* The byte of a file at a position from 0, and whether the image has its block.
ByteAt(im, num, k) ==
  Byte(im.inodes[num + 1].data_block_num[(k \div Block) + 1], k % Block)
Has(im, num, k) ==
  im.inodes[num + 1].data_block_num[(k \div Block) + 1] < im.data_block_ct
Piece(im, num, offset, n) == [k \in 1 .. n |-> ByteAt(im, num, offset + k - 1)]

\* What is known of an inode and of the blocks of a position inside its file.
LEMMA InodeFacts ==
  ASSUME NEW im, IsImage(im), NEW num \in 0 .. Len(im.inodes) - 1
  PROVE  /\ im.inodes[num + 1].len \in Nat /\ im.data_block_ct \in Nat
         /\ \A k \in Nat : k < im.inodes[num + 1].len =>
              /\ im.inodes[num + 1].data_block_num[(k \div Block) + 1] \in Nat
              /\ k \div Block \in Nat /\ k % Block \in 0 .. Block - 1
<1>0. Block \in Nat \ {0}
  BY FileSystemAssumption DEF Block
<1>1. PICK m \in 1 .. Len(im.inodes) : m = num + 1
  BY DEF IsImage
<1>2. im.inodes \in Seq([len : Nat, data_block_num : Seq(Nat)]) /\ im.data_block_ct \in Nat
        /\ im.inodes[m].len <= Len(im.inodes[m].data_block_num) * Block
  BY DEF IsImage, Block
<1>3. PICK inode \in [len : Nat, data_block_num : Seq(Nat)] : inode = im.inodes[m]
  <2>1. PICK s \in Seq([len : Nat, data_block_num : Seq(Nat)]) : s = im.inodes
    BY <1>2
  <2>2. m \in 1 .. Len(s)
    BY <2>1
  <2>3. \A R : \A x \in Seq(R) : \A j \in 1 .. Len(x) : x[j] \in R
    OBVIOUS
  <2>4. s[m] \in [len : Nat, data_block_num : Seq(Nat)]
    BY <2>2, <2>3, Zenon
  <2> QED BY <2>1, <2>4
<1>4. PICK L \in Nat : L = Len(inode.data_block_num)
  BY <1>3
<1>5. ASSUME NEW k \in Nat, k < inode.len
      PROVE  /\ inode.data_block_num[(k \div Block) + 1] \in Nat
             /\ k \div Block \in Nat /\ k % Block \in 0 .. Block - 1
  <2>1. inode.len \in Nat /\ inode.len <= L * Block /\ L * Block \in Nat
    <3>1. inode.len \in Nat
      OBVIOUS
    <3>2. inode.len <= Len(inode.data_block_num) * Block
      BY <1>2, <1>3
    <3>3. inode.len <= L * Block
      BY <1>4, <3>2
    <3>4. L * Block \in Nat
      BY <1>0
    <3> QED BY <3>1, <3>3, <3>4
  <2>2. k < L * Block
    BY <1>5, <2>1
  <2>3. k \div Block \in 0 .. L - 1 /\ k % Block \in 0 .. Block - 1
    BY <1>0, <2>2, BlockInList
  <2>4. (k \div Block) + 1 \in 1 .. L /\ k \div Block \in Nat
    BY <2>3
  <2>5. inode.data_block_num \in Seq(Nat)
    BY <1>3
  <2> QED BY <1>4, <2>3, <2>4, <2>5
<1> QED BY <1>1, <1>2, <1>3, <1>5

\* The states of read_data.
BytesOf(im, num) ==
  {Byte(im.inodes[num + 1].data_block_num[b + 1], k) : b \in Nat, k \in Nat}
Reading(im, num) ==
  [n : Int, buf : Seq(BytesOf(im, num)), datablock_curr : Nat, byte_curr : Nat]

LEMMA ReadingGoesOn ==
  ASSUME NEW im, NEW num, NEW st \in Reading(im, num)
  PROVE  ReadByte(im, im.inodes[num + 1], st) \in Reading(im, num)
<1> DEFINE inode == im.inodes[num + 1]
           next == BlockEnds(st.byte_curr)
           block == IF next THEN st.datablock_curr + 1 ELSE st.datablock_curr
           byte == IF next THEN 0 ELSE st.byte_curr
           y == Byte(inode.data_block_num[block + 1], byte)
<1>1. /\ st.n \in Int /\ st.buf \in Seq(BytesOf(im, num))
      /\ st.datablock_curr \in Nat /\ st.byte_curr \in Nat
  BY DEF Reading
<1>2. block \in Nat /\ byte \in Nat
  BY <1>1
<1>3. y \in BytesOf(im, num)
  <2> HIDE DEF block, byte
  <2> QED BY <1>2 DEF BytesOf
<1>4. ReadByte(im, inode, st) =
        IF st.n = Failure THEN st
        ELSE IF inode.data_block_num[block + 1] >= im.data_block_ct
             THEN [st EXCEPT !.n = Failure]
             ELSE [n |-> st.n + 1, buf |-> Append(st.buf, y),
                   datablock_curr |-> block, byte_curr |-> byte + 1]
  BY DEF ReadByte
<1>5. Append(st.buf, y) \in Seq(BytesOf(im, num))
  <2> HIDE DEF y
  <2> QED BY <1>1, <1>3
<1>6. Failure \in Int
  BY DEF Failure
<1>7. byte + 1 \in Nat /\ st.n + 1 \in Int
  BY <1>1, <1>2
<1> HIDE DEF inode, next, block, byte, y
<1>8. [st EXCEPT !.n = Failure] \in Reading(im, num)
  BY <1>6 DEF Reading
<1>9. [n |-> st.n + 1, buf |-> Append(st.buf, y),
       datablock_curr |-> block, byte_curr |-> byte + 1] \in Reading(im, num)
  BY <1>2, <1>5, <1>7 DEF Reading
<1> QED BY <1>4, <1>8, <1>9 DEF inode

(***************************************************************************)
(* After i bytes from offset: they are read and the next one is at hand,   *)
(* unless a block of theirs was missing.                                   *)
(***************************************************************************)
At(im, num, offset, i, st) ==
  IF \A k \in 0 .. i - 1 : Has(im, num, offset + k)
  THEN /\ st.n = i /\ st.buf = Piece(im, num, offset, i)
       /\ st.datablock_curr * Block + st.byte_curr = offset + i
       /\ st.byte_curr <= Block
  ELSE st.n = Failure

\* A piece grows by a byte.
LEMMA PieceGrows ==
  ASSUME NEW im, NEW num, NEW offset \in Nat, NEW i \in Nat
  PROVE  Append(Piece(im, num, offset, i), ByteAt(im, num, offset + i))
           = Piece(im, num, offset, i + 1)
<1> DEFINE at == [k \in Nat |-> ByteAt(im, num, offset + k - 1)]
           X == {at[k] : k \in Nat}
<1>1. Piece(im, num, offset, i) = [k \in 1 .. i |-> at[k]]
  BY DEF Piece
<1>2. Piece(im, num, offset, i + 1) = [k \in 1 .. i + 1 |-> at[k]]
  BY DEF Piece
<1>3. ByteAt(im, num, offset + i) = at[i + 1]
  <2>1. offset + (i + 1) - 1 = offset + i
    OBVIOUS
  <2> QED BY <2>1
<1> HIDE DEF at
<1>4. [k \in 1 .. i |-> at[k]] \in Seq(X) /\ Len([k \in 1 .. i |-> at[k]]) = i
  OBVIOUS
<1>5. [k \in 1 .. i + 1 |-> at[k]] \in Seq(X) /\ Len([k \in 1 .. i + 1 |-> at[k]]) = i + 1
  OBVIOUS
<1>6. PICK s \in Seq(X) : s = [k \in 1 .. i |-> at[k]] /\ Len(s) = i
  BY <1>4
<1>7. PICK u \in Seq(X) : u = [k \in 1 .. i + 1 |-> at[k]] /\ Len(u) = i + 1
  BY <1>5
<1>8. at[i + 1] \in X
  OBVIOUS
<1> HIDE DEF X
<1>9. Append(s, at[i + 1]) = u
  <2>1. Append(s, at[i + 1]) \in Seq(X) /\ Len(Append(s, at[i + 1])) = i + 1
    BY <1>6, <1>8
  <2>2. \A k \in 1 .. i + 1 : Append(s, at[i + 1])[k] = u[k]
    BY <1>6, <1>7, <1>8
  <2> QED BY <1>7, <2>1, <2>2
<1> QED BY <1>1, <1>2, <1>3, <1>6, <1>7, <1>9

\* One round of the loop.
LEMMA ReadByteIsNext ==
  ASSUME NEW im, IsImage(im), NEW num \in 0 .. Len(im.inodes) - 1,
         NEW offset \in Nat, NEW i \in Nat, offset + i < im.inodes[num + 1].len,
         NEW st \in Reading(im, num), At(im, num, offset, i, st)
  PROVE  At(im, num, offset, i + 1, ReadByte(im, im.inodes[num + 1], st))
<1> DEFINE inode == im.inodes[num + 1]
           p == offset + i
           next == BlockEnds(st.byte_curr)
           block == IF next THEN st.datablock_curr + 1 ELSE st.datablock_curr
           byte == IF next THEN 0 ELSE st.byte_curr
           had == \A k \in 0 .. i - 1 : Has(im, num, offset + k)
<1>0. Block \in Nat \ {0} /\ st.byte_curr \in Nat /\ st.datablock_curr \in Nat
        /\ i # Failure
  BY FileSystemAssumption DEF Block, Reading, Failure
<1>1. ReadByte(im, inode, st) =
        IF st.n = Failure THEN st
        ELSE IF inode.data_block_num[block + 1] >= im.data_block_ct
             THEN [st EXCEPT !.n = Failure]
             ELSE [n |-> st.n + 1,
                   buf |-> Append(st.buf, Byte(inode.data_block_num[block + 1], byte)),
                   datablock_curr |-> block, byte_curr |-> byte + 1]
  BY DEF ReadByte
<1>2. (\A k \in 0 .. (i + 1) - 1 : Has(im, num, offset + k)) <=> had /\ Has(im, num, p)
  <2>1. \A k \in 0 .. (i + 1) - 1 : k = i \/ k \in 0 .. i - 1
    OBVIOUS
  <2>2. \A k \in 0 .. i - 1 : k \in 0 .. (i + 1) - 1
    OBVIOUS
  <2>3. i \in 0 .. (i + 1) - 1
    OBVIOUS
  <2> QED BY <2>1, <2>2, <2>3
<1>3. CASE ~had
  <2>1. st.n = Failure
    BY <1>3 DEF At
  <2>2. ReadByte(im, inode, st).n = Failure
    BY <1>1, <2>1
  <2> QED BY <1>2, <1>3, <2>2 DEF At
<1>4. CASE had
  <2>1. /\ st.n = i /\ st.buf = Piece(im, num, offset, i)
        /\ st.datablock_curr * Block + st.byte_curr = p
        /\ st.byte_curr <= Block
    BY <1>4 DEF At
  <2>2. block \in Nat /\ byte \in Nat /\ byte < Block /\ p = block * Block + byte
    <3>1. CASE st.byte_curr >= Block
      <4>1. next /\ st.byte_curr = Block
        BY <1>0, <2>1, <3>1 DEF BlockEnds, Block
      <4>2. block = st.datablock_curr + 1 /\ byte = 0
        BY <4>1
      <4>3. (st.datablock_curr + 1) * Block = st.datablock_curr * Block + Block
        BY <1>0
      <4> QED BY <1>0, <2>1, <4>1, <4>2, <4>3
    <3>2. CASE ~(st.byte_curr >= Block)
      <4>1. ~next
        BY <3>2 DEF BlockEnds, Block
      <4> QED BY <1>0, <2>1, <3>2, <4>1
    <3> QED BY <3>1, <3>2
  <2>3. p \div Block = block /\ p % Block = byte
    <3> HIDE DEF block, byte, p
    <3>1. p \in Nat
      BY DEF p
    <3> QED BY <1>0, <2>2, <3>1, DivMod, Zenon
  <2>4. /\ Byte(inode.data_block_num[block + 1], byte) = ByteAt(im, num, p)
        /\ Has(im, num, p) <=> inode.data_block_num[block + 1] < im.data_block_ct
    BY <2>3 DEF ByteAt, Has
  <2>5. inode.data_block_num[block + 1] \in Nat /\ im.data_block_ct \in Nat
    BY <2>3, InodeFacts
  <2>6. st.n # Failure
    BY <1>0, <2>1
  <2>7. CASE ~Has(im, num, p)
    <3>1. inode.data_block_num[block + 1] >= im.data_block_ct
      <4> HIDE DEF block, inode
      <4> QED BY <2>4, <2>5, <2>7
    <3>2. ReadByte(im, inode, st) = [st EXCEPT !.n = Failure]
      BY <1>1, <2>6, <3>1
    <3>3. ReadByte(im, inode, st).n = Failure
      BY <3>2 DEF Reading
    <3> QED BY <1>2, <2>7, <3>3 DEF At
  <2>8. CASE Has(im, num, p)
    <3>1. ~(inode.data_block_num[block + 1] >= im.data_block_ct)
      <4> HIDE DEF block, inode
      <4> QED BY <2>4, <2>5, <2>8
    <3>2. ReadByte(im, inode, st) =
            [n |-> i + 1, buf |-> Append(st.buf, ByteAt(im, num, p)),
             datablock_curr |-> block, byte_curr |-> byte + 1]
      BY <1>1, <2>1, <2>4, <2>6, <3>1
    <3>3. Append(st.buf, ByteAt(im, num, p)) = Piece(im, num, offset, i + 1)
      BY <2>1, PieceGrows
    <3>4. block * Block + (byte + 1) = offset + (i + 1) /\ byte + 1 <= Block
      <4> HIDE DEF block, byte
      <4>1. PICK m \in Nat : m = block * Block
        BY <1>0, <2>2
      <4> QED BY <1>0, <2>2, <4>1
    <3> HIDE DEF block, byte, inode, next, p
    <3> QED BY <1>2, <1>4, <2>8, <3>2, <3>3, <3>4 DEF At, inode
  <2> QED BY <2>7, <2>8
<1> QED BY <1>3, <1>4

(***************************************************************************)
(* read_data returns the bytes asked for, as far as the file goes, or      *)
(* fails because the image lacks one of their blocks.                      *)
(***************************************************************************)
LEMMA ReadDataIs ==
  ASSUME NEW im, IsImage(im), NEW num \in 0 .. Len(im.inodes) - 1,
         NEW offset \in Nat, NEW length \in Nat, NEW count \in Nat,
         offset < im.inodes[num + 1].len,
         count = IF offset + length > im.inodes[num + 1].len
                 THEN im.inodes[num + 1].len - offset ELSE length
  PROVE  LET r == read_data(im, num, offset, length) IN
           IF \A k \in 0 .. count - 1 : Has(im, num, offset + k)
           THEN r.n = count /\ r.buf = Piece(im, num, offset, count)
           ELSE r.n = Failure
<1> DEFINE inode == im.inodes[num + 1]
           start == [n |-> 0, buf |-> <<>>,
                     datablock_curr |-> offset \div EXT2_DATA_BLOCK_SIZE,
                     byte_curr |-> offset % EXT2_DATA_BLOCK_SIZE]
           State(f) == [i \in 0 .. count |->
                          IF i = 0 THEN start ELSE ReadByte(im, inode, f[i - 1])]
           X == Reading(im, num)
           step == [i \in Nat |-> [st \in X |-> ReadByte(im, inode, st)]]
<1>0. /\ inode.len \in Nat /\ Block \in Nat \ {0} /\ offset + count <= inode.len
      /\ ~(num >= Len(im.inodes)) /\ ~(offset >= inode.len)
  <2>1. inode.len \in Nat /\ Block \in Nat \ {0}
    BY InodeFacts, FileSystemAssumption DEF Block
  <2>2. offset + count <= inode.len
    BY <2>1
  <2>3. ~(num >= Len(im.inodes))
    <3>1. Len(im.inodes) \in Nat
      BY DEF IsImage
    <3> QED BY <3>1
  <2>4. ~(offset >= inode.len)
    BY <2>1
  <2> QED BY <2>1, <2>2, <2>3, <2>4
<1>1. read_data(im, num, offset, length) = (CHOOSE f : f = State(f))[count]
  BY <1>0 DEF read_data
<1>2. start \in X /\ At(im, num, offset, 0, start)
  <2>1. PICK q \in Nat, m \in Nat : /\ q = offset \div Block /\ m = offset % Block
                                    /\ offset = q * Block + m /\ m <= Block
    <3>1. ASSUME NEW B \in Nat \ {0}, NEW k \in Nat
          PROVE  /\ k \div B \in Nat /\ k % B \in Nat
                 /\ k = (k \div B) * B + (k % B) /\ k % B <= B
      <4>1. PICK d \in Nat, r \in Nat : /\ d = k \div B /\ r = k % B
                                        /\ k = B * d + r /\ r < B
        OBVIOUS
      <4>2. B * d = d * B
        OBVIOUS
      <4> QED BY <4>1, <4>2
    <3> QED BY <1>0, <3>1, Zenon
  <2>2. start = [n |-> 0, buf |-> <<>>, datablock_curr |-> q, byte_curr |-> m]
    BY <2>1 DEF Block
  <2>3. <<>> \in Seq(BytesOf(im, num)) /\ <<>> = Piece(im, num, offset, 0)
    BY DEF Piece
  <2>4. q * Block + m = offset + 0
    <3>1. PICK o \in Nat : o = q * Block + m /\ o = offset
      BY <2>1
    <3> QED BY <3>1
  <2>5. 0 \in Int
    OBVIOUS
  <2> HIDE DEF start
  <2>6. start \in X
    BY <2>1, <2>2, <2>3, <2>5 DEF Reading
  <2>7. start.n = 0 /\ start.buf = Piece(im, num, offset, 0)
          /\ start.datablock_curr * Block + start.byte_curr = offset + 0
          /\ start.byte_curr <= Block
    BY <2>1, <2>2, <2>3, <2>4
  <2>8. \A k \in 0 .. 0 - 1 : Has(im, num, offset + k)
    OBVIOUS
  <2> QED BY <2>6, <2>7, <2>8 DEF At
<1>3. step \in [Nat -> [X -> X]]
  BY ReadingGoesOn
<1> HIDE DEF start, X, step
<1>4. PICK f \in [0 .. count -> X] :
        \A i \in 0 .. count : f[i] = Recursion(f, 0, start, step, i)
  <2>1. 0 \in Nat /\ count >= 0
    OBVIOUS
  <2>2. start \in X
    BY <1>2
  <2>3. \E f : Follows(f, X, 0, count, start, step)
    BY <1>3, <2>1, <2>2, RecursionExists, Zenon
  <2> QED BY <2>3 DEF Follows
<1>5. f = State(f)
  <2>1. ASSUME NEW i \in 0 .. count
        PROVE  f[i] = IF i = 0 THEN start ELSE ReadByte(im, inode, f[i - 1])
    <3>1. f[i] = IF i = 0 THEN start ELSE step[i][f[i - 1]]
      BY <1>4 DEF Recursion
    <3>2. i # 0 => step[i][f[i - 1]] = ReadByte(im, inode, f[i - 1])
      <4> SUFFICES ASSUME i # 0
                   PROVE  step[i][f[i - 1]] = ReadByte(im, inode, f[i - 1])
        OBVIOUS
      <4>1. i - 1 \in 0 .. count /\ i \in Nat
        OBVIOUS
      <4>2. f[i - 1] \in X
        BY <4>1
      <4> QED BY <4>1, <4>2 DEF step
    <3> QED BY <3>1, <3>2
  <2> QED BY <2>1
<1> DEFINE g == CHOOSE h : h = State(h)
<1>6. g = State(g)
  <2> HIDE DEF State
  <2> QED BY <1>5
<1>7. \A i \in 0 .. count : g[i] = IF i = 0 THEN start ELSE ReadByte(im, inode, g[i - 1])
  <2> HIDE DEF g
  <2> QED BY <1>6
<1> HIDE DEF g
<1> DEFINE S == {i \in Nat : i <= count => g[i] \in X /\ At(im, num, offset, i, g[i])}
<1>8. 0 \in S
  BY <1>2, <1>7
<1>9. ASSUME NEW i \in Nat, i >= 0, i \in S
      PROVE  i + 1 \in S
  <2> SUFFICES ASSUME i + 1 <= count
               PROVE  g[i + 1] \in X /\ At(im, num, offset, i + 1, g[i + 1])
    OBVIOUS
  <2>1. g[i] \in X /\ At(im, num, offset, i, g[i])
    BY <1>9
  <2>2. g[i + 1] = ReadByte(im, inode, g[i])
    <3>1. i + 1 \in 0 .. count /\ i + 1 # 0 /\ (i + 1) - 1 = i
      OBVIOUS
    <3> QED BY <1>7, <3>1
  <2>3. offset + i < inode.len
    BY <1>0
  <2> QED BY <2>1, <2>2, <2>3, ReadingGoesOn, ReadByteIsNext DEF X
<1>10. count \in S
  <2> HIDE DEF S
  <2>1. 0 \in Nat /\ \A n \in Nat : n >= 0
    OBVIOUS
  <2>2. \A n \in Nat : n >= 0 => n \in S
    BY <1>8, <1>9, <2>1, Climb, Zenon
  <2> QED BY <2>1, <2>2
<1>11. At(im, num, offset, count, g[count])
  BY <1>10
<1> QED BY <1>1, <1>11 DEF At, g

\* Beyond its end a file has nothing to read.
LEMMA ReadDataFails ==
  ASSUME NEW im, IsImage(im), NEW num \in 0 .. Len(im.inodes) - 1,
         NEW offset \in Nat, NEW length \in Nat,
         ~(offset < im.inodes[num + 1].len)
  PROVE  read_data(im, num, offset, length).n = Failure
<1>1. im.inodes[num + 1].len \in Nat
  BY InodeFacts
<1>2. offset >= im.inodes[num + 1].len
  BY <1>1
<1> QED BY <1>2 DEF read_data

\* A file's contents are its first len bytes, and Readable says it has their blocks.
LEMMA ContentsFacts ==
  ASSUME NEW im, IsImage(im), NEW num \in 0 .. Len(im.inodes) - 1
  PROVE  LET len == im.inodes[num + 1].len IN
           /\ Contents(im, num) = Piece(im, num, 0, len)
           /\ Readable(im, num) <=> \A k \in 0 .. len - 1 : Has(im, num, k)
           /\ len > 0 => Contents(im, num)[1] = Byte(im.inodes[num + 1].data_block_num[1], 0)
<1> DEFINE len == im.inodes[num + 1].len
<1>0. len \in Nat /\ Block \in Nat \ {0}
  BY InodeFacts, FileSystemAssumption DEF Block
<1>1. Contents(im, num) = [k \in 1 .. len |-> ByteAt(im, num, k - 1)]
  BY DEF Contents, ByteAt, Block
<1>2. Readable(im, num) <=> \A k \in 1 .. len : Has(im, num, k - 1)
  BY DEF Readable, Has, Block
<1> HIDE DEF len
<1>3. [k \in 1 .. len |-> ByteAt(im, num, k - 1)] = Piece(im, num, 0, len)
  <2>1. \A k \in 1 .. len : 0 + k - 1 = k - 1
    BY <1>0
  <2> QED BY <2>1 DEF Piece
<1>4. (\A k \in 1 .. len : Has(im, num, k - 1)) <=> \A k \in 0 .. len - 1 : Has(im, num, k)
  <2>1. ASSUME \A k \in 1 .. len : Has(im, num, k - 1), NEW k \in 0 .. len - 1
        PROVE  Has(im, num, k)
    <3>1. k + 1 \in 1 .. len /\ (k + 1) - 1 = k
      BY <1>0
    <3> QED BY <2>1, <3>1
  <2>2. ASSUME \A k \in 0 .. len - 1 : Has(im, num, k), NEW k \in 1 .. len
        PROVE  Has(im, num, k - 1)
    <3>1. k - 1 \in 0 .. len - 1
      BY <1>0
    <3> QED BY <2>2, <3>1
  <2> QED BY <2>1, <2>2
<1>5. len > 0 => Contents(im, num)[1] = Byte(im.inodes[num + 1].data_block_num[1], 0)
  <2> SUFFICES ASSUME len > 0
               PROVE  Contents(im, num)[1] = Byte(im.inodes[num + 1].data_block_num[1], 0)
    OBVIOUS
  <2>1. 1 \in 1 .. len /\ 1 - 1 = 0
    BY <1>0
  <2>2. Contents(im, num)[1] = ByteAt(im, num, 0)
    BY <1>1, <2>1
  <2>3. 0 \div Block = 0 /\ 0 % Block = 0 /\ 0 + 1 = 1
    BY <1>0
  <2> QED BY <2>2, <2>3 DEF ByteAt
<1> QED BY <1>1, <1>2, <1>3, <1>4, <1>5 DEF len

\* Pieces of a file that follow each other make a piece.
LEMMA PiecesJoin ==
  ASSUME NEW im, NEW num, NEW a \in Nat, NEW c \in Nat
  PROVE  Piece(im, num, 0, a) \o Piece(im, num, a, c) = Piece(im, num, 0, a + c)
<1> DEFINE at == [k \in Nat |-> ByteAt(im, num, k)]
           X == {at[k] : k \in Nat}
<1>1. Piece(im, num, 0, a) = [k \in 1 .. a |-> at[k - 1]]
  <2>1. \A k \in 1 .. a : 0 + k - 1 = k - 1 /\ k - 1 \in Nat
    OBVIOUS
  <2> QED BY <2>1 DEF Piece
<1>2. Piece(im, num, a, c) = [k \in 1 .. c |-> at[a + k - 1]]
  <2>1. \A k \in 1 .. c : a + k - 1 \in Nat
    OBVIOUS
  <2> QED BY <2>1 DEF Piece
<1>3. Piece(im, num, 0, a + c) = [k \in 1 .. a + c |-> at[k - 1]]
  <2>1. \A k \in 1 .. a + c : 0 + k - 1 = k - 1 /\ k - 1 \in Nat
    OBVIOUS
  <2> QED BY <2>1 DEF Piece
<1>4. \A k \in Nat : at[k] \in X
  OBVIOUS
<1> HIDE DEF at, X
<1>5. PICK s \in Seq(X) : /\ s = Piece(im, num, 0, a) /\ Len(s) = a
                          /\ \A k \in 1 .. a : s[k] = at[k - 1]
  <2> DEFINE f == [k \in 1 .. a |-> at[k - 1]]
  <2>1. f \in Seq(X)
    BY <1>4
  <2>2. Len(f) = a /\ \A k \in 1 .. a : f[k] = at[k - 1]
    OBVIOUS
  <2> HIDE DEF f
  <2>3. f = Piece(im, num, 0, a)
    BY <1>1 DEF f
  <2> QED BY <2>1, <2>2, <2>3
<1>6. PICK u \in Seq(X) : /\ u = Piece(im, num, a, c) /\ Len(u) = c
                          /\ \A k \in 1 .. c : u[k] = at[a + k - 1]
  <2> DEFINE f == [k \in 1 .. c |-> at[a + k - 1]]
  <2>1. f \in Seq(X)
    BY <1>4
  <2>2. Len(f) = c /\ \A k \in 1 .. c : f[k] = at[a + k - 1]
    OBVIOUS
  <2> HIDE DEF f
  <2>3. f = Piece(im, num, a, c)
    BY <1>2 DEF f
  <2> QED BY <2>1, <2>2, <2>3
<1>7. PICK v \in Seq(X) : /\ v = Piece(im, num, 0, a + c) /\ Len(v) = a + c
                          /\ \A k \in 1 .. a + c : v[k] = at[k - 1]
  <2> DEFINE f == [k \in 1 .. a + c |-> at[k - 1]]
  <2>1. f \in Seq(X)
    BY <1>4
  <2>2. Len(f) = a + c /\ \A k \in 1 .. a + c : f[k] = at[k - 1]
    OBVIOUS
  <2> HIDE DEF f
  <2>3. f = Piece(im, num, 0, a + c)
    BY <1>3 DEF f
  <2> QED BY <2>1, <2>2, <2>3
<1>8. s \o u \in Seq(X) /\ Len(s \o u) = a + c
  <2>1. s \o u \in Seq(X) /\ Len(s \o u) = Len(s) + Len(u)
    OBVIOUS
  <2> QED BY <1>5, <1>6, <2>1
<1>9. ASSUME NEW k \in 1 .. a + c
      PROVE  (s \o u)[k] = v[k]
  <2>1. CASE k <= a
    <3>1. k \in 1 .. a
      BY <2>1
    <3>2. (s \o u)[k] = s[k]
      BY <1>5, <1>6, <3>1
    <3> QED BY <1>5, <1>7, <3>1, <3>2
  <2>2. CASE ~(k <= a)
    <3>1. k - a \in 1 .. c /\ a + (k - a) - 1 = k - 1
      BY <2>2
    <3>2. (s \o u)[k] = u[k - a]
      BY <1>5, <1>6, <2>2
    <3> QED BY <1>6, <1>7, <3>1, <3>2
  <2> QED BY <2>1, <2>2
<1>10. s \o u = v
  <2>1. PICK z \in Seq(X) : z = s \o u
    BY <1>8
  <2>2. Len(z) = Len(v) /\ \A k \in 1 .. Len(z) : z[k] = v[k]
    BY <1>7, <1>8, <1>9, <2>1
  <2>3. z = v
    BY <2>2
  <2> QED BY <2>1, <2>3
<1> QED BY <1>5, <1>6, <1>7, <1>10

(***************************************************************************)
(* file_read is at the end of the file, or fails for a block the image     *)
(* lacks, or returns the bytes that follow the position and moves it.      *)
(***************************************************************************)
LEMMA FileReadIs ==
  ASSUME NEW im, IsImage(im), NEW d, d.inode_num \in 0 .. Len(im.inodes) - 1,
         d.fpos \in Nat, d.fpos <= im.inodes[d.inode_num + 1].len,
         NEW nbytes \in Nat \ {0}
  PROVE  LET r == file_read(im, d, nbytes)
             len == im.inodes[d.inode_num + 1].len
         IN \/ r.n = 0 /\ d.fpos = len
            \/ r.n = Failure /\ ~Readable(im, d.inode_num)
            \/ /\ r.n \in Nat \ {0} /\ d.fpos + r.n <= len
               /\ r.fpos = d.fpos + r.n
               /\ r.buf = Piece(im, d.inode_num, d.fpos, r.n)
<1>1. PICK num \in 0 .. Len(im.inodes) - 1, o \in Nat, len \in Nat :
        num = d.inode_num /\ o = d.fpos /\ len = im.inodes[num + 1].len /\ o <= len
  BY InodeFacts
<1> DEFINE wanted == IF o + nbytes > len THEN len - o ELSE nbytes
           got == read_data(im, num, o, wanted)
           r == file_read(im, d, nbytes)
<1>2. r = IF o >= len THEN [n |-> 0, buf |-> <<>>, fpos |-> o]
          ELSE IF got.n = Failure THEN [n |-> Failure, buf |-> <<>>, fpos |-> o]
          ELSE [n |-> got.n, buf |-> got.buf, fpos |-> o + got.n]
  BY <1>1 DEF file_read
<1>3. CASE o >= len
  <2>1. r.n = 0
    BY <1>2, <1>3
  <2> QED BY <1>1, <1>3, <2>1
<1>4. CASE o < len
  <2>1. PICK count \in Nat \ {0} : count = wanted /\ o + count <= len
    <3>1. CASE o + nbytes > len
      <4>1. len - o \in Nat \ {0} /\ o + (len - o) <= len
        BY <1>4
      <4> QED BY <3>1, <4>1
    <3>2. CASE ~(o + nbytes > len)
      <4>1. o + nbytes <= len
        BY <3>2
      <4> QED BY <3>2, <4>1
    <3> QED BY <3>1, <3>2
  <2>2. count = IF o + wanted > len THEN len - o ELSE wanted
    BY <2>1
  <2>3. IF \A k \in 0 .. count - 1 : Has(im, num, o + k)
        THEN got.n = count /\ got.buf = Piece(im, num, o, count)
        ELSE got.n = Failure
    <3> HIDE DEF wanted
    <3>1. count = IF o + count > len THEN len - o ELSE count
      BY <2>1
    <3>2. LET x == read_data(im, num, o, count) IN
            IF \A k \in 0 .. count - 1 : Has(im, num, o + k)
            THEN x.n = count /\ x.buf = Piece(im, num, o, count)
            ELSE x.n = Failure
      BY <1>1, <1>4, <3>1, ReadDataIs
    <3> QED BY <2>1, <3>2
  <2> HIDE DEF wanted, got
  <2>4. ~(o >= len) /\ count # Failure
    BY <1>4 DEF Failure
  <2>5. CASE \A k \in 0 .. count - 1 : Has(im, num, o + k)
    <3>1. r = [n |-> count, buf |-> Piece(im, num, o, count), fpos |-> o + count]
      BY <1>2, <2>3, <2>4, <2>5
    <3> HIDE DEF r
    <3>2. r.n = count /\ r.buf = Piece(im, num, o, count) /\ r.fpos = o + count
      BY <3>1
    <3> QED BY <1>1, <2>1, <3>2 DEF r
  <2>6. CASE ~ \A k \in 0 .. count - 1 : Has(im, num, o + k)
    <3>1. r.n = Failure
      BY <1>2, <2>3, <2>4, <2>6
    <3>2. PICK k \in 0 .. count - 1 : ~Has(im, num, o + k)
      BY <2>6
    <3>3. o + k \in 0 .. len - 1
      BY <2>1
    <3>4. ~Readable(im, num)
      BY <1>1, <3>2, <3>3, ContentsFacts
    <3> QED BY <1>1, <3>1, <3>4
  <2> QED BY <2>5, <2>6
<1> QED BY <1>1, <1>3, <1>4

(***************************************************************************)
(* directory_read returns the next name, as far as it is asked for, and    *)
(* nothing when there is none.                                             *)
(***************************************************************************)
LEMMA DirectoryReadIs ==
  ASSUME NEW im, IsImage(im), NEW d, d.fpos \in Nat, NEW nbytes \in Nat
  PROVE  LET r == directory_read(im, d, nbytes) IN
           /\ r.n \in Nat /\ r.fpos \in Nat
           /\ nbytes = FILENAME_LEN /\ d.fpos < Len(im.dentries) =>
                /\ r.n > 0 /\ r.fpos = d.fpos + 1
                /\ r.buf = im.dentries[d.fpos + 1].name
           /\ d.fpos = Len(im.dentries) => r.n = 0
<1>0. NUM_DENTRIES_BOOT \in Nat /\ FILENAME_LEN \in Nat
  BY FileSystemAssumption
<1>1. PICK L \in Nat, o \in Nat : L = Len(im.dentries) /\ L <= NUM_DENTRIES_BOOT /\ o = d.fpos
  <2>1. Len(im.dentries) \in Nat /\ Len(im.dentries) <= NUM_DENTRIES_BOOT
    BY DEF IsImage
  <2> QED BY <2>1
<1> DEFINE name == Filename(Dentry(im, o))
           len == Clipped(strlen(name))
           m == IF nbytes < len THEN nbytes ELSE len
           r == directory_read(im, d, nbytes)
<1>2. CASE ~(o < NUM_DENTRIES_BOOT)
  <2>1. r = [n |-> 0, buf |-> <<>>, fpos |-> o]
    BY <1>1, <1>2 DEF directory_read, read_dentry_by_index, InDirectory, NotFound
  <2>2. r.n = 0 /\ r.fpos = o
    BY <2>1
  <2>3. ~(o < L)
    BY <1>0, <1>1, <1>2
  <2> QED BY <1>1, <2>2, <2>3
<1>3. CASE o < NUM_DENTRIES_BOOT
  <2>1. r = [n |-> m, buf |-> strncpy(name, m), fpos |-> o + 1]
    BY <1>1, <1>3 DEF directory_read, read_dentry_by_index, InDirectory, Found
  <2>2. o \in 0 .. NUM_DENTRIES_BOOT
    BY <1>0, <1>3
  <2>3. /\ IsText(Dentry(im, o).name) /\ Len(Dentry(im, o).name) \in 0 .. FILENAME_LEN
        /\ Dentry(im, o).name # <<>> => o < L
        /\ o < L => /\ Dentry(im, o) = im.dentries[o + 1] /\ Dentry(im, o).name # <<>>
    BY <1>1, <1>3, <2>2, DentryFacts
  <2>4. PICK e \in Seq(Chars), k \in Nat :
          /\ e = Dentry(im, o).name /\ k = Len(e) /\ k <= FILENAME_LEN
          /\ k = len /\ \A i \in 1 .. k : name[i] = e[i] /\ e[i] # NUL
    <3>1. Dentry(im, o).name \in Seq(Chars) /\ Len(Dentry(im, o).name) \in Nat
            /\ Len(Dentry(im, o).name) <= FILENAME_LEN
      BY <1>0, <2>3, TextFacts
    <3>2. /\ \A i \in 1 .. Len(Dentry(im, o).name) : Dentry(im, o).name[i] # NUL
          /\ len = Len(Dentry(im, o).name)
          /\ \A i \in 1 .. Len(Dentry(im, o).name) : name[i] = Dentry(im, o).name[i]
      BY <2>3, <3>1, TextFacts, FilenameFacts
    <3> QED BY <3>1, <3>2
  <2> HIDE DEF name, len
  <2>5. m \in Nat /\ m <= k
    BY <2>4
  <2> HIDE DEF m
  <2>6. r.n = m /\ r.fpos = o + 1 /\ r.buf = strncpy(name, m)
    BY <2>1
  <2>7. ASSUME nbytes = FILENAME_LEN
        PROVE  m = k /\ strncpy(name, m) = e
    <3>1. m = k
      BY <1>0, <2>4, <2>7 DEF m
    <3>2. strncpy(name, k) = [i \in 1 .. k |-> e[i]]
      <4> DEFINE copied == {i \in 1 .. k : \A j \in 1 .. i : name[j] # NUL}
      <4>1. \A i \in 1 .. k : i \in copied
        <5>1. \A i \in 1 .. k : \A j \in 1 .. i : j \in 1 .. k
          OBVIOUS
        <5> QED BY <2>4, <5>1
      <4>2. strncpy(name, k) = [i \in 1 .. k |-> IF i \in copied THEN name[i] ELSE NUL]
        BY DEF strncpy
      <4> HIDE DEF copied
      <4> QED BY <2>4, <4>1, <4>2
    <3>3. [i \in 1 .. k |-> e[i]] = e
      <4>1. k = Len(e)
        BY <2>4
      <4> QED BY <4>1
    <3> QED BY <3>1, <3>2, <3>3
  <2>8. k = 0 <=> e = <<>>
    <3>1. k = Len(e)
      BY <2>4
    <3> QED BY <3>1
  <2>9. o < L => k > 0
    BY <2>3, <2>4, <2>8
  <2>10. o = L => m = 0
    BY <2>3, <2>4, <2>5, <2>8
  <2> QED
    <3>1. r.n \in Nat /\ r.fpos \in Nat
      BY <2>5, <2>6
    <3>2. ASSUME nbytes = FILENAME_LEN, o < L
          PROVE  r.n > 0 /\ r.fpos = o + 1 /\ r.buf = im.dentries[o + 1].name
      BY <2>3, <2>4, <2>6, <2>7, <2>9, <3>2
    <3> HIDE DEF r
    <3> QED BY <1>1, <2>6, <2>10, <3>1, <3>2 DEF r
<1> QED BY <1>2, <1>3

-----------------------------------------------------------------------------
(***************************************************************************)
(* The fields of a line.                                                   *)
(***************************************************************************)

\* Where a field ends that starts at i: at the next blank, or after the line.
LEMMA FieldEndIs ==
  ASSUME NEW l, IsText(l), NEW i \in 1 .. Len(l) + 1
  PROVE  /\ FieldEnd(CString(l), i) \in i .. Len(l) + 1
         /\ CString(l)[FieldEnd(CString(l), i)] = NUL <=>
              FieldEnd(CString(l), i) = Len(l) + 1
         /\ FieldEnd(CString(l), i) <= Len(l) => l[FieldEnd(CString(l), i)] = Space
         /\ \A j \in i .. FieldEnd(CString(l), i) - 1 : l[j] # Space
<1>1. PICK s \in Seq(Chars), n \in Nat, c \in Seq(Chars) :
        /\ s = l /\ n = Len(s) /\ c = CString(l) /\ Len(c) = n + 1
        /\ c[n + 1] = NUL /\ \A j \in 1 .. n : c[j] = s[j] /\ s[j] # NUL
  <2>1. l \in Seq(Chars) /\ Len(l) \in Nat /\ CString(l) \in Seq(Chars)
          /\ Len(CString(l)) = Len(l) + 1
    BY TextFacts, CStringFacts
  <2>2. /\ CString(l)[Len(l) + 1] = NUL
        /\ \A j \in 1 .. Len(l) : CString(l)[j] = l[j] /\ l[j] # NUL
    BY CStringFacts
  <2> QED BY <2>1, <2>2
<1> DEFINE E == {j \in i .. Len(c) : Ends(c[j])}
<1>2. FieldEnd(c, i) = Min(E)
  BY DEF FieldEnd
<1>3. i \in Nat /\ i <= n + 1
  BY <1>1
<1>4. n + 1 \in E /\ E \in SUBSET Nat
  BY <1>1, <1>3 DEF Ends
<1>5. PICK e \in E : e = Min(E) /\ \A j \in E : e <= j
  <2> HIDE DEF E
  <2> QED BY <1>4, MinIsLeast
<1>6. e \in i .. n + 1 /\ c[e] \in {Space, NUL}
  BY <1>1, <1>5 DEF Ends
<1>7. c[e] = NUL <=> e = n + 1
  BY <1>1, <1>3, <1>6
<1>8. e <= n => s[e] = Space
  BY <1>1, <1>3, <1>6
<1>9. \A j \in i .. e - 1 : s[j] # Space
  <2> SUFFICES ASSUME NEW j \in i .. e - 1, s[j] = Space PROVE FALSE
    OBVIOUS
  <2>1. j \in 1 .. n /\ j \in i .. Len(c) /\ j < e
    BY <1>1, <1>3, <1>6
  <2>2. j \in E
    BY <1>1, <2>1 DEF Ends
  <2> QED BY <1>5, <2>1, <2>2
<1> HIDE DEF E
<1> QED BY <1>1, <1>2, <1>5, <1>6, <1>7, <1>8, <1>9

\* A piece of a text, cut out of its C string.
LEMMA PieceOfText ==
  ASSUME NEW l, IsText(l), NEW a \in 1 .. Len(l) + 1, NEW b \in Int,
         a - 1 <= b, b <= Len(l)
  PROVE  /\ SubSeq(CString(l), a, b) = SubSeq(l, a, b)
         /\ IsText(SubSeq(l, a, b))
         /\ Len(SubSeq(l, a, b)) = b - a + 1
         /\ \A j \in 1 .. b - a + 1 : SubSeq(l, a, b)[j] = l[a + j - 1]
<1>1. PICK s \in Seq(Chars \ {NUL}), n \in Nat : s = l /\ n = Len(s)
  BY TextFacts DEF IsText
<1>2. PICK c \in Seq(Chars) : /\ c = CString(l) /\ Len(c) = n + 1
                              /\ \A j \in 1 .. n : c[j] = s[j]
  BY <1>1, CStringFacts
<1>3. a \in 1 .. n + 1 /\ b <= n
  BY <1>1
<1>4. /\ SubSeq(s, a, b) \in Seq(Chars \ {NUL}) /\ Len(SubSeq(s, a, b)) = b - a + 1
      /\ \A j \in 1 .. b - a + 1 : SubSeq(s, a, b)[j] = s[a + j - 1]
  BY <1>1, <1>3
<1>5. /\ SubSeq(c, a, b) \in Seq(Chars) /\ Len(SubSeq(c, a, b)) = b - a + 1
      /\ \A j \in 1 .. b - a + 1 : SubSeq(c, a, b)[j] = c[a + j - 1]
  BY <1>2, <1>3
<1>6. PICK x \in Seq(Chars), y \in Seq(Chars) :
        x = SubSeq(s, a, b) /\ y = SubSeq(c, a, b)
  <2>1. SubSeq(s, a, b) \in Seq(Chars)
    BY <1>4, SeqMonotonic
  <2> QED BY <1>5, <2>1
<1>7. Len(x) = Len(y) /\ \A j \in 1 .. Len(x) : x[j] = y[j]
  <2>1. \A j \in 1 .. b - a + 1 : a + j - 1 \in 1 .. n
    BY <1>3
  <2> QED BY <1>2, <1>4, <1>5, <1>6, <2>1
<1>8. x = y
  BY <1>7
<1> QED BY <1>1, <1>2, <1>4, <1>6, <1>8 DEF IsText

\* The first field is what parse_command makes the command's name.
LEMMA FirstWordIs ==
  ASSUME IsText(line)
  PROVE  FirstWord = Cmd(CString(line)) /\ IsText(FirstWord)
<1>1. PICK e, n \in Nat :
        /\ e = FieldEnd(CString(line), 1) /\ n = Len(line)
        /\ e \in 1 .. n + 1 /\ (e <= n => line[e] = Space)
        /\ \A j \in 1 .. e - 1 : line[j] # Space
  <2>1. Len(line) \in Nat /\ 1 \in 1 .. Len(line) + 1
    BY TextFacts
  <2>2. FieldEnd(CString(line), 1) \in 1 .. Len(line) + 1
    BY <2>1, FieldEndIs
  <2> QED BY <2>1, <2>2, FieldEndIs
<1> DEFINE Cut(m) == SubSeq(line, 1, m)
           Word(w) == IsField(w) /\ (w = line \/ line[Len(w) + 1] = Space)
<1>2. ASSUME NEW m \in 0 .. n
      PROVE  /\ IsText(Cut(m)) /\ Len(Cut(m)) = m
             /\ \A j \in 1 .. m : Cut(m)[j] = line[j]
             /\ SubSeq(CString(line), 1, m) = Cut(m)
  <2>1. m \in Int /\ 1 - 1 <= m /\ m <= Len(line) /\ 1 \in 1 .. Len(line) + 1
    BY <1>1
  <2>2. m - 1 + 1 = m /\ \A j \in 1 .. m : 1 + j - 1 = j
    OBVIOUS
  <2> HIDE DEF Cut
  <2> QED BY <2>1, <2>2, PieceOfText DEF Cut
<1>3. Cut(n) = line
  <2>1. line \in Seq(Chars)
    BY TextFacts
  <2> QED BY <1>1, <2>1
<1>4. Prefixes(line) = {Cut(m) : m \in 0 .. n}
  BY <1>1 DEF Prefixes
<1> HIDE DEF Cut
<1>5. e - 1 \in 0 .. n
  BY <1>1
<1>6. Word(Cut(e - 1))
  <2>1. IsField(Cut(e - 1))
    BY <1>1, <1>2, <1>5 DEF IsField
  <2>2. CASE e - 1 = n
    BY <1>3, <2>1, <2>2
  <2>3. CASE e - 1 # n
    <3>1. e <= n /\ (e - 1) + 1 = e
      BY <1>1, <2>3
    <3> QED BY <1>1, <1>2, <1>5, <2>1, <3>1
  <2> QED BY <2>2, <2>3
<1>7. ASSUME NEW m \in 0 .. n, Word(Cut(m))
      PROVE  m = e - 1
  <2>1. ~(m < e - 1)
    <3> SUFFICES ASSUME m < e - 1 PROVE FALSE
      OBVIOUS
    <3>1. m < n /\ m + 1 \in 1 .. e - 1
      BY <1>1
    <3>2. Cut(m) # line
      BY <1>1, <1>2, <3>1
    <3>3. line[m + 1] = Space
      BY <1>2, <1>7, <3>2
    <3> QED BY <1>1, <3>1, <3>3
  <2>2. ~(m > e - 1)
    <3> SUFFICES ASSUME m > e - 1 PROVE FALSE
      OBVIOUS
    <3>1. e \in 1 .. m /\ e <= n
      BY <1>1
    <3>2. Cut(m)[e] = Space
      BY <1>1, <1>2, <3>1
    <3> QED BY <1>2, <1>7, <3>1, <3>2 DEF IsField
  <2> QED BY <1>1, <2>1, <2>2
<1>8. \A w \in Prefixes(line) : Word(w) <=> w = Cut(e - 1)
  BY <1>4, <1>5, <1>6, <1>7
<1>9. Cut(e - 1) \in Prefixes(line)
  BY <1>4, <1>5
<1>10. FirstWord = CHOOSE w \in Prefixes(line) : Word(w)
  BY DEF FirstWord, FirstField
<1>11. FirstWord = Cut(e - 1)
  <2> HIDE DEF Word
  <2> QED BY <1>8, <1>9, <1>10
<1> QED BY <1>1, <1>2, <1>5, <1>11 DEF Cmd

\* The elements of a piece.
LEMMA PieceFacts ==
  ASSUME NEW X, NEW s \in Seq(X), NEW a \in Nat \ {0}, NEW c \in Nat, a + c - 1 <= Len(s)
  PROVE  /\ SubSeq(s, a, a + c - 1) \in Seq(X) /\ Len(SubSeq(s, a, a + c - 1)) = c
         /\ \A j \in 1 .. c : SubSeq(s, a, a + c - 1)[j] = s[a + j - 1]
<1>1. PICK b \in Int : b = a + c - 1
  OBVIOUS
<1>2. \A j \in a .. b : s[j] \in X
  BY <1>1
<1>3. /\ SubSeq(s, a, b) \in Seq(X)
      /\ Len(SubSeq(s, a, b)) = IF a <= b THEN b - a + 1 ELSE 0
      /\ \A j \in 1 .. b - a + 1 : SubSeq(s, a, b)[j] = s[a + j - 1]
  BY <1>1, <1>2
<1>4. b - a + 1 = c /\ (a <= b <=> c # 0)
  BY <1>1
<1> QED BY <1>1, <1>3, <1>4

\* Two pieces in a row are a piece.
LEMMA PiecesMeet ==
  ASSUME NEW X, NEW s \in Seq(X), NEW k \in Nat, NEW m \in Nat, k <= m, m <= Len(s)
  PROVE  SubSeq(s, 1, k) \o SubSeq(s, k + 1, m) = SubSeq(s, 1, m)
<1>1. PICK c \in Nat : m = k + c /\ (k + 1) + c - 1 = m /\ 1 + k - 1 = k /\ 1 + m - 1 = m
  <2>1. m - k \in Nat /\ m = k + (m - k) /\ (k + 1) + (m - k) - 1 = m
          /\ 1 + k - 1 = k /\ 1 + m - 1 = m
    OBVIOUS
  <2> QED BY <2>1
<1>2. PICK x \in Seq(X) : /\ x = SubSeq(s, 1, k) /\ Len(x) = k
                          /\ \A j \in 1 .. k : x[j] = s[j]
  <2>1. \A j \in 1 .. k : 1 + j - 1 = j
    OBVIOUS
  <2>2. 1 \in Nat \ {0} /\ 1 + k - 1 <= Len(s)
    OBVIOUS
  <2>3. /\ SubSeq(s, 1, k) \in Seq(X) /\ Len(SubSeq(s, 1, k)) = k
        /\ \A j \in 1 .. k : SubSeq(s, 1, k)[j] = s[1 + j - 1]
    BY <1>1, <2>2, PieceFacts
  <2> QED BY <2>1, <2>3
<1>3. PICK y \in Seq(X) : /\ y = SubSeq(s, k + 1, m) /\ Len(y) = c
                          /\ \A j \in 1 .. c : y[j] = s[k + j]
  <2>1. \A j \in 1 .. c : (k + 1) + j - 1 = k + j
    OBVIOUS
  <2>2. k + 1 \in Nat \ {0} /\ (k + 1) + c - 1 <= Len(s)
    BY <1>1
  <2>3. /\ SubSeq(s, k + 1, m) \in Seq(X) /\ Len(SubSeq(s, k + 1, m)) = c
        /\ \A j \in 1 .. c : SubSeq(s, k + 1, m)[j] = s[(k + 1) + j - 1]
    BY <1>1, <2>2, PieceFacts
  <2>4. PICK y \in Seq(X) : y = SubSeq(s, k + 1, m)
    BY <2>3
  <2>5. Len(y) = c /\ \A j \in 1 .. c : y[j] = s[k + j]
    BY <2>1, <2>3, <2>4
  <2> QED BY <2>4, <2>5
<1>4. PICK z \in Seq(X) : /\ z = SubSeq(s, 1, m) /\ Len(z) = m
                          /\ \A j \in 1 .. m : z[j] = s[j]
  <2>1. \A j \in 1 .. m : 1 + j - 1 = j
    OBVIOUS
  <2>2. 1 \in Nat \ {0} /\ 1 + m - 1 <= Len(s)
    OBVIOUS
  <2>3. /\ SubSeq(s, 1, m) \in Seq(X) /\ Len(SubSeq(s, 1, m)) = m
        /\ \A j \in 1 .. m : SubSeq(s, 1, m)[j] = s[1 + j - 1]
    BY <1>1, <2>2, PieceFacts
  <2> QED BY <2>1, <2>3
<1>5. /\ x \o y \in Seq(X) /\ Len(x \o y) = m
      /\ \A j \in 1 .. k : (x \o y)[j] = x[j]
      /\ \A j \in 1 .. c : (x \o y)[k + j] = y[j]
  <2>1. x \in Seq(X) /\ y \in Seq(X) /\ Len(x) = k /\ Len(y) = c /\ c \in Nat
    BY <1>1, <1>2, <1>3
  <2>2. /\ x \o y \in Seq(X) /\ Len(x \o y) = k + c
        /\ \A j \in 1 .. k : (x \o y)[j] = x[j]
        /\ \A j \in 1 .. c : (x \o y)[k + j] = y[j]
    <3>1. x \o y \in Seq(X) /\ Len(x \o y) = Len(x) + Len(y)
      OBVIOUS
    <3>2. \A j \in 1 .. Len(x) : (x \o y)[j] = x[j]
      OBVIOUS
    <3>3. \A j \in 1 .. Len(y) : (x \o y)[Len(x) + j] = y[j]
      OBVIOUS
    <3> QED BY <2>1, <3>1, <3>2, <3>3
  <2>3. k + c = m
    BY <1>1
  <2> QED BY <2>2, <2>3, Zenon
<1>6. \A j \in 1 .. m : (x \o y)[j] = z[j]
  <2> TAKE j \in 1 .. m
  <2>1. CASE j <= k
    <3>1. j \in 1 .. k
      BY <2>1
    <3> QED BY <1>2, <1>4, <1>5, <3>1
  <2>2. CASE ~(j <= k)
    <3>1. PICK i \in 1 .. c : k + i = j
      <4>1. j - k \in 1 .. c /\ k + (j - k) = j
        BY <1>1, <2>2
      <4> QED BY <4>1
    <3> QED BY <1>3, <1>4, <1>5, <3>1
  <2> QED BY <2>1, <2>2
<1>7. x \o y = z
  BY <1>4, <1>5, <1>6, SameSeq
<1> QED BY <1>2, <1>3, <1>4, <1>7

\* Four pieces of a sequence in a row, one of them a single element, are all of it.
LEMMA CutInFour ==
  ASSUME NEW X, NEW s \in Seq(X), NEW e \in 1 .. Len(s), NEW f \in e + 1 .. Len(s) + 1
  PROVE  s = SubSeq(s, 1, e - 1) \o <<s[e]>> \o SubSeq(s, e + 1, f - 1) \o SubSeq(s, f, Len(s))
<1>1. PICK n \in Nat : n = Len(s) /\ e \in 1 .. n /\ f \in e + 1 .. n + 1
  OBVIOUS
<1>2. <<s[e]>> = SubSeq(s, e, e)
  <2>1. s[e] \in X /\ e \in Nat \ {0} /\ e + 1 - 1 = e /\ e <= Len(s) /\ 1 \in Nat
          /\ e + 1 - 1 <= Len(s)
    BY <1>1
  <2>2. <<s[e]>> \in Seq(X) /\ Len(<<s[e]>>) = 1 /\ \A j \in 1 .. 1 : <<s[e]>>[j] = s[e]
    BY <2>1
  <2>3. /\ SubSeq(s, e, e) \in Seq(X) /\ Len(SubSeq(s, e, e)) = 1
        /\ \A j \in 1 .. 1 : SubSeq(s, e, e)[j] = s[e + j - 1]
    BY <2>1, PieceFacts
  <2>4. \A j \in 1 .. 1 : SubSeq(s, e, e)[j] = s[e]
    <3>1. \A j \in 1 .. 1 : e + j - 1 = e
      BY <2>1
    <3> QED BY <2>3, <3>1
  <2>5. \A j \in 1 .. 1 : <<s[e]>>[j] = SubSeq(s, e, e)[j]
    BY <2>2, <2>4
  <2> QED BY <2>1, <2>2, <2>3, <2>5, SameSeq
<1>3. SubSeq(s, 1, e - 1) \o SubSeq(s, e, e) = SubSeq(s, 1, e)
  <2>1. e - 1 \in Nat /\ e \in Nat /\ e - 1 <= e /\ e <= Len(s) /\ (e - 1) + 1 = e
    BY <1>1
  <2>2. SubSeq(s, 1, e - 1) \o SubSeq(s, (e - 1) + 1, e) = SubSeq(s, 1, e)
    BY <2>1, PiecesMeet
  <2> QED BY <2>1, <2>2
<1>4. SubSeq(s, 1, e) \o SubSeq(s, e + 1, f - 1) = SubSeq(s, 1, f - 1)
  <2>1. e \in Nat /\ f - 1 \in Nat /\ e <= f - 1 /\ f - 1 <= Len(s)
    BY <1>1
  <2> QED BY <2>1, PiecesMeet
<1>5. SubSeq(s, 1, f - 1) \o SubSeq(s, f, n) = SubSeq(s, 1, n)
  <2>1. f - 1 \in Nat /\ n \in Nat /\ f - 1 <= n /\ n <= Len(s) /\ (f - 1) + 1 = f
    BY <1>1
  <2>2. SubSeq(s, 1, f - 1) \o SubSeq(s, (f - 1) + 1, n) = SubSeq(s, 1, n)
    BY <2>1, PiecesMeet
  <2> QED BY <2>1, <2>2
<1>6. SubSeq(s, 1, n) = s
  BY <1>1
<1> QED BY <1>1, <1>2, <1>3, <1>4, <1>5, <1>6

(***************************************************************************)
(* The second field: there is one if the line has a blank, it follows the  *)
(* first blank and ends at the next one or with the line.                  *)
(***************************************************************************)
LEMMA ArgIs ==
  ASSUME IsText(line)
  PROVE  /\ HasArg(CString(line)) <=> ~IsField(line)
         /\ HasArg(CString(line)) =>
              /\ IsText(Arg(CString(line))) /\ IsField(Arg(CString(line)))
              /\ \E rest \in Suffixes(line) :
                   /\ line = FirstWord \o <<Space>> \o Arg(CString(line)) \o rest
                   /\ rest # <<>> => rest[1] = Space
<1>1. PICK e, n \in Nat, s \in Seq(Chars) :
        /\ e = FieldEnd(CString(line), 1) /\ s = line /\ n = Len(s)
        /\ e \in 1 .. n + 1 /\ (e <= n => s[e] = Space)
        /\ CString(line)[e] = NUL <=> e = n + 1
        /\ \A j \in 1 .. e - 1 : s[j] # Space
  <2>1. line \in Seq(Chars) /\ Len(line) \in Nat /\ 1 \in 1 .. Len(line) + 1
    BY TextFacts
  <2>2. FieldEnd(CString(line), 1) \in 1 .. Len(line) + 1
    BY <2>1, FieldEndIs
  <2> QED BY <2>1, <2>2, FieldEndIs
<1>2. HasArg(CString(line)) <=> e <= n
  BY <1>1 DEF HasArg
<1>3. e <= n <=> ~IsField(s)
  <2>1. ASSUME e <= n PROVE ~IsField(s)
    <3>1. e \in 1 .. Len(s) /\ s[e] = Space
      BY <1>1, <2>1
    <3> QED BY <3>1 DEF IsField
  <2>2. ASSUME ~(e <= n) PROVE IsField(s)
    <3>1. \A j \in 1 .. Len(s) : j \in 1 .. e - 1
      BY <1>1, <2>2
    <3> QED BY <1>1, <3>1 DEF IsField
  <2> QED BY <2>1, <2>2
<1>4. ASSUME e <= n
      PROVE  /\ IsText(Arg(CString(line))) /\ IsField(Arg(CString(line)))
             /\ \E rest \in Suffixes(line) :
                  /\ line = FirstWord \o <<Space>> \o Arg(CString(line)) \o rest
                  /\ rest # <<>> => rest[1] = Space
  <2>1. PICK f \in Nat :
          /\ f = FieldEnd(CString(line), e + 1)
          /\ f \in e + 1 .. n + 1 /\ (f <= n => s[f] = Space)
          /\ \A j \in e + 1 .. f - 1 : s[j] # Space
    <3>1. e + 1 \in 1 .. Len(line) + 1
      BY <1>1, <1>4
    <3>2. /\ FieldEnd(CString(line), e + 1) \in e + 1 .. Len(line) + 1
          /\ FieldEnd(CString(line), e + 1) <= Len(line) =>
               line[FieldEnd(CString(line), e + 1)] = Space
          /\ \A j \in e + 1 .. FieldEnd(CString(line), e + 1) - 1 : line[j] # Space
      BY <3>1, FieldEndIs
    <3>3. FieldEnd(CString(line), e + 1) \in Nat
      BY <1>1, <3>2
    <3> QED BY <1>1, <3>2, <3>3
  <2>2. Arg(CString(line)) = SubSeq(CString(line), e + 1, f - 1)
    BY <1>1, <2>1 DEF Arg
  <2>3. /\ Arg(CString(line)) = SubSeq(line, e + 1, f - 1)
        /\ IsText(SubSeq(line, e + 1, f - 1))
        /\ Len(SubSeq(line, e + 1, f - 1)) = f - 1 - (e + 1) + 1
        /\ \A j \in 1 .. f - 1 - (e + 1) + 1 :
             SubSeq(line, e + 1, f - 1)[j] = line[(e + 1) + j - 1]
    <3>1. e + 1 \in 1 .. Len(line) + 1 /\ f - 1 \in Int /\ (e + 1) - 1 <= f - 1
            /\ f - 1 <= Len(line)
      BY <1>1, <1>4, <2>1
    <3> QED BY <2>2, <3>1, PieceOfText
  <2>4. IsField(Arg(CString(line)))
    <3>1. \A j \in 1 .. f - 1 - (e + 1) + 1 : (e + 1) + j - 1 \in e + 1 .. f - 1
      BY <2>1
    <3>2. PICK m \in Int : m = f - 1 - (e + 1) + 1
      BY <1>1, <2>1
    <3>3. \A j \in 1 .. m : SubSeq(line, e + 1, f - 1)[j] # Space
      BY <1>1, <2>1, <2>3, <3>1, <3>2
    <3> QED BY <2>3, <3>2, <3>3 DEF IsField
  <2>5. FirstWord = SubSeq(line, 1, e - 1)
    <3>1. 1 \in 1 .. Len(line) + 1 /\ e - 1 \in Int /\ 1 - 1 <= e - 1 /\ e - 1 <= Len(line)
      BY <1>1, <1>4
    <3>2. SubSeq(CString(line), 1, e - 1) = SubSeq(line, 1, e - 1)
      BY <3>1, PieceOfText
    <3> QED BY <1>1, <3>2, FirstWordIs DEF Cmd
  <2>6. line = FirstWord \o <<Space>> \o Arg(CString(line)) \o SubSeq(line, f, n)
    <3>1. e \in 1 .. Len(s) /\ f \in e + 1 .. Len(s) + 1
      BY <1>1, <1>4, <2>1
    <3>2. s = SubSeq(s, 1, e - 1) \o <<s[e]>> \o SubSeq(s, e + 1, f - 1) \o SubSeq(s, f, Len(s))
      BY <3>1, CutInFour
    <3>3. s[e] = Space
      BY <1>1, <1>4
    <3> QED BY <1>1, <2>3, <2>5, <3>2, <3>3
  <2>7. CASE f = n + 1
    <3>1. SubSeq(s, f, n) = <<>>
      BY <1>1, <2>7
    <3>2. <<>> \in Suffixes(line)
      BY DEF Suffixes
    <3> QED BY <1>1, <2>3, <2>4, <2>6, <3>1, <3>2
  <2>8. CASE f # n + 1
    <3>1. f \in 1 .. n /\ s[f] = Space
      BY <1>1, <2>1, <2>8
    <3>2. SubSeq(line, f, n) \in Suffixes(line)
      BY <1>1, <3>1 DEF Suffixes
    <3>3. SubSeq(s, f, n)[1] = s[f]
      BY <1>1, <3>1
    <3> QED BY <1>1, <2>3, <2>4, <2>6, <3>1, <3>2, <3>3
  <2> QED BY <2>7, <2>8
<1> QED BY <1>1, <1>2, <1>3, <1>4

\* The word in arg1, and whether getargs finds one.
LEMMA ArgWordIs ==
  ASSUME NEW v, IsText(v), arg1 = CString(v)
  PROVE  ArgWord = v /\ (GetArgs <=> v # <<>>)
<1>1. PICK s \in Seq(Chars), n \in Nat : s = v /\ n = Len(s)
  BY TextFacts
<1>2. strlen(arg1) = n
  BY <1>1, StrlenOfCString
<1>3. ArgWord = SubSeq(CString(v), 1, n)
  BY <1>2 DEF ArgWord
<1>4. SubSeq(CString(v), 1, n) = SubSeq(v, 1, n)
  <2>1. 1 \in 1 .. Len(v) + 1 /\ n \in Int /\ 1 - 1 <= n /\ n <= Len(v)
    BY <1>1
  <2> QED BY <2>1, PieceOfText
<1>5. SubSeq(s, 1, n) = s
  BY <1>1
<1>6. GetArgs <=> n # 0
  <2>1. CASE n = 0
    <3>1. CString(v)[0 + 1] = NUL
      BY <1>1, <2>1, CStringFacts
    <3>2. 0 + 1 = 1
      OBVIOUS
    <3> QED BY <2>1, <3>1, <3>2 DEF GetArgs
  <2>2. CASE n # 0
    <3>1. 1 \in 1 .. Len(v)
      BY <1>1, <2>2
    <3> QED BY <2>2, <3>1, CStringFacts DEF GetArgs
  <2> QED BY <2>1, <2>2
<1>7. n = 0 <=> s = <<>>
  BY <1>1
<1> QED BY <1>1, <1>3, <1>4, <1>5, <1>6, <1>7

-----------------------------------------------------------------------------
(***************************************************************************)
(* Entries and the programs they lead to.                                  *)
(***************************************************************************)

\* What an image promises of the entries with a name.
LEMMA NamedFacts ==
  ASSUME NEW im, IsImage(im), NEW w, NEW d \in Named(im, w)
  PROVE  /\ d.inode_num \in 0 .. Len(im.inodes) - 1
         /\ d.filetype \in {RtcType, DirType, FileType}
         /\ \A e \in Named(im, w) : e = d
         /\ d.name = Truncated(w)
         /\ d.name = <<".">> => d.filetype = DirType
         /\ d.filetype # FileType =>
              \/ im.inodes[d.inode_num + 1].len = 0
              \/ im.inodes[d.inode_num + 1].data_block_num[1] \notin DOMAIN im.elf
<1> DEFINE Entry == [name : Seq(Chars), filetype : {RtcType, DirType, FileType},
                     inode_num : 0 .. Len(im.inodes) - 1]
<1>1. PICK s \in Seq(Entry) : s = im.dentries
  BY DEF IsImage
<1>2. PICK i \in 1 .. Len(s) : d = s[i] /\ s[i].name = Truncated(w)
  BY <1>1 DEF Named
<1>3. s[i] \in Entry
  <2> HIDE DEF Entry
  <2> QED OBVIOUS
<1>4. d.inode_num \in 0 .. Len(im.inodes) - 1 /\ d.filetype \in {RtcType, DirType, FileType}
  BY <1>2, <1>3
<1>5. ASSUME NEW e \in Named(im, w)
      PROVE  e = d
  <2>1. PICK j \in 1 .. Len(s) : e = s[j] /\ s[j].name = Truncated(w)
    BY <1>1, <1>5 DEF Named
  <2>2. \A k \in 1 .. Len(s) : s[k].name = s[i].name => k = i
    BY <1>1 DEF IsImage
  <2> QED BY <1>2, <2>1, <2>2
<1>6. /\ d.name = <<".">> => d.filetype = DirType
      /\ d.filetype # FileType =>
              \/ im.inodes[d.inode_num + 1].len = 0
              \/ im.inodes[d.inode_num + 1].data_block_num[1] \notin DOMAIN im.elf
  BY <1>1, <1>2 DEF IsImage
<1> QED BY <1>2, <1>4, <1>5, <1>6

(***************************************************************************)
(* check_exec accepts the entry of a name if the first bytes of its file   *)
(* can be read and are those of a program: then it is a file.              *)
(***************************************************************************)
LEMMA IsExecIs ==
  ASSUME img \in Images, NEW w, NEW d \in Named(img, w)
  PROVE  LET num == d.inode_num
             len == img.inodes[num + 1].len
         IN /\ IsExec(d) => d.filetype = FileType /\ StartsElf(num) /\ len > 0
            /\ len >= HeaderLen /\ StartsElf(num) /\ Readable(img, num) => IsExec(d)
<1> DEFINE num == d.inode_num
           len == img.inodes[num + 1].len
           header == read_data(img, num, 0, HeaderLen)
           Elf == {Byte(b, 0) : b \in DOMAIN img.elf}
<1>0. /\ IsImage(img) /\ HeaderLen \in Nat \ {0}
      /\ num \in 0 .. Len(img.inodes) - 1
      /\ d.filetype # FileType =>
           len = 0 \/ img.inodes[num + 1].data_block_num[1] \notin DOMAIN img.elf
  <2>1. IsImage(img) /\ HeaderLen \in Nat \ {0}
    BY CommandsAssumption
  <2> QED BY <2>1, NamedFacts
<1>1. len \in Nat
  BY <1>0, InodeFacts
<1>2. IsExec(d) <=> header.n = HeaderLen /\ header.buf[1] \in Elf
  BY DEF IsExec
<1>3. StartsElf(num) <=> Contents(img, num)[1] \in Elf
  BY DEF StartsElf
<1>4. len > 0 => Contents(img, num)[1] = Byte(img.inodes[num + 1].data_block_num[1], 0)
  BY <1>0, ContentsFacts
<1>5. \A b : Byte(b, 0) \in Elf => b \in DOMAIN img.elf
  BY DEF Byte
<1>6. CASE len < HeaderLen
  <2>1. header.n # HeaderLen
    <3>1. CASE len = 0
      <4>1. 0 \in Nat /\ HeaderLen \in Nat /\ ~(0 < len)
        BY <1>0, <3>1
      <4>2. header.n = Failure
        BY <1>0, <4>1, ReadDataFails
      <4> QED BY <1>0, <4>2 DEF Failure
    <3>2. CASE len # 0
      <4>1. 0 \in Nat /\ 0 < len /\ len = IF 0 + HeaderLen > len THEN len - 0 ELSE HeaderLen
        BY <1>0, <1>1, <1>6, <3>2
      <4>2. header.n = len \/ header.n = Failure
        <5> HIDE DEF header
        <5>1. LET r == read_data(img, num, 0, HeaderLen) IN
                IF \A k \in 0 .. len - 1 : Has(img, num, 0 + k)
                THEN r.n = len /\ r.buf = Piece(img, num, 0, len)
                ELSE r.n = Failure
          BY <1>0, <1>1, <4>1, ReadDataIs
        <5> QED BY <5>1 DEF header
      <4> QED BY <1>0, <1>1, <1>6, <4>2 DEF Failure
    <3> QED BY <3>1, <3>2
  <2> QED BY <1>0, <1>1, <1>2, <1>6, <2>1
<1>7. CASE len >= HeaderLen
  <2>1. /\ 0 \in Nat /\ 0 < len /\ len > 0
        /\ HeaderLen = IF 0 + HeaderLen > len THEN len - 0 ELSE HeaderLen
    BY <1>0, <1>1, <1>7
  <2>2. IF \A k \in 0 .. HeaderLen - 1 : Has(img, num, 0 + k)
        THEN header.n = HeaderLen /\ header.buf = Piece(img, num, 0, HeaderLen)
        ELSE header.n = Failure
    BY <1>0, <1>1, <2>1, ReadDataIs
  <2>3. Piece(img, num, 0, HeaderLen)[1] = Contents(img, num)[1]
    <3>1. Contents(img, num) = Piece(img, num, 0, len)
      BY <1>0, ContentsFacts
    <3>2. 1 \in 1 .. HeaderLen /\ 1 \in 1 .. len
      BY <1>0, <1>1, <2>1
    <3> QED BY <3>1, <3>2 DEF Piece
  <2>4. HeaderLen # Failure
    BY <1>0 DEF Failure
  <2>5. ASSUME IsExec(d)
        PROVE  d.filetype = FileType /\ StartsElf(num)
    <3>1. header.n = HeaderLen /\ header.buf[1] \in Elf
      BY <1>2, <2>5
    <3> HIDE DEF header, Elf
    <3>2. Contents(img, num)[1] \in Elf
      BY <2>2, <2>3, <2>4, <3>1
    <3>3. img.inodes[num + 1].data_block_num[1] \in DOMAIN img.elf
      BY <1>4, <1>5, <2>1, <3>2
    <3> QED BY <1>0, <1>1, <1>3, <2>1, <3>2, <3>3
  <2>6. ASSUME StartsElf(num), Readable(img, num)
        PROVE  IsExec(d)
    <3>1. \A k \in 0 .. HeaderLen - 1 : Has(img, num, 0 + k)
      <4>1. \A k \in 0 .. HeaderLen - 1 : k \in 0 .. len - 1 /\ 0 + k = k
        BY <1>0, <1>1, <1>7
      <4> QED BY <1>0, <2>6, <4>1, ContentsFacts
    <3> HIDE DEF header, Elf
    <3> QED BY <1>2, <1>3, <2>2, <2>3, <2>6, <3>1
  <2> QED BY <2>1, <2>5, <2>6
<1> QED BY <1>0, <1>1, <1>6, <1>7

(***************************************************************************)
(* What check_exec and the loading make of a line.                         *)
(***************************************************************************)
LEMMA CheckExecIs ==
  ASSUME img \in Images, line \in Lines
  PROVE  /\ check_exec(CString(line)) =>
              \E d \in Named(img, FirstWord) :
                /\ d.filetype = FileType /\ StartsElf(d.inode_num)
                /\ img.inodes[d.inode_num + 1].len > 0
                /\ Load(CString(line)).n # Failure =>
                     Load(CString(line)).buf = Contents(img, d.inode_num)
                /\ Load(CString(line)).n = Failure => ~Readable(img, d.inode_num)
         /\ ~check_exec(CString(line)) =>
              \A d \in Named(img, FirstWord) :
                \/ img.inodes[d.inode_num + 1].len < HeaderLen
                \/ ~StartsElf(d.inode_num) \/ ~Readable(img, d.inode_num)
<1> DEFINE C == CString(line)
           r == DentryOf(C)
<1>1. IsImage(img) /\ IsText(line) /\ HeaderLen \in Nat
  BY CommandsAssumption
<1>2. IsText(FirstWord) /\ Cmd(C) = FirstWord
  BY <1>1, FirstWordIs
<1>3. /\ r.ok \in BOOLEAN /\ (r.ok <=> FirstWord # <<>> /\ Named(img, FirstWord) # {})
      /\ r.ok => r.dentry \in Named(img, FirstWord)
  BY <1>1, <1>2, ByName DEF DentryOf
<1>4. check_exec(C) <=> r.ok /\ IsExec(r.dentry)
  BY DEF check_exec
<1> HIDE DEF C
<1>5. ASSUME check_exec(C)
      PROVE  \E d \in Named(img, FirstWord) :
                /\ d.filetype = FileType /\ StartsElf(d.inode_num)
                /\ img.inodes[d.inode_num + 1].len > 0
                /\ Load(C).n # Failure => Load(C).buf = Contents(img, d.inode_num)
                /\ Load(C).n = Failure => ~Readable(img, d.inode_num)
  <2>1. PICK d \in Named(img, FirstWord) : d = r.dentry /\ IsExec(d)
    BY <1>3, <1>4, <1>5
  <2>2. d.filetype = FileType /\ StartsElf(d.inode_num)
          /\ img.inodes[d.inode_num + 1].len > 0
    BY <2>1, IsExecIs
  <2>3. PICK num \in 0 .. Len(img.inodes) - 1, len \in Nat :
          num = d.inode_num /\ len = img.inodes[num + 1].len
    <3>1. d.inode_num \in 0 .. Len(img.inodes) - 1
      BY <1>1, NamedFacts
    <3> QED BY <1>1, <3>1, InodeFacts
  <2>4. Load(C) = read_data(img, num, 0, len)
    BY <2>1, <2>3 DEF Load
  <2>5. 0 \in Nat /\ 0 < len /\ len = IF 0 + len > len THEN len - 0 ELSE len
    BY <2>2, <2>3
  <2>6. IF \A k \in 0 .. len - 1 : Has(img, num, 0 + k)
        THEN Load(C).n = len /\ Load(C).buf = Piece(img, num, 0, len)
        ELSE Load(C).n = Failure
    <3>1. /\ 0 < img.inodes[num + 1].len
          /\ len = IF 0 + len > img.inodes[num + 1].len
                   THEN img.inodes[num + 1].len - 0 ELSE len
      BY <2>3, <2>5
    <3>2. LET x == read_data(img, num, 0, len) IN
            IF \A k \in 0 .. len - 1 : Has(img, num, 0 + k)
            THEN x.n = len /\ x.buf = Piece(img, num, 0, len)
            ELSE x.n = Failure
      BY <1>1, <2>5, <3>1, ReadDataIs
    <3> QED BY <2>4, <3>2
  <2>7. Contents(img, num) = Piece(img, num, 0, len)
          /\ (Readable(img, num) <=> \A k \in 0 .. len - 1 : Has(img, num, k))
    BY <1>1, <2>3, ContentsFacts
  <2>8. (\A k \in 0 .. len - 1 : Has(img, num, 0 + k)) <=> Readable(img, num)
    <3>1. \A k \in 0 .. len - 1 : 0 + k = k
      OBVIOUS
    <3> QED BY <2>7, <3>1
  <2>9. len # Failure
    BY DEF Failure
  <2> QED BY <2>2, <2>3, <2>6, <2>7, <2>8, <2>9
<1>6. ASSUME ~check_exec(C), NEW d \in Named(img, FirstWord)
      PROVE  \/ img.inodes[d.inode_num + 1].len < HeaderLen
             \/ ~StartsElf(d.inode_num) \/ ~Readable(img, d.inode_num)
  <2>1. FirstWord # <<>>
    <3> SUFFICES ASSUME FirstWord = <<>> PROVE FALSE
      OBVIOUS
    <3>1. Truncated(FirstWord) = <<>>
      <4>1. Truncated(FirstWord) \in Seq(Chars) /\ Len(Truncated(FirstWord)) = 0
        BY <1>2, TruncatedFacts
      <4> QED BY <4>1
    <3>2. PICK i \in 1 .. Len(img.dentries) : img.dentries[i].name = <<>>
      BY <3>1 DEF Named
    <3>3. Len(img.dentries[i].name) \in 1 .. FILENAME_LEN
      BY <1>1 DEF IsImage
    <3>4. Len(<<>>) = 0
      OBVIOUS
    <3> QED BY <3>2, <3>3, <3>4
  <2>2. r.ok /\ r.dentry = d
    BY <1>1, <1>3, <2>1, NamedFacts
  <2>3. ~IsExec(d)
    BY <1>4, <1>6, <2>2
  <2>4. d.inode_num \in 0 .. Len(img.inodes) - 1
    BY <1>1, NamedFacts
  <2>5. img.inodes[d.inode_num + 1].len \in Nat
    BY <1>1, <2>4, InodeFacts
  <2>6. ~(img.inodes[d.inode_num + 1].len >= HeaderLen /\ StartsElf(d.inode_num)
            /\ Readable(img, d.inode_num))
    BY <2>3, IsExecIs
  <2> QED BY <1>1, <2>5, <2>6
<1> QED BY <1>5, <1>6 DEF C

-----------------------------------------------------------------------------
(***************************************************************************)
(* What ls writes.                                                         *)
(***************************************************************************)

\* Sequences in a row: g has the values that FlattenSeq goes through.
Flattens(g, ss, Y, n) ==
  /\ g \in [1 .. n -> Seq(Y)]
  /\ FlattenSeq(ss) = g[n]
  /\ \A i \in 1 .. n : g[i] = IF i = 1 THEN ss[i] ELSE g[i - 1] \o ss[i]

LEMMA FlattenIs ==
  ASSUME NEW Y, NEW ss \in Seq(Seq(Y)), NEW n \in Nat \ {0}, Len(ss) = n
  PROVE  \E g : Flattens(g, ss, Y, n)
<1> DEFINE X == Seq(Y)
           Flat(f) == [i \in 1 .. n |-> IF i = 1 THEN ss[i] ELSE f[i - 1] \o ss[i]]
           step == [i \in Nat |-> [x \in X |-> IF i \in 1 .. n THEN x \o ss[i] ELSE x]]
<1>1. FlattenSeq(ss) = (CHOOSE f : f = Flat(f))[n]
  BY DEF FlattenSeq
<1>2. \A i \in 1 .. n : ss[i] \in X
  OBVIOUS
<1>3. step \in [Nat -> [X -> X]]
  <2>1. ASSUME NEW i \in Nat, NEW x \in X
        PROVE  (IF i \in 1 .. n THEN x \o ss[i] ELSE x) \in X
    BY <1>2
  <2> HIDE DEF X
  <2> QED BY <2>1
<1>4. ss[1] \in X /\ 1 \in Nat /\ n >= 1
  BY <1>2
<1>5. \E f : Follows(f, X, 1, n, ss[1], step)
  <2> HIDE DEF X, step
  <2> QED BY <1>3, <1>4, RecursionExists, Zenon
<1>6. PICK f : Follows(f, X, 1, n, ss[1], step)
  BY <1>5
<1>7. f \in [1 .. n -> X] /\ \A i \in 1 .. n : f[i] = Recursion(f, 1, ss[1], step, i)
  BY <1>6 DEF Follows
<1>8. f = Flat(f)
  <2>1. ASSUME NEW i \in 1 .. n
        PROVE  f[i] = IF i = 1 THEN ss[i] ELSE f[i - 1] \o ss[i]
    <3>1. f[i] = IF i = 1 THEN ss[1] ELSE step[i][f[i - 1]]
      BY <1>7 DEF Recursion
    <3>2. i # 1 => step[i][f[i - 1]] = f[i - 1] \o ss[i]
      <4> SUFFICES ASSUME i # 1 PROVE step[i][f[i - 1]] = f[i - 1] \o ss[i]
        OBVIOUS
      <4>1. i - 1 \in 1 .. n /\ i \in Nat
        OBVIOUS
      <4>2. f[i - 1] \in X
        BY <1>7, <4>1
      <4> HIDE DEF X
      <4> QED BY <4>1, <4>2
    <3> QED BY <3>1, <3>2
  <2> HIDE DEF X, step
  <2> QED BY <1>7, <2>1
<1> DEFINE g == CHOOSE h : h = Flat(h)
<1>9. g = Flat(g)
  <2> HIDE DEF Flat
  <2> QED BY <1>8
<1>10. \A i \in 1 .. n : g[i] = IF i = 1 THEN ss[i] ELSE g[i - 1] \o ss[i]
  <2> HIDE DEF g
  <2> QED BY <1>9
<1>11. DOMAIN g = 1 .. n /\ g = [i \in DOMAIN g |-> g[i]]
  <2>1. DOMAIN Flat(g) = 1 .. n /\ Flat(g) = [i \in DOMAIN Flat(g) |-> Flat(g)[i]]
    <3> HIDE DEF g
    <3> QED OBVIOUS
  <2> HIDE DEF Flat, g
  <2> QED BY <1>9, <2>1
<1> HIDE DEF g
<1> DEFINE S == {i \in Nat : i <= n => g[i] \in X}
<1>12. 1 \in S
  BY <1>2, <1>10
<1>13. ASSUME NEW i \in Nat, i >= 1, i \in S
       PROVE  i + 1 \in S
  <2> SUFFICES ASSUME i + 1 <= n PROVE g[i + 1] \in X
    OBVIOUS
  <2>1. i + 1 \in 1 .. n /\ i + 1 # 1 /\ (i + 1) - 1 = i /\ g[i] \in X
    BY <1>13
  <2>2. g[i + 1] = g[i] \o ss[i + 1]
    BY <1>10, <2>1
  <2> QED BY <1>2, <2>1, <2>2
<1>14. \A i \in 1 .. n : g[i] \in X
  <2>1. \A i \in Nat : i >= 1 => i \in S
    <3> HIDE DEF S
    <3> QED BY <1>12, <1>13, <1>4, Climb, Zenon
  <2>2. \A i \in 1 .. n : i \in Nat /\ i >= 1 /\ i <= n
    OBVIOUS
  <2> QED BY <2>1, <2>2
<1>15. g \in [1 .. n -> X]
  <2> HIDE DEF X
  <2> QED BY <1>11, <1>14
<1> QED BY <1>1, <1>10, <1>15 DEF g, Flattens

\* One more name on the list.
LEMMA FlattenGrows ==
  ASSUME NEW Y, NEW ss \in Seq(Seq(Y)), NEW s \in Seq(Y)
  PROVE  FlattenSeq(Append(ss, s)) = FlattenSeq(ss) \o s
<1>1. PICK n \in Nat : n = Len(ss)
  OBVIOUS
<1>2. PICK tt \in Seq(Seq(Y)) :
        /\ tt = Append(ss, s) /\ Len(tt) = n + 1 /\ tt[n + 1] = s
        /\ \A i \in 1 .. n : tt[i] = ss[i]
  <2>1. Append(ss, s) \in Seq(Seq(Y)) /\ Len(Append(ss, s)) = Len(ss) + 1
    OBVIOUS
  <2>2. Append(ss, s)[n + 1] = s /\ \A i \in 1 .. n : Append(ss, s)[i] = ss[i]
    BY <1>1
  <2> QED BY <1>1, <2>1, <2>2
<1>3. PICK h \in [1 .. n + 1 -> Seq(Y)] :
        /\ FlattenSeq(tt) = h[n + 1]
        /\ \A i \in 1 .. n + 1 : h[i] = IF i = 1 THEN tt[i] ELSE h[i - 1] \o tt[i]
  <2>1. n + 1 \in Nat \ {0}
    OBVIOUS
  <2>2. \E h : Flattens(h, tt, Y, n + 1)
    BY <1>2, <2>1, FlattenIs, Zenon
  <2> QED BY <2>2 DEF Flattens
<1>4. CASE n = 0
  <2>1. ss = <<>>
    <3>1. Len(ss) = 0
      BY <1>1, <1>4
    <3> QED BY <3>1
  <2>2. FlattenSeq(ss) = <<>>
    BY <1>1, <1>4, <2>1 DEF FlattenSeq
  <2>3. h[n + 1] = s
    BY <1>2, <1>3, <1>4
  <2>4. <<>> \o s = s
    OBVIOUS
  <2> QED BY <1>2, <1>3, <2>2, <2>3, <2>4
<1>5. CASE n # 0
  <2>1. PICK g \in [1 .. n -> Seq(Y)] :
          /\ FlattenSeq(ss) = g[n]
          /\ \A i \in 1 .. n : g[i] = IF i = 1 THEN ss[i] ELSE g[i - 1] \o ss[i]
    <3>1. n \in Nat \ {0}
      BY <1>5
    <3>2. Len(ss) = n
      BY <1>1
    <3>3. \E g : Flattens(g, ss, Y, n)
      BY <3>1, <3>2, FlattenIs, Zenon
    <3> QED BY <3>3 DEF Flattens
  <2> DEFINE S == {i \in Nat : i <= n => g[i] = h[i]}
  <2>2. 1 \in S
    <3>1. 1 \in 1 .. n /\ 1 \in 1 .. n + 1
      BY <1>5
    <3>2. g[1] = ss[1] /\ h[1] = tt[1]
      BY <1>3, <2>1, <3>1
    <3>3. tt[1] = ss[1]
      BY <1>2, <3>1
    <3> QED BY <3>2, <3>3
  <2>3. ASSUME NEW i \in Nat, i >= 1, i \in S
        PROVE  i + 1 \in S
    <3> SUFFICES ASSUME i + 1 <= n PROVE g[i + 1] = h[i + 1]
      OBVIOUS
    <3>1. /\ i + 1 \in 1 .. n /\ i + 1 \in 1 .. n + 1 /\ i + 1 # 1 /\ (i + 1) - 1 = i
          /\ g[i] = h[i]
      BY <2>3
    <3>2. g[i + 1] = g[i] \o ss[i + 1] /\ h[i + 1] = h[i] \o tt[i + 1]
      BY <1>3, <2>1, <3>1
    <3> QED BY <1>2, <3>1, <3>2
  <2>4. n \in S
    <3>1. 1 \in Nat /\ n >= 1
      BY <1>5
    <3> HIDE DEF S
    <3>2. \A i \in Nat : i >= 1 => i \in S
      BY <2>2, <2>3, <3>1, Climb, Zenon
    <3> QED BY <3>1, <3>2
  <2>5. g[n] = h[n]
    BY <2>4
  <2>6. h[n + 1] = h[n] \o tt[n + 1]
    <3>1. n + 1 \in 1 .. n + 1 /\ n + 1 # 1 /\ (n + 1) - 1 = n
      BY <1>5
    <3> QED BY <1>3, <3>1
  <2> QED BY <1>2, <1>3, <2>1, <2>5, <2>6
<1> QED BY <1>4, <1>5

\* The first k names of a directory, each with a newline.
Listing(im, k) == FlattenSeq([i \in 1 .. k |-> Append(im.dentries[i].name, "newline")])

\* No names, no listing.
LEMMA ListingOfNone ==
  ASSUME NEW im
  PROVE  Listing(im, 0) = <<>>
<1>1. [i \in 1 .. 0 |-> Append(im.dentries[i].name, "newline")] = <<>>
  OBVIOUS
<1>2. FlattenSeq(<<>>) = <<>>
  BY DEF FlattenSeq
<1> QED BY <1>1, <1>2 DEF Listing

\* The next name adds a line.
LEMMA ListingGrows ==
  ASSUME NEW im, IsImage(im), NEW k \in Nat, k < Len(im.dentries)
  PROVE  Listing(im, k + 1) = Listing(im, k) \o Append(im.dentries[k + 1].name, "newline")
<1> DEFINE Y == Chars \cup {"newline"}
           row == [i \in 1 .. Len(im.dentries) |-> Append(im.dentries[i].name, "newline")]
<1>1. PICK n \in Nat : n = Len(im.dentries) /\ k + 1 <= n
  <2>1. Len(im.dentries) \in Nat
    BY DEF IsImage
  <2> QED BY <2>1
<1>2. \A i \in 1 .. n : row[i] \in Seq(Y) /\ row[i] = Append(im.dentries[i].name, "newline")
  <2> TAKE i \in 1 .. n
  <2>1. im.dentries[i].name \in Seq(Chars)
    <3>1. IsText(im.dentries[i].name)
      BY <1>1 DEF IsImage
    <3> QED BY <3>1, TextFacts
  <2>2. im.dentries[i].name \in Seq(Y)
    BY <2>1, SeqMonotonic
  <2>3. "newline" \in Y
    OBVIOUS
  <2> HIDE DEF Y
  <2>4. Append(im.dentries[i].name, "newline") \in Seq(Y)
    BY <2>2, <2>3
  <2> QED BY <1>1, <2>4
<1> HIDE DEF Y, row
<1>3. [i \in 1 .. k |-> Append(im.dentries[i].name, "newline")] = [i \in 1 .. k |-> row[i]]
  <2>1. \A i \in 1 .. k : i \in 1 .. n
    BY <1>1
  <2> QED BY <1>2, <2>1
<1>4. [i \in 1 .. k + 1 |-> Append(im.dentries[i].name, "newline")]
        = [i \in 1 .. k + 1 |-> row[i]]
  <2>1. \A i \in 1 .. k + 1 : i \in 1 .. n
    BY <1>1
  <2> QED BY <1>2, <2>1
<1> DEFINE Q == Seq(Y)
<1>5. \A i \in 1 .. n : row[i] \in Q
  BY <1>2
<1> HIDE DEF Q
<1>6. PICK ss \in Seq(Q) : /\ ss = [i \in 1 .. k |-> row[i]] /\ Len(ss) = k
                           /\ \A i \in 1 .. k : ss[i] = row[i]
  <2>1. \A i \in 1 .. k : row[i] \in Q
    BY <1>1, <1>5
  <2>2. [i \in 1 .. k |-> row[i]] \in Seq(Q) /\ Len([i \in 1 .. k |-> row[i]]) = k
    BY <2>1
  <2> QED BY <2>2
<1>7. PICK tt \in Seq(Q) : /\ tt = [i \in 1 .. k + 1 |-> row[i]] /\ Len(tt) = k + 1
                           /\ \A i \in 1 .. k + 1 : tt[i] = row[i]
  <2>1. \A i \in 1 .. k + 1 : row[i] \in Q
    BY <1>1, <1>5
  <2>2. /\ [i \in 1 .. k + 1 |-> row[i]] \in Seq(Q)
        /\ Len([i \in 1 .. k + 1 |-> row[i]]) = k + 1
    BY <2>1
  <2> QED BY <2>2
<1>8. row[k + 1] \in Q
  BY <1>1, <1>5
<1>9. Append(ss, row[k + 1]) = tt
  <2>0. PICK r \in Q : r = row[k + 1]
    BY <1>8
  <2>1. PICK x \in Seq(Q) : x = Append(ss, r)
    <3>1. Append(ss, r) \in Seq(Q)
      BY AppendStays, Zenon
    <3> QED BY <3>1, Zenon
  <2>2. Len(x) = Len(ss) + 1
    BY <2>1
  <2>3. \A i \in 1 .. Len(ss) : x[i] = ss[i]
    BY <2>1
  <2>4. x[Len(ss) + 1] = r
    BY <2>1
  <2>5. \A i \in 1 .. k + 1 : x[i] = tt[i]
    BY <1>6, <1>7, <2>0, <2>3, <2>4
  <2>6. Len(x) = k + 1 /\ k + 1 \in Nat
    BY <1>6, <2>2
  <2> QED BY <1>7, <2>0, <2>1, <2>5, <2>6, SameSeq
<1>10. FlattenSeq(tt) = FlattenSeq(ss) \o row[k + 1]
  <2>1. ss \in Seq(Seq(Y)) /\ row[k + 1] \in Seq(Y)
    BY <1>8 DEF Q
  <2> QED BY <1>9, <2>1, FlattenGrows
<1>11. row[k + 1] = Append(im.dentries[k + 1].name, "newline")
  BY <1>1, <1>2
<1> QED BY <1>3, <1>4, <1>6, <1>7, <1>10, <1>11 DEF Listing

-----------------------------------------------------------------------------
(***************************************************************************)
(* The inductive invariant.                                                *)
(***************************************************************************)
Fd == [filetype : {RtcType, DirType, FileType}, inode_num : Nat, fpos : Nat]

\* The program in the page is the one the line names, and has its argument.
HasStarted ==
  \E d \in Named(img, FirstWord) :
    /\ d.filetype = FileType /\ page = Contents(img, d.inode_num)
    /\ StartsElf(d.inode_num)

HasArgument ==
  \E v : IsText(v) /\ arg1 = CString(v) /\ arg1 \in Args(CString(line))

Ready ==
  /\ img \in Images /\ fd \in Fd
  /\ pc \in {"shell", "prompt", "execute", "start", "loop", "lost"}
  /\ pc # "prompt" => line \in Lines
  /\ pc \in {"prompt", "execute", "lost"} => page = <<>>
  /\ pc \in {"prompt", "execute", "start"} => out = <<>>
  /\ pc \in {"start", "loop"} => page # <<>>
  /\ page # <<>> => Program \in {"cat", "ls"} /\ HasStarted /\ HasArgument

\* While it runs, out is what lies before the position.
HasCopied(d) ==
  /\ fd.filetype = d.filetype
  /\ d.filetype = FileType =>
       /\ fd.inode_num = d.inode_num
       /\ fd.fpos <= img.inodes[d.inode_num + 1].len
       /\ out = Piece(img, d.inode_num, 0, fd.fpos)

HasListed ==
  /\ fd.filetype = DirType /\ fd.fpos <= Len(img.dentries)
  /\ out = Listing(img, fd.fpos)

Serving ==
  pc = "loop" =>
    /\ Program = "cat" => \E d \in Named(img, ArgWord) : HasCopied(d)
    /\ Program = "ls" => HasListed

Inductive ==
  /\ Ready /\ Serving
  /\ StatusIsTrue /\ CatPrintsTheFile /\ LsPrintsEveryName /\ ShellSurvives

\* The first page of a program says which it is.
LEMMA ProgramIs ==
  ASSUME img \in Images, NEW num \in 0 .. Len(img.inodes) - 1,
         img.inodes[num + 1].len > 0, StartsElf(num), NEW p, p = Contents(img, num)
  PROVE  p # <<>> /\ img.elf[p[1][1]] \in {"cat", "ls"}
<1>1. IsImage(img)
  BY CommandsAssumption
<1>2. PICK len \in Nat : len = img.inodes[num + 1].len /\ 1 \in 1 .. len
  BY <1>1, InodeFacts
<1> DEFINE b == img.inodes[num + 1].data_block_num[1]
<1>3. p = Piece(img, num, 0, len) /\ p[1] = Byte(b, 0)
  BY <1>1, <1>2, ContentsFacts
<1>4. p # <<>>
  <2>1. DOMAIN p = 1 .. len
    BY <1>3 DEF Piece
  <2>2. DOMAIN <<>> = {}
    OBVIOUS
  <2> QED BY <1>2, <2>1, <2>2
<1>5. b \in DOMAIN img.elf
  <2>1. Byte(b, 0) \in {Byte(x, 0) : x \in DOMAIN img.elf}
    BY <1>3 DEF StartsElf
  <2>2. \A x : Byte(b, 0) = Byte(x, 0) => x = b
    BY DEF Byte
  <2> QED BY <2>1, <2>2
<1>6. p[1][1] = b
  BY <1>3 DEF Byte
<1> QED BY <1>1, <1>4, <1>5, <1>6 DEF IsImage

\* The bytes up to a position are a beginning of the file.
LEMMA CopiedIsPrefix ==
  ASSUME NEW im, IsImage(im), NEW num \in 0 .. Len(im.inodes) - 1,
         NEW k \in Nat, k <= im.inodes[num + 1].len
  PROVE  IsPrefix(Piece(im, num, 0, k), Contents(im, num))
<1>1. PICK len \in Nat : len = im.inodes[num + 1].len /\ k <= len
  BY InodeFacts
<1> DEFINE at == [j \in Nat |-> ByteAt(im, num, 0 + j - 1)]
           X == {at[j] : j \in Nat}
<1>2. \A n \in Nat : Piece(im, num, 0, n) = [j \in 1 .. n |-> at[j]]
  BY DEF Piece
<1>3. \A j \in Nat : at[j] \in X
  OBVIOUS
<1> HIDE DEF at, X
<1>4. \A n \in Nat : /\ Piece(im, num, 0, n) \in Seq(X) /\ Len(Piece(im, num, 0, n)) = n
                     /\ \A j \in 1 .. n : Piece(im, num, 0, n)[j] = at[j]
  <2> TAKE n \in Nat
  <2> DEFINE f == [j \in 1 .. n |-> at[j]]
  <2>1. f \in Seq(X) /\ Len(f) = n /\ \A j \in 1 .. n : f[j] = at[j]
    BY <1>3
  <2>2. f = Piece(im, num, 0, n)
    BY <1>2
  <2> HIDE DEF f
  <2> QED BY <2>1, <2>2
<1>5. PICK x \in Seq(X), y \in Seq(X) :
        /\ x = Piece(im, num, 0, k) /\ Len(x) = k
        /\ y = Piece(im, num, 0, len) /\ Len(y) = len
        /\ \A j \in 1 .. k : x[j] = y[j]
  <2>1. \A j \in 1 .. k : j \in 1 .. len
    BY <1>1
  <2>2. \A j \in 1 .. k : Piece(im, num, 0, k)[j] = Piece(im, num, 0, len)[j]
    BY <1>4, <2>1
  <2> QED BY <1>4, <2>2
<1>6. y = Contents(im, num)
  BY <1>1, <1>5, ContentsFacts
<1>7. SubSeq(x, 1, k) = SubSeq(y, 1, k)
  <2>1. 1 + k - 1 = k /\ 1 \in Nat \ {0} /\ k <= Len(x) /\ k <= Len(y)
    BY <1>1, <1>5
  <2>2. /\ SubSeq(x, 1, k) \in Seq(X) /\ Len(SubSeq(x, 1, k)) = k
        /\ \A j \in 1 .. k : SubSeq(x, 1, k)[j] = x[1 + j - 1]
    BY <2>1, PieceFacts
  <2>3. /\ SubSeq(y, 1, k) \in Seq(X) /\ Len(SubSeq(y, 1, k)) = k
        /\ \A j \in 1 .. k : SubSeq(y, 1, k)[j] = y[1 + j - 1]
    BY <2>1, PieceFacts
  <2>4. \A j \in 1 .. k : 1 + j - 1 = j
    OBVIOUS
  <2>5. \A j \in 1 .. k : SubSeq(x, 1, k)[j] = SubSeq(y, 1, k)[j]
    BY <1>5, <2>2, <2>3, <2>4
  <2> QED BY <2>2, <2>3, <2>5, SameSeq
<1> QED BY <1>1, <1>5, <1>6, <1>7 DEF IsPrefix

\* Nothing is a beginning of every file.
LEMMA NothingIsPrefix ==
  ASSUME NEW im, IsImage(im), NEW num \in 0 .. Len(im.inodes) - 1
  PROVE  IsPrefix(<<>>, Contents(im, num))
<1>1. 0 \in Nat /\ 0 <= im.inodes[num + 1].len
  BY InodeFacts
<1>2. Piece(im, num, 0, 0) = <<>>
  BY DEF Piece
<1> QED BY <1>1, <1>2, CopiedIsPrefix

\* At the first prompt nothing has happened.
LEMMA InitInductive == Init => Inductive
<1> SUFFICES ASSUME Init PROVE Inductive
  OBVIOUS
<1>1. NoFd \in Fd
  BY DEF NoFd, Fd, FileType, RtcType, DirType
<1>2. Ready
  BY <1>1 DEF Init, Ready
<1> QED BY <1>2 DEF Init, Inductive, Serving, StatusIsTrue, CatPrintsTheFile, Ran,
                    LsPrintsEveryName, ShellSurvives

\* The prompt.
LEMMA PromptKeeps == Inductive /\ Prompt => Inductive'
<1> SUFFICES ASSUME Inductive, Prompt PROVE Inductive'
  OBVIOUS
<1>1. Ready'
  BY DEF Inductive, Ready, Prompt
<1>2. /\ Serving' /\ StatusIsTrue' /\ CatPrintsTheFile' /\ LsPrintsEveryName'
      /\ ShellSurvives'
  BY DEF Prompt, Serving, StatusIsTrue, CatPrintsTheFile, Ran, LsPrintsEveryName,
         ShellSurvives
<1> QED BY <1>1, <1>2 DEF Inductive

\* A line is entered.
LEMMA EnterKeeps ==
  ASSUME NEW l \in Lines
  PROVE  Inductive /\ Enter(l) => Inductive'
<1> SUFFICES ASSUME Inductive, Enter(l) PROVE Inductive'
  OBVIOUS
<1>0. pc = "prompt" /\ pc' = "execute" /\ page = <<>> /\ page' = page
  BY DEF Inductive, Ready, Enter
<1>1. Ready'
  BY <1>0 DEF Inductive, Ready, Enter
<1>2. /\ Serving' /\ StatusIsTrue' /\ CatPrintsTheFile' /\ LsPrintsEveryName'
      /\ ShellSurvives'
  BY <1>0 DEF Serving, StatusIsTrue, CatPrintsTheFile, Ran, LsPrintsEveryName,
         ShellSurvives
<1> QED BY <1>1, <1>2 DEF Inductive

\* execute refuses the line.
LEMMA RefuseKeeps == Inductive /\ Refuse(CString(line)) => Inductive'
<1> SUFFICES ASSUME Inductive, Refuse(CString(line)) PROVE Inductive'
  OBVIOUS
<1>0. /\ pc = "execute" /\ pc' = "shell" /\ status' = Failure
      /\ page = <<>> /\ page' = <<>>
      /\ img' = img /\ line' = line /\ img \in Images /\ line \in Lines
      /\ ~check_exec(CString(line))
  BY DEF Inductive, Ready, Refuse
<1>1. Ready'
  BY <1>0 DEF Inductive, Ready, Refuse
<1>2. \A d \in Named(img, FirstWord) :
        \/ img.inodes[d.inode_num + 1].len < HeaderLen
        \/ ~StartsElf(d.inode_num) \/ ~Readable(img, d.inode_num)
  BY <1>0, CheckExecIs
<1>3. \A d \in Named(img', FirstWord') :
        \/ img'.inodes[d.inode_num + 1].len < HeaderLen
        \/ ~StartsElf(d.inode_num)' \/ ~Readable(img', d.inode_num)
  BY <1>0, <1>2 DEF FirstWord, StartsElf
<1>4. StatusIsTrue'
  BY <1>0, <1>3 DEF StatusIsTrue, Failure
<1>5. Serving' /\ CatPrintsTheFile' /\ LsPrintsEveryName' /\ ShellSurvives'
  BY <1>0 DEF Serving, CatPrintsTheFile, Ran, LsPrintsEveryName, ShellSurvives
<1> QED BY <1>1, <1>4, <1>5 DEF Inductive

\* execute starts a program.
LEMMA StartKeeps == Inductive /\ Start(CString(line)) => Inductive'
<1> SUFFICES ASSUME Inductive, Start(CString(line)) PROVE Inductive'
  OBVIOUS
<1> DEFINE C == CString(line)
<1>0. /\ pc = "execute" /\ pc' = "start" /\ out = <<>> /\ out' = <<>>
      /\ img' = img /\ line' = line /\ img \in Images /\ line \in Lines
      /\ fd' = fd /\ fd \in Fd
      /\ check_exec(C) /\ Load(C).n # Failure
      /\ arg1' \in Args(C) /\ page' = Load(C).buf
      /\ IsImage(img) /\ IsText(line)
  BY CommandsAssumption DEF Inductive, Ready, Start
<1>1. PICK d \in Named(img, FirstWord) :
        /\ d.filetype = FileType /\ StartsElf(d.inode_num)
        /\ img.inodes[d.inode_num + 1].len > 0
        /\ page' = Contents(img, d.inode_num)
  BY <1>0, CheckExecIs
<1>2. d.inode_num \in 0 .. Len(img.inodes) - 1
  BY <1>0, NamedFacts
<1>3. page' # <<>> /\ Program' \in {"cat", "ls"}
  BY <1>0, <1>1, <1>2, ProgramIs DEF Program
<1>4. HasStarted'
  <2>1. StartsElf(d.inode_num)'
    BY <1>0, <1>1 DEF StartsElf
  <2> QED BY <1>0, <1>1, <2>1 DEF HasStarted, FirstWord
<1>5. HasArgument'
  <2>1. IsText(<<>>) /\ IsText(<<"?">>)
    <3>1. "?" \in Chars \ {NUL}
      BY CommandsAssumption DEF NUL
    <3> QED BY <3>1 DEF IsText
  <2>2. \E v : IsText(v) /\ arg1' = CString(v)
    <3>1. CASE HasArg(C)
      BY <1>0, <3>1, ArgIs DEF Args
    <3>2. CASE ~HasArg(C)
      BY <1>0, <2>1, <3>2 DEF Args
    <3> QED BY <3>1, <3>2
  <2> QED BY <1>0, <2>2 DEF HasArgument
<1>6. Ready'
  BY <1>0, <1>3, <1>4, <1>5 DEF Ready
<1>7. CatPrintsTheFile'
  <2>1. ASSUME NEW e \in Named(img, ArgWord')
        PROVE  IsPrefix(<<>>, Contents(img, e.inode_num))
    BY <1>0, <2>1, NamedFacts, NothingIsPrefix
  <2> QED BY <1>0, <2>1 DEF CatPrintsTheFile
<1>8. Serving' /\ StatusIsTrue' /\ LsPrintsEveryName' /\ ShellSurvives'
  BY <1>0 DEF Serving, StatusIsTrue, LsPrintsEveryName, ShellSurvives
<1> QED BY <1>6, <1>7, <1>8 DEF Inductive

\* The kernel overwrites its stack or has no page to go back to.
LEMMA LoseKeeps == Inductive /\ Lose(CString(line)) => Inductive'
<1> SUFFICES ASSUME Inductive, Lose(CString(line)) PROVE Inductive'
  OBVIOUS
<1> DEFINE C == CString(line)
<1>0. /\ pc = "execute" /\ pc' = "lost" /\ page = <<>> /\ page' = <<>>
      /\ img' = img /\ line' = line /\ img \in Images /\ line \in Lines
      /\ \/ Len(Cmd(C)) >= CMD_SIZE
         \/ check_exec(C) /\ Load(C).n = Failure
      /\ IsText(line)
  BY CommandsAssumption DEF Inductive, Ready, Lose
<1>1. Ready'
  BY <1>0 DEF Inductive, Ready, Lose
<1>2. \/ Len(FirstWord) >= CMD_SIZE
      \/ \E d \in Named(img, FirstWord) : ~Readable(img, d.inode_num)
  <2>1. FirstWord = Cmd(C)
    BY <1>0, FirstWordIs
  <2> QED BY <1>0, <2>1, CheckExecIs
<1>3. ShellSurvives'
  BY <1>0, <1>2 DEF ShellSurvives, FirstWord
<1>4. Serving' /\ StatusIsTrue' /\ CatPrintsTheFile' /\ LsPrintsEveryName'
  BY <1>0 DEF Serving, StatusIsTrue, CatPrintsTheFile, Ran, LsPrintsEveryName
<1> QED BY <1>1, <1>3, <1>4 DEF Inductive

\* While the image, the line, the argument and the page stay, so does what was
\* started.
LEMMA ReadyStays ==
  ASSUME Ready, page # <<>>, UNCHANGED <<img, line, arg1, page>>,
         fd' \in Fd, pc' \in {"shell", "loop"}
  PROVE  Ready' /\ Program' = Program /\ ArgWord' = ArgWord /\ FirstWord' = FirstWord
<1>1. Program' = Program /\ ArgWord' = ArgWord /\ FirstWord' = FirstWord
  BY DEF Program, ArgWord, FirstWord
<1>2. HasStarted' /\ HasArgument'
  <2>1. HasStarted'
    BY <1>1 DEF Ready, HasStarted, StartsElf
  <2>2. HasArgument'
    BY DEF Ready, HasArgument
  <2> QED BY <2>1, <2>2
<1>3. img' \in Images
  BY DEF Ready
<1> QED BY <1>1, <1>2, <1>3 DEF Ready

\* What holds while a program runs.
LEMMA Running ==
  ASSUME Inductive, page # <<>>
  PROVE  /\ Program \in {"cat", "ls"} /\ img \in Images /\ IsImage(img) /\ fd \in Fd
         /\ \E v : IsText(v) /\ arg1 = CString(v) /\ ArgWord = v /\ (GetArgs <=> v # <<>>)
<1>1. /\ Program \in {"cat", "ls"} /\ img \in Images /\ IsImage(img) /\ fd \in Fd
      /\ HasArgument
  BY CommandsAssumption DEF Inductive, Ready
<1>2. PICK v : IsText(v) /\ arg1 = CString(v)
  BY <1>1 DEF HasArgument
<1> QED BY <1>1, <1>2, ArgWordIs

\* cat has no argument.
LEMMA NoArgumentKeeps == Inductive /\ NoArgument => Inductive'
<1> SUFFICES ASSUME Inductive, NoArgument PROVE Inductive'
  OBVIOUS
<1>0. /\ pc = "start" /\ page # <<>> /\ Program = "cat" /\ ~GetArgs /\ out = <<>>
      /\ pc' = "shell" /\ status' = 3 /\ Ready /\ fd' = fd /\ fd \in Fd /\ out' = out
      /\ img' = img /\ line' = line /\ arg1' = arg1 /\ page' = page
  BY DEF Inductive, Ready, NoArgument, Halt
<1>1. Ready' /\ Program' = "cat" /\ ArgWord' = ArgWord
  BY <1>0, ReadyStays
<1>2. ArgWord = <<>>
  BY <1>0, Running
<1>3. StatusIsTrue'
  BY <1>0, <1>1, <1>2 DEF StatusIsTrue, Failure
<1>4. CatPrintsTheFile'
  <2>1. ASSUME NEW e \in Named(img, ArgWord)
        PROVE  IsPrefix(<<>>, Contents(img, e.inode_num))
    BY <1>0, <2>1, Running, NamedFacts, NothingIsPrefix
  <2> QED BY <1>0, <1>1, <2>1 DEF CatPrintsTheFile
<1>5. Serving' /\ LsPrintsEveryName' /\ ShellSurvives'
  BY <1>0 DEF Serving, LsPrintsEveryName, ShellSurvives
<1> QED BY <1>1, <1>3, <1>4, <1>5 DEF Inductive

\* What the program opens is the entry that its word names.
LEMMA OpensIs ==
  ASSUME Inductive, page # <<>>, Program = "cat" => GetArgs
  PROVE  LET w == IF Program = "cat" THEN ArgWord ELSE <<".">> IN
           /\ Opens.ok <=> Named(img, w) # {}
           /\ Opens.ok => Opens.dentry \in Named(img, w)
<1> DEFINE w == IF Program = "cat" THEN ArgWord ELSE <<".">>
<1>1. IsImage(img) /\ Program \in {"cat", "ls"}
  BY Running
<1>2. PICK v : IsText(v) /\ arg1 = CString(v) /\ ArgWord = v /\ (GetArgs <=> v # <<>>)
  BY Running
<1>3. IsText(<<".">>) /\ <<".">> # <<>>
  <2>1. "." \in Chars \ {NUL}
    BY CommandsAssumption DEF NUL
  <2> QED BY <2>1 DEF IsText
<1>4. IsText(w) /\ w # <<>> /\ Opens = read_dentry_by_name(img, CString(w))
  BY <1>2, <1>3 DEF Opens
<1> HIDE DEF w
<1>5. LET r == read_dentry_by_name(img, CString(w)) IN
        /\ r.ok <=> w # <<>> /\ Named(img, w) # {}
        /\ r.ok => r.dentry \in Named(img, w)
  BY <1>1, <1>4, ByName
<1>6. /\ Opens.ok <=> Named(img, w) # {}
      /\ Opens.ok => Opens.dentry \in Named(img, w)
  BY <1>4, <1>5
<1> QED BY <1>6 DEF w

\* There is no such file.
LEMMA NoFileKeeps == Inductive /\ NoFile => Inductive'
<1> SUFFICES ASSUME Inductive, NoFile PROVE Inductive'
  OBVIOUS
<1>0. /\ pc = "start" /\ page # <<>> /\ (Program = "cat" => GetArgs) /\ ~Opens.ok
      /\ out = <<>> /\ pc' = "shell" /\ status' = 2 /\ Ready /\ fd' = fd /\ fd \in Fd
      /\ img' = img /\ line' = line /\ arg1' = arg1 /\ page' = page /\ out' = out
  BY DEF Inductive, Ready, NoFile, Halt
<1>1. Ready' /\ Program' = Program /\ ArgWord' = ArgWord
  BY <1>0, ReadyStays
<1>2. Named(img, IF Program = "cat" THEN ArgWord ELSE <<".">>) = {}
  BY <1>0, OpensIs
<1>3. StatusIsTrue'
  <2>1. Ran("cat")' <=> Program = "cat"
    BY <1>0, <1>1 DEF Ran
  <2> QED BY <1>0, <1>1, <1>2, <2>1 DEF StatusIsTrue, Failure
<1>4. CatPrintsTheFile'
  <2>1. ASSUME NEW e \in Named(img, ArgWord)
        PROVE  IsPrefix(<<>>, Contents(img, e.inode_num))
    BY <1>0, <2>1, Running, NamedFacts, NothingIsPrefix
  <2> QED BY <1>0, <1>1, <2>1 DEF CatPrintsTheFile
<1>5. Serving' /\ LsPrintsEveryName' /\ ShellSurvives'
  BY <1>0 DEF Serving, LsPrintsEveryName, ShellSurvives
<1> QED BY <1>1, <1>3, <1>4, <1>5 DEF Inductive

\* The program opens its file.
LEMMA OpenKeeps == Inductive /\ Open => Inductive'
<1> SUFFICES ASSUME Inductive, Open PROVE Inductive'
  OBVIOUS
<1>d. PICK d : d = Opens.dentry
  OBVIOUS
<1>0. /\ pc = "start" /\ page # <<>> /\ (Program = "cat" => GetArgs) /\ Opens.ok
      /\ out = <<>> /\ pc' = "loop" /\ Ready
      /\ fd' = [filetype |-> d.filetype,
                inode_num |-> IF d.filetype = FileType THEN d.inode_num ELSE 0,
                fpos |-> 0]
      /\ img' = img /\ line' = line /\ arg1' = arg1 /\ page' = page /\ out' = out
  BY <1>d DEF Inductive, Ready, Open
<1>1. d \in Named(img, IF Program = "cat" THEN ArgWord ELSE <<".">>)
  BY <1>0, <1>d, OpensIs
<1>2. IsImage(img) /\ Program \in {"cat", "ls"}
  BY <1>0, Running
<1>3. /\ d.inode_num \in 0 .. Len(img.inodes) - 1
      /\ d.filetype \in {RtcType, DirType, FileType}
  BY <1>1, <1>2, NamedFacts
<1>4. fd' \in Fd /\ fd'.filetype = d.filetype /\ fd'.fpos = 0
        /\ (d.filetype = FileType => fd'.inode_num = d.inode_num)
  <2>1. d.inode_num \in Nat
    BY <1>2, <1>3 DEF IsImage
  <2> QED BY <1>0, <1>3, <2>1 DEF Fd
<1>5. Ready' /\ Program' = Program /\ ArgWord' = ArgWord
  BY <1>0, <1>4, ReadyStays
<1>6. ASSUME Program = "cat" PROVE d \in Named(img, ArgWord) /\ HasCopied(d)'
  <2>1. d \in Named(img, ArgWord)
    BY <1>1, <1>6
  <2>2. Piece(img, d.inode_num, 0, 0) = <<>>
    BY DEF Piece
  <2>3. 0 <= img.inodes[d.inode_num + 1].len
    BY <1>2, <1>3, InodeFacts
  <2> QED BY <1>0, <1>4, <2>1, <2>2, <2>3 DEF HasCopied
<1>7. ASSUME Program = "ls" PROVE HasListed'
  <2>1. d \in Named(img, <<".">>)
    BY <1>1, <1>7
  <2>2. d.name = Truncated(<<".">>)
    BY <1>2, <2>1, NamedFacts
  <2>3. Truncated(<<".">>) = <<".">>
    <3>1. Len(<<".">>) = 1 /\ ~(1 > FILENAME_LEN)
      BY FileSystemAssumption
    <3>2. SubSeq(<<".">>, 1, 1) = <<".">>
      <4>1. PICK s \in Seq({"."}) : s = <<".">> /\ Len(s) = 1
        <5>1. <<".">> \in Seq({"."})
          OBVIOUS
        <5>2. Len(<<".">>) = 1
          OBVIOUS
        <5> QED BY <5>1, <5>2
      <4>2. 1 \in Nat \ {0} /\ 1 \in Nat /\ 1 + 1 - 1 = 1 /\ 1 + 1 - 1 <= Len(s)
        BY <4>1
      <4>3. /\ SubSeq(s, 1, 1) \in Seq({"."}) /\ Len(SubSeq(s, 1, 1)) = 1
            /\ \A j \in 1 .. 1 : SubSeq(s, 1, 1)[j] = s[1 + j - 1]
        BY <4>2, PieceFacts
      <4>4. \A j \in 1 .. 1 : SubSeq(s, 1, 1)[j] = s[j]
        BY <4>3
      <4> QED BY <4>1, <4>2, <4>3, <4>4, SameSeq
    <3> QED BY <3>1, <3>2 DEF Truncated
  <2>4. d.filetype = DirType
    BY <1>2, <2>1, <2>2, <2>3, NamedFacts
  <2>5. Listing(img, 0) = <<>>
    BY ListingOfNone
  <2>6. 0 <= Len(img.dentries)
    BY <1>2 DEF IsImage
  <2> QED BY <1>0, <1>4, <2>4, <2>5, <2>6 DEF HasListed
<1>8. Serving'
  BY <1>0, <1>5, <1>6, <1>7 DEF Serving
<1>9. CatPrintsTheFile'
  <2>1. ASSUME NEW e \in Named(img, ArgWord)
        PROVE  IsPrefix(<<>>, Contents(img, e.inode_num))
    BY <1>2, <2>1, NamedFacts, NothingIsPrefix
  <2> QED BY <1>0, <1>5, <2>1 DEF CatPrintsTheFile
<1>10. StatusIsTrue' /\ LsPrintsEveryName' /\ ShellSurvives'
  BY <1>0 DEF StatusIsTrue, LsPrintsEveryName, ShellSurvives
<1> QED BY <1>5, <1>8, <1>9, <1>10 DEF Inductive

\* What one read of an open file returns.
LEMMA ReadsIs ==
  ASSUME Inductive, pc = "loop", NEW n \in Ask
  PROVE  /\ Reads(n).fpos \in Nat \/ ~(Reads(n).n > 0)
         /\ Program = "cat" =>
              \E d \in Named(img, ArgWord) :
                /\ HasCopied(d)
                /\ d.filetype # FileType => Reads(n).n \in Nat
                /\ d.filetype = FileType => LET r == Reads(n) IN
                     \/ r.n = 0 /\ fd.fpos = img.inodes[d.inode_num + 1].len
                     \/ r.n = Failure /\ ~Readable(img, d.inode_num)
                     \/ /\ r.n \in Nat \ {0} /\ fd.fpos + r.n <= img.inodes[d.inode_num + 1].len
                        /\ r.fpos = fd.fpos + r.n
                        /\ r.buf = Piece(img, d.inode_num, fd.fpos, r.n)
         /\ Program = "ls" => LET r == Reads(n) IN
              /\ HasListed /\ r.n \in Nat
              /\ r.n > 0 => /\ fd.fpos < Len(img.dentries) /\ r.fpos = fd.fpos + 1
                            /\ r.buf = img.dentries[fd.fpos + 1].name
              /\ ~(r.n > 0) => fd.fpos = Len(img.dentries)
<1>1. /\ Program \in {"cat", "ls"} /\ IsImage(img) /\ fd \in Fd /\ page # <<>> /\ Serving
  <2>1. page # <<>> /\ Serving
    BY DEF Inductive, Ready
  <2> QED BY <2>1, Running
<1>2. /\ fd.filetype \in {RtcType, DirType, FileType}
      /\ fd.inode_num \in Nat /\ fd.fpos \in Nat
  BY <1>1 DEF Fd
<1>3. n \in Nat \ {0} /\ (Program = "ls" => n = FILENAME_LEN)
  BY <1>1, CommandsAssumption, FileSystemAssumption DEF Ask
<1>4. CASE fd.filetype = FileType
  <2>1. Reads(n) = file_read(img, fd, n)
    BY <1>4 DEF Reads, RtcType, DirType, FileType
  <2>2. Program # "ls"
    BY <1>1, <1>4 DEF Serving, HasListed, FileType, DirType
  <2>3. PICK d \in Named(img, ArgWord) : HasCopied(d)
    BY <1>1, <2>2 DEF Serving
  <2>4. /\ d.filetype = FileType /\ fd.inode_num = d.inode_num
        /\ fd.fpos <= img.inodes[fd.inode_num + 1].len
    BY <1>4, <2>3 DEF HasCopied
  <2>5. fd.inode_num \in 0 .. Len(img.inodes) - 1
    BY <1>1, <2>3, <2>4, NamedFacts
  <2>6. LET r == Reads(n)
            len == img.inodes[fd.inode_num + 1].len
        IN \/ r.n = 0 /\ fd.fpos = len
           \/ r.n = Failure /\ ~Readable(img, fd.inode_num)
           \/ /\ r.n \in Nat \ {0} /\ fd.fpos + r.n <= len
              /\ r.fpos = fd.fpos + r.n
              /\ r.buf = Piece(img, fd.inode_num, fd.fpos, r.n)
    BY <1>1, <1>2, <1>3, <2>1, <2>4, <2>5, FileReadIs
  <2>7. Reads(n).fpos \in Nat \/ ~(Reads(n).n > 0)
    BY <1>2, <2>6 DEF Failure
  <2> QED BY <2>2, <2>3, <2>4, <2>6, <2>7
<1>5. CASE fd.filetype = DirType
  <2>1. Reads(n) = directory_read(img, fd, n)
    BY <1>5 DEF Reads, RtcType, DirType, FileType
  <2>2. LET r == Reads(n) IN
          /\ r.n \in Nat /\ r.fpos \in Nat
          /\ n = FILENAME_LEN /\ fd.fpos < Len(img.dentries) =>
               /\ r.n > 0 /\ r.fpos = fd.fpos + 1
               /\ r.buf = img.dentries[fd.fpos + 1].name
          /\ fd.fpos = Len(img.dentries) => r.n = 0
    BY <1>1, <1>2, <1>3, <2>1, DirectoryReadIs
  <2>3. ASSUME Program = "cat"
        PROVE  \E d \in Named(img, ArgWord) : HasCopied(d) /\ d.filetype # FileType
    <3>1. PICK d \in Named(img, ArgWord) : HasCopied(d)
      BY <1>1, <2>3 DEF Serving
    <3>2. d.filetype = DirType
      BY <1>5, <3>1 DEF HasCopied
    <3> QED BY <3>1, <3>2 DEF DirType, FileType
  <2>4. ASSUME Program = "ls"
        PROVE  LET r == Reads(n) IN
                 /\ HasListed
                 /\ r.n > 0 => /\ fd.fpos < Len(img.dentries) /\ r.fpos = fd.fpos + 1
                               /\ r.buf = img.dentries[fd.fpos + 1].name
                 /\ ~(r.n > 0) => fd.fpos = Len(img.dentries)
    <3>1. HasListed /\ n = FILENAME_LEN
      BY <1>1, <1>3, <2>4 DEF Serving
    <3>2. PICK L \in Nat : L = Len(img.dentries)
      BY <1>1 DEF IsImage
    <3>3. fd.fpos < L \/ fd.fpos = L
      BY <1>2, <3>1, <3>2 DEF HasListed
    <3> QED BY <2>2, <3>1, <3>2, <3>3
  <2> QED BY <2>2, <2>3, <2>4
<1>6. CASE fd.filetype = RtcType
  <2>1. Reads(n).n = 0
    BY <1>6 DEF Reads, RtcType, DirType, FileType
  <2>2. Program = "cat"
    BY <1>1, <1>6 DEF Serving, HasListed, RtcType, DirType
  <2>3. PICK d \in Named(img, ArgWord) : HasCopied(d)
    BY <1>1, <2>2 DEF Serving
  <2>4. d.filetype = RtcType
    BY <1>6, <2>3 DEF HasCopied
  <2>5. d.filetype # FileType
    BY <2>4 DEF RtcType, FileType
  <2> QED BY <2>1, <2>2, <2>3, <2>5
<1> QED BY <1>2, <1>4, <1>5, <1>6

\* The program reads a piece and writes it.
LEMMA ReadSomeKeeps ==
  ASSUME NEW n
  PROVE  Inductive /\ ReadSome(n) => Inductive'
<1> SUFFICES ASSUME Inductive, ReadSome(n) PROVE Inductive'
  OBVIOUS
<1>0. /\ pc = "loop" /\ pc' = "loop" /\ page # <<>> /\ Ready /\ fd \in Fd
      /\ n \in Ask /\ Reads(n).n > 0
      /\ out' = out \o Written(Reads(n).buf) /\ fd' = [fd EXCEPT !.fpos = Reads(n).fpos]
      /\ img' = img /\ line' = line /\ arg1' = arg1 /\ page' = page
  BY DEF Inductive, Ready, ReadSome
<1>1. IsImage(img) /\ Program \in {"cat", "ls"}
  BY <1>0, Running
<1>2. /\ fd' \in Fd /\ fd'.filetype = fd.filetype /\ fd'.inode_num = fd.inode_num
      /\ fd'.fpos = Reads(n).fpos /\ fd.fpos \in Nat
  <2>1. PICK p \in Nat : p = Reads(n).fpos
    BY <1>0, ReadsIs
  <2> QED BY <1>0, <2>1 DEF Fd
<1>3. Ready' /\ Program' = Program /\ ArgWord' = ArgWord
  BY <1>0, <1>2, ReadyStays
<1>4. ASSUME Program = "cat"
      PROVE  \E d \in Named(img, ArgWord) :
               /\ fd'.filetype = d.filetype
               /\ d.filetype = FileType =>
                    /\ fd'.inode_num = d.inode_num /\ fd'.fpos \in Nat
                    /\ fd'.fpos <= img.inodes[d.inode_num + 1].len
                    /\ out' = Piece(img, d.inode_num, 0, fd'.fpos)
  <2>1. PICK d \in Named(img, ArgWord) :
          /\ HasCopied(d)
          /\ d.filetype = FileType => LET r == Reads(n) IN
               \/ r.n = 0 /\ fd.fpos = img.inodes[d.inode_num + 1].len
               \/ r.n = Failure /\ ~Readable(img, d.inode_num)
               \/ /\ r.n \in Nat \ {0} /\ fd.fpos + r.n <= img.inodes[d.inode_num + 1].len
                  /\ r.fpos = fd.fpos + r.n
                  /\ r.buf = Piece(img, d.inode_num, fd.fpos, r.n)
    BY <1>0, <1>4, ReadsIs
  <2>2. ASSUME d.filetype = FileType
        PROVE  /\ fd'.inode_num = d.inode_num /\ fd'.fpos \in Nat
               /\ fd'.fpos <= img.inodes[d.inode_num + 1].len
               /\ out' = Piece(img, d.inode_num, 0, fd'.fpos)
    <3>1. fd.inode_num = d.inode_num /\ out = Piece(img, d.inode_num, 0, fd.fpos)
      BY <2>1, <2>2 DEF HasCopied
    <3>2. PICK c \in Nat :
            /\ c = Reads(n).n /\ fd.fpos + c <= img.inodes[d.inode_num + 1].len
            /\ Reads(n).fpos = fd.fpos + c
            /\ Reads(n).buf = Piece(img, d.inode_num, fd.fpos, c)
      BY <1>0, <2>1, <2>2 DEF Failure
    <3>3. out' = out \o Piece(img, d.inode_num, fd.fpos, c)
      BY <1>0, <1>4, <3>2 DEF Written
    <3>4. out' = Piece(img, d.inode_num, 0, fd.fpos + c)
      BY <1>2, <3>1, <3>3, PiecesJoin
    <3> QED BY <1>2, <3>1, <3>2, <3>4
  <2>3. fd'.filetype = d.filetype
    BY <1>2, <2>1 DEF HasCopied
  <2> QED BY <2>2, <2>3
<1>5. ASSUME Program = "ls" PROVE HasListed'
  <2>1. /\ HasListed /\ fd.fpos < Len(img.dentries) /\ Reads(n).fpos = fd.fpos + 1
        /\ Reads(n).buf = img.dentries[fd.fpos + 1].name
    BY <1>0, <1>5, ReadsIs
  <2>2. out' = out \o Append(img.dentries[fd.fpos + 1].name, "newline")
    BY <1>0, <1>5, <2>1 DEF Written
  <2>3. out = Listing(img, fd.fpos)
    BY <2>1 DEF HasListed
  <2>4. out' = Listing(img, fd.fpos + 1)
    BY <1>1, <1>2, <2>1, <2>2, <2>3, ListingGrows
  <2>5. fd.fpos + 1 <= Len(img.dentries)
    BY <1>1, <1>2, <2>1 DEF IsImage
  <2> QED BY <1>0, <1>2, <2>1, <2>4, <2>5 DEF HasListed
<1>6. Serving'
  <2>1. ASSUME Program = "cat"
        PROVE  \E d \in Named(img', ArgWord') : HasCopied(d)'
    BY <1>0, <1>3, <1>4, <2>1 DEF HasCopied
  <2> QED BY <1>3, <1>5, <2>1 DEF Serving
<1>7. CatPrintsTheFile'
  <2>1. ASSUME Program = "cat", NEW e \in Named(img, ArgWord), e.filetype = FileType
        PROVE  IsPrefix(out', Contents(img, e.inode_num))
    <3>1. PICK d \in Named(img, ArgWord) :
               /\ d.filetype = FileType =>
                    /\ fd'.fpos \in Nat
                    /\ fd'.fpos <= img.inodes[d.inode_num + 1].len
                    /\ out' = Piece(img, d.inode_num, 0, fd'.fpos)
      BY <1>4, <2>1
    <3>2. e = d /\ e.inode_num \in 0 .. Len(img.inodes) - 1
      BY <1>1, <2>1, <3>1, NamedFacts
    <3> QED BY <1>1, <2>1, <3>1, <3>2, CopiedIsPrefix
  <2> QED BY <1>0, <1>3, <2>1 DEF CatPrintsTheFile, Ran
<1>8. StatusIsTrue' /\ LsPrintsEveryName' /\ ShellSurvives'
  BY <1>0 DEF StatusIsTrue, LsPrintsEveryName, ShellSurvives
<1> QED BY <1>3, <1>6, <1>7, <1>8 DEF Inductive

\* The program's last read.
LEMMA ReadEndsKeeps ==
  ASSUME NEW n
  PROVE  Inductive /\ ReadEnds(n) => Inductive'
<1> SUFFICES ASSUME Inductive, ReadEnds(n) PROVE Inductive'
  OBVIOUS
<1>0. /\ pc = "loop" /\ pc' = "shell" /\ page # <<>> /\ Ready
      /\ n \in Ask /\ Reads(n).n <= 0
      /\ status' = IF Reads(n).n = 0 THEN 0 ELSE 3
      /\ out' = out /\ fd' = NoFd /\ CatPrintsTheFile
      /\ img' = img /\ line' = line /\ arg1' = arg1 /\ page' = page
  BY DEF Inductive, Ready, ReadEnds, Halt
<1>1. IsImage(img) /\ Program \in {"cat", "ls"}
  BY <1>0, Running
<1>2. fd' \in Fd
  BY <1>0 DEF NoFd, Fd, RtcType, DirType, FileType
<1>3. Ready' /\ Program' = Program /\ ArgWord' = ArgWord
  BY <1>0, <1>2, ReadyStays
<1>4. fd.fpos \in Nat
  BY DEF Inductive, Ready, Fd
<1>5. ASSUME Program = "cat"
      PROVE  \E d \in Named(img, ArgWord) :
               /\ Reads(n).n # 0 => ~Readable(img, d.inode_num)
               /\ d.filetype = FileType /\ Reads(n).n = 0 =>
                    out = Contents(img, d.inode_num)
  <2>1. PICK d \in Named(img, ArgWord) :
          /\ HasCopied(d)
          /\ d.filetype # FileType => Reads(n).n \in Nat
          /\ d.filetype = FileType => LET r == Reads(n) IN
               \/ r.n = 0 /\ fd.fpos = img.inodes[d.inode_num + 1].len
               \/ r.n = Failure /\ ~Readable(img, d.inode_num)
               \/ r.n \in Nat \ {0}
    BY <1>0, <1>5, ReadsIs
  <2>2. CASE d.filetype # FileType
    <3>1. Reads(n).n = 0
      BY <1>0, <2>1, <2>2
    <3> QED BY <2>2, <3>1
  <2>3. CASE d.filetype = FileType
    <3>1. \/ Reads(n).n = 0 /\ fd.fpos = img.inodes[d.inode_num + 1].len
          \/ Reads(n).n = Failure /\ ~Readable(img, d.inode_num)
      BY <1>0, <2>1, <2>3
    <3>2. Failure # 0
      BY DEF Failure
    <3>3. out = Piece(img, d.inode_num, 0, fd.fpos)
      BY <2>1, <2>3 DEF HasCopied
    <3>4. Contents(img, d.inode_num)
            = Piece(img, d.inode_num, 0, img.inodes[d.inode_num + 1].len)
      <4>1. d.inode_num \in 0 .. Len(img.inodes) - 1
        BY <1>1, NamedFacts
      <4> QED BY <1>1, <4>1, ContentsFacts
    <3> QED BY <3>1, <3>2, <3>3, <3>4
  <2> QED BY <2>2, <2>3
<1>6. ASSUME Program = "ls" PROVE Reads(n).n = 0 /\ out = Listing(img, Len(img.dentries))
  <2>1. HasListed /\ Reads(n).n \in Nat /\ (~(Reads(n).n > 0) => fd.fpos = Len(img.dentries))
    BY <1>0, <1>6, ReadsIs
  <2>2. Reads(n).n = 0 /\ ~(Reads(n).n > 0)
    BY <1>0, <2>1
  <2> QED BY <2>1, <2>2 DEF HasListed
<1>7. StatusIsTrue'
  <2>1. status' = 3 => \E d \in Named(img, ArgWord) : ~Readable(img, d.inode_num)
    BY <1>0, <1>1, <1>5, <1>6
  <2>2. status' \in {0, 3}
    BY <1>0
  <2> QED BY <1>0, <1>3, <2>1, <2>2 DEF StatusIsTrue, Failure
<1>8. CatPrintsTheFile'
  <2>1. ASSUME Program = "cat", NEW e \in Named(img, ArgWord), e.filetype = FileType
        PROVE  /\ IsPrefix(out, Contents(img, e.inode_num))
               /\ status' = 0 => out = Contents(img, e.inode_num)
    <3>1. IsPrefix(out, Contents(img, e.inode_num))
      BY <1>0, <2>1 DEF CatPrintsTheFile, Ran
    <3>2. ASSUME status' = 0 PROVE out = Contents(img, e.inode_num)
      <4>1. Reads(n).n = 0
        BY <1>0, <3>2
      <4>2. PICK d \in Named(img, ArgWord) :
                d.filetype = FileType => out = Contents(img, d.inode_num)
        BY <1>5, <2>1, <4>1
      <4>3. e = d
        BY <1>1, <4>2, NamedFacts
      <4> QED BY <2>1, <4>2, <4>3
    <3> QED BY <3>1, <3>2
  <2> QED BY <1>0, <1>3, <2>1 DEF CatPrintsTheFile, Ran
<1>9. LsPrintsEveryName'
  BY <1>0, <1>3, <1>6 DEF LsPrintsEveryName, Ran, Listing
<1>10. Serving' /\ ShellSurvives'
  BY <1>0 DEF Serving, ShellSurvives
<1> QED BY <1>3, <1>7, <1>8, <1>9, <1>10 DEF Inductive

\* Every step keeps it.
LEMMA StepInductive == Inductive /\ [Next]_vars => Inductive'
<1> SUFFICES ASSUME Inductive, [Next]_vars PROVE Inductive'
  OBVIOUS
<1>1. CASE Prompt
  BY <1>1, PromptKeeps
<1>2. ASSUME NEW l \in Lines, Enter(l) PROVE Inductive'
  BY <1>2, EnterKeeps
<1>3. CASE Refuse(CString(line))
  BY <1>3, RefuseKeeps
<1>4. CASE Start(CString(line))
  BY <1>4, StartKeeps
<1>5. CASE Lose(CString(line))
  BY <1>5, LoseKeeps
<1>6. CASE NoArgument
  BY <1>6, NoArgumentKeeps
<1>7. CASE NoFile
  BY <1>7, NoFileKeeps
<1>8. CASE Open
  BY <1>8, OpenKeeps
<1>9. ASSUME NEW n, ReadSome(n) \/ ReadEnds(n) PROVE Inductive'
  BY <1>9, ReadSomeKeeps, ReadEndsKeeps
<1>10. CASE UNCHANGED vars
  <2>1. Ready' /\ Serving'
    BY <1>10 DEF vars, Inductive, Ready, Serving, Program, HasStarted, HasArgument, FirstWord,
                 StartsElf, ArgWord, HasCopied, HasListed
  <2>2. /\ StatusIsTrue' /\ CatPrintsTheFile' /\ LsPrintsEveryName' /\ ShellSurvives'
    BY <1>10 DEF vars, Inductive, StatusIsTrue, CatPrintsTheFile, LsPrintsEveryName,
                 ShellSurvives, Program, Ran, FirstWord, StartsElf, ArgWord
  <2> QED BY <2>1, <2>2 DEF Inductive
<1> QED BY <1>1, <1>2, <1>3, <1>4, <1>5, <1>6, <1>7, <1>8, <1>9, <1>10 DEF Next, Execute, User

(***************************************************************************)
(* Whatever is typed at the shell, the page holds the file named and its   *)
(* argument, what was written is what lies before the position, and every  *)
(* report is true.                                                         *)
(***************************************************************************)
THEOREM InductiveHolds == Spec => []Inductive
BY InitInductive, StepInductive, PTL DEF Spec

-----------------------------------------------------------------------------
(***************************************************************************)
(* The theorems.                                                           *)
(***************************************************************************)

\* What runs is the whole of the file that the first field names, and it is a
\* program (process.c:268-277, 325).
THEOREM RunsWhatWasNamedCorrect == Spec => []RunsWhatWasNamed
<1>1. Inductive => RunsWhatWasNamed
  <2> SUFFICES ASSUME Inductive, pc \in {"start", "loop"}
               PROVE  \E d \in Named(img, FirstWord) :
                        /\ d.filetype = FileType
                        /\ page = Contents(img, d.inode_num) /\ StartsElf(d.inode_num)
    BY DEF RunsWhatWasNamed
  <2> QED BY DEF Inductive, Ready, HasStarted
<1> QED BY <1>1, InductiveHolds, PTL

\* A program gets the second field as its argument (process.c:234-260;
\* syscall.c:194-200).
THEOREM ArgIsSecondFieldCorrect == Spec => []ArgIsSecondField
<1>1. Inductive => ArgIsSecondField
  <2> SUFFICES ASSUME Inductive, pc \in {"start", "loop"}, ~IsField(line)
               PROVE  \E rest \in Suffixes(line) :
                        /\ line = FirstWord \o <<Space>> \o ArgWord \o rest
                        /\ IsField(ArgWord) /\ (rest # <<>> => rest[1] = Space)
    BY DEF ArgIsSecondField
  <2>1. line \in Lines /\ arg1 \in Args(CString(line))
    BY DEF Inductive, Ready, HasArgument
  <2>2. IsText(line)
    BY <2>1, CommandsAssumption
  <2>3. HasArg(CString(line)) /\ IsText(Arg(CString(line)))
    BY <2>2, ArgIs
  <2>4. arg1 = CString(Arg(CString(line)))
    BY <2>1, <2>3 DEF Args
  <2>5. ArgWord = Arg(CString(line))
    BY <2>3, <2>4, ArgWordIs
  <2> QED BY <2>2, <2>3, <2>5, ArgIs
<1> QED BY <1>1, InductiveHolds, PTL

\* cat writes the file's bytes, each once and in order, and all of them when it
\* succeeds (filesys.c:177-209, 303-354; ece391cat.c).
THEOREM CatPrintsTheFileCorrect == Spec => []CatPrintsTheFile
<1>1. Inductive => CatPrintsTheFile
  BY DEF Inductive
<1> QED BY <1>1, InductiveHolds, PTL

\* ls writes every name, each once and in the directory's order (filesys.c:79-115;
\* ece391ls.c).
THEOREM LsPrintsEveryNameCorrect == Spec => []LsPrintsEveryName
<1>1. Inductive => LsPrintsEveryName
  BY DEF Inductive
<1> QED BY <1>1, InductiveHolds, PTL

\* What the user is told is so (ece391shell.c; ece391cat.c; filesys.c:237-268,
\* 336-339).
THEOREM StatusIsTrueCorrect == Spec => []StatusIsTrue
<1>1. Inductive => StatusIsTrue
  BY DEF Inductive
<1> QED BY <1>1, InductiveHolds, PTL

\* Nothing fails after check_exec accepted a file the image has in full
\* (process.c:286-372).
THEOREM ShellSurvivesCorrect == Spec => []ShellSurvives
<1>1. Inductive => ShellSurvives
  BY DEF Inductive
<1> QED BY <1>1, InductiveHolds, PTL

=============================================================================
