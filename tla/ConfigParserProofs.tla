------------------------- MODULE ConfigParserProofs -------------------------
(* Proofs about module ConfigParser, for any files, any monitors named in     *)
(* them and any bounds: Inv, the inductive invariant of what is read, and     *)
(* OnlySystemInPolicy, that of the policies, hold at first and are kept by    *)
(* every handler of the parser.  DisplaysProofs states what follows for the   *)
(* runs.                                                                      *)
EXTENDS ConfigParser, SequenceTheorems, TLAPS

(* The fields of a ConfigParser.                                              *)
LEMMA FieldsOfParser ==
    DOMAIN NewParser("user") =
        {"state", "flags", "parent", "root", "level", "layoutValid", "logical", "disabled",
         "current", "monitor", "spec", "mode", "turned", "seen", "pendingStore", "stores",
         "dbus", "pending", "update"}
  BY DEF NewParser

(* A function on 1 .. n is a sequence.                                        *)
LEMMA FunctionIsSeq ==
    ASSUME NEW S, NEW n \in Nat, NEW f \in [1 .. n -> S]
    PROVE  f \in Seq(S) /\ Len(f) = n
  OBVIOUS

(* Front leaves all but the last element.                                     *)
LEMMA FrontOf ==
    ASSUME NEW S, NEW s \in Seq(S), s # <<>>
    PROVE  /\ Len(s) \in Nat /\ Len(s) > 0
           /\ Front(s) \in Seq(S) /\ Len(Front(s)) = Len(s) - 1
           /\ \A i \in 1 .. Len(s) - 1 : Front(s)[i] = s[i]
<1>1. Len(s) \in Nat /\ Len(s) > 0 BY EmptySeq
<1>2. \A i \in 1 .. Len(s) - 1 : s[i] \in S BY <1>1
<1> DEFINE n == Len(s) - 1
<1>3. n \in Int /\ 1 \in Int BY <1>1
<1>4. Front(s) = SubSeq(s, 1, n) BY DEF Front
<1> HIDE DEF n
<1>5. /\ SubSeq(s, 1, n) \in Seq(S) /\ Len(SubSeq(s, 1, n)) = (IF 1 <= n THEN n - 1 + 1 ELSE 0)
      /\ \A i \in 1 .. n - 1 + 1 : SubSeq(s, 1, n)[i] = s[1 + i - 1]
  <2>1. \A i \in 1 .. n : s[i] \in S BY <1>2 DEF n
  <2> QED BY ONLY <1>3, <2>1, SubSeqProperties
<1>6. Len(SubSeq(s, 1, n)) = n
  <2>1. n \in Nat BY <1>1 DEF n
  <2>2. n = 0 \/ (1 <= n /\ n - 1 + 1 = n) BY <2>1
  <2> QED BY <1>5, <2>1, <2>2
<1>7. \A i \in 1 .. n : SubSeq(s, 1, n)[i] = s[i] BY <1>3, <1>5
<1> QED BY <1>1, <1>4, <1>5, <1>6, <1>7 DEF n

(* One element of a sequence is replaced.                                     *)
LEMMA Replaced ==
    ASSUME NEW S, NEW s \in Seq(S), NEW k \in 1 .. Len(s), NEW v \in S, NEW t, t = [s EXCEPT ![k] = v]
    PROVE  t \in Seq(S) /\ Len(t) = Len(s) /\ \A i \in 1 .. Len(s) : t[i] = IF i = k THEN v ELSE s[i]
<1>1. s \in [1 .. Len(s) -> S] /\ Len(s) \in Nat OBVIOUS
<1>2. t \in [1 .. Len(s) -> S] BY <1>1
<1> QED BY <1>1, <1>2, FunctionIsSeq

(* The names of the frames of a stack are a sequence of elements.             *)
LEMMA NamesOf ==
    ASSUME NEW o \in Seq(Frame), NEW p, p = [i \in DOMAIN o |-> o[i].name]
    PROVE  p \in Seq(Elements) /\ Len(p) = Len(o) /\ \A i \in 1 .. Len(o) : p[i] = o[i].name
<1>1. Len(o) \in Nat /\ DOMAIN o = 1 .. Len(o) /\ \A i \in 1 .. Len(o) : o[i] \in Frame OBVIOUS
<1>2. \A i \in 1 .. Len(o) : o[i].name \in Elements BY <1>1 DEF Frame
<1>3. p \in [1 .. Len(o) -> Elements] BY <1>1, <1>2
<1> QED BY <1>1, <1>3, FunctionIsSeq

(* The path is read off the elements that are open.                           *)
LEMMA PathIsNames ==
    ASSUME open \in Seq(Frame)
    PROVE  /\ Path \in Seq(Elements) /\ Len(Path) = Len(open)
           /\ \A i \in 1 .. Len(open) : Path[i] = open[i].name
  BY NamesOf DEF Path

(* What GMarkup knows after the start of an element.                          *)
LEMMA OpenedElement ==
    ASSUME open \in Seq(Frame), NEW e \in Elements, Opened(e)
    PROVE  /\ open' \in Seq(Frame) /\ Len(open') = Len(open) + 1
           /\ open'[Len(open) + 1].had = {} /\ open'[Len(open) + 1].name = e
           /\ \A i \in 1 .. Len(open) :
                /\ open'[i].name = open[i].name /\ open[i].had \subseteq open'[i].had
                /\ i = Len(open) /\ e \notin Repeated => e \in open'[i].had
           /\ Path' = Append(Path, e)
<1> DEFINE had == [i \in DOMAIN open |->
                    [open[i] EXCEPT !.had = IF (i = Len(open) /\ e \notin Repeated) \/ e = "unknown"
                                            THEN @ \cup {e} ELSE @]]
           frame == [name |-> e, had |-> {}]
<1>1. frame \in Frame /\ frame.name = e /\ frame.had = {} BY DEF Frame
<1>2. ASSUME NEW i \in 1 .. Len(open)
      PROVE  /\ had[i] \in Frame /\ had[i].name = open[i].name /\ open[i].had \subseteq had[i].had
             /\ i = Len(open) /\ e \notin Repeated => e \in had[i].had
  <2>1. open[i] \in Frame OBVIOUS
  <2> QED BY <2>1 DEF Frame
<1>3. had \in Seq(Frame) /\ Len(had) = Len(open)
  <2>1. DOMAIN open = 1 .. Len(open) /\ Len(open) \in Nat OBVIOUS
  <2>2. had \in [1 .. Len(open) -> Frame]
    <3>1. DOMAIN had = 1 .. Len(open) /\ had = [i \in 1 .. Len(open) |-> had[i]] BY <2>1
    <3> HIDE DEF had
    <3> QED BY <1>2, <3>1
  <2> HIDE DEF had
  <2> QED BY <2>1, <2>2, FunctionIsSeq
<1>4. open' = Append(had, frame) BY DEF Opened
<1> HIDE DEF had, frame
<1>5. /\ open' \in Seq(Frame) /\ Len(open') = Len(open) + 1 /\ open'[Len(open) + 1] = frame
      /\ \A i \in 1 .. Len(open) : open'[i] = had[i]
  BY <1>1, <1>3, <1>4
<1>6. Path' = Append(Path, e)
  <2>1. Path' \in Seq(Elements) /\ Append(Path, e) \in Seq(Elements)
    <3>1. Path' \in Seq(Elements) BY <1>5, NamesOf DEF Path
    <3> QED BY <3>1, PathIsNames
  <2>2. Len(Path') = Len(open) + 1 /\ Len(Append(Path, e)) = Len(open) + 1
    <3>1. Len(Path') = Len(open) + 1 BY <1>5, NamesOf DEF Path
    <3> QED BY <3>1, PathIsNames
  <2>3. \A i \in 1 .. Len(open) + 1 : Path'[i] = Append(Path, e)[i]
    <3>1. \A i \in 1 .. Len(open) + 1 : Path'[i] = open'[i].name BY <1>5, NamesOf DEF Path
    <3>2. \A i \in 1 .. Len(open) : Append(Path, e)[i] = open[i].name BY PathIsNames
    <3>3. Append(Path, e)[Len(open) + 1] = e BY PathIsNames
    <3>4. ASSUME NEW i \in 1 .. Len(open) PROVE Path'[i] = Append(Path, e)[i]
      <4>1. i \in 1 .. Len(open) + 1 OBVIOUS
      <4>2. Path'[i] = open'[i].name BY <3>1, <4>1
      <4>3. open'[i] = had[i] /\ had[i].name = open[i].name BY <1>2, <1>5
      <4> QED BY <3>2, <4>2, <4>3
    <3>5. Path'[Len(open) + 1] = e
      <4>1. Len(open) + 1 \in 1 .. Len(open) + 1 OBVIOUS
      <4>2. Path'[Len(open) + 1] = open'[Len(open) + 1].name BY <3>1, <4>1
      <4>3. open'[Len(open) + 1] = frame BY <1>5
      <4> QED BY <1>1, <4>2, <4>3
    <3>6. Len(open) \in Nat OBVIOUS
    <3>7. \A i \in 1 .. Len(open) + 1 : i \in 1 .. Len(open) \/ i = Len(open) + 1 BY <3>6
    <3> QED BY ONLY <3>3, <3>4, <3>5, <3>7
  <2>4. \A i \in 1 .. Len(Path') : Path'[i] = Append(Path, e)[i] BY <2>2, <2>3
  <2> QED BY ONLY <2>1, <2>2, <2>4, SeqEqual
<1> QED BY <1>1, <1>2, <1>5, <1>6

(* What it knows after the end of one.                                        *)
LEMMA ClosedElement ==
    ASSUME open \in Seq(Frame), open # <<>>, open' = Front(open)
    PROVE  /\ open' \in Seq(Frame) /\ Len(open') = Len(open) - 1
           /\ \A i \in 1 .. Len(open) - 1 : open'[i] = open[i]
           /\ Path' = Front(Path)
<1>1. Len(open) \in Nat /\ Len(open) > 0 BY FrontOf
<1>2. /\ open' \in Seq(Frame) /\ Len(open') = Len(open) - 1
      /\ \A i \in 1 .. Len(open) - 1 : open'[i] = open[i]
  BY FrontOf
<1>3. Front(Path) \in Seq(Elements) /\ Len(Front(Path)) = Len(open) - 1
      /\ \A i \in 1 .. Len(open) - 1 : Front(Path)[i] = open[i].name
  <2>1. Path \in Seq(Elements) /\ Path # <<>> /\ Len(Path) = Len(open) BY <1>1, PathIsNames
  <2> QED BY <1>1, <2>1, FrontOf, PathIsNames
<1>4. /\ Path' \in Seq(Elements) /\ Len(Path') = Len(open) - 1
      /\ \A i \in 1 .. Len(open) - 1 : Path'[i] = open[i].name
  <2>1. /\ Path' \in Seq(Elements) /\ Len(Path') = Len(open')
        /\ \A i \in 1 .. Len(open') : Path'[i] = open'[i].name
    BY <1>2, NamesOf DEF Path
  <2> QED BY <1>2, <2>1
<1>5. \A i \in 1 .. Len(Path') : Path'[i] = Front(Path)[i] BY <1>3, <1>4
<1>6. Path' = Front(Path) BY ONLY <1>3, <1>4, <1>5, SeqEqual
<1> QED BY <1>2, <1>6

(* And after a text.                                                          *)
LEMMA ReadText ==
    ASSUME open \in Seq(Frame), open # <<>>, open' = [open EXCEPT ![Len(open)].had = @ \cup {"text"}]
    PROVE  /\ open' \in Seq(Frame) /\ Len(open') = Len(open)
           /\ \A i \in 1 .. Len(open) : open'[i].name = open[i].name /\ open[i].had \subseteq open'[i].had
           /\ "text" \in open'[Len(open)].had
           /\ Path' = Path
<1>1. Len(open) \in Nat /\ Len(open) > 0 BY EmptySeq
<1> DEFINE n == Len(open)
<1>n. n \in 1 .. n /\ n = Len(open) BY <1>1
<1>2. open[n] \in Frame BY <1>1
<1> DEFINE last1 == [open[n] EXCEPT !.had = @ \cup {"text"}]
<1>3. last1 \in Frame /\ last1.name = open[n].name /\ last1.had = open[n].had \cup {"text"}
  BY <1>2 DEF Frame
<1>4. open' = [open EXCEPT ![n] = last1] OBVIOUS
<1> HIDE DEF last1, n
<1>5. open' \in Seq(Frame) /\ Len(open') = n
  BY ONLY <1>1, <1>3, <1>4, Replaced, <1>n, open \in Seq(Frame)
<1>6. \A i \in 1 .. n : open'[i] = IF i = n THEN last1 ELSE open[i]
  BY ONLY <1>1, <1>3, <1>4, Replaced, <1>n, open \in Seq(Frame)
<1>7. \A i \in 1 .. n : open'[i].name = open[i].name /\ open[i].had \subseteq open'[i].had
  BY <1>3, <1>6
<1>8. Path' \in Seq(Elements) /\ Len(Path') = n /\ \A i \in 1 .. n : Path'[i] = open'[i].name
  BY ONLY <1>5, NamesOf DEF Path
<1>9. Path' = Path
  <2>1. Len(Path') = Len(Path) /\ \A i \in 1 .. Len(Path') : Path'[i] = Path[i]
    BY <1>7, <1>8, <1>n, PathIsNames
  <2>2. Path \in Seq(Elements) BY PathIsNames
  <2> QED BY ONLY <1>8, <2>1, <2>2, SeqEqual
<1> QED BY <1>n, <1>3, <1>5, <1>6, <1>7, <1>9

(* Sequences with the same elements are the same.                             *)
LEMMA SameTuple ==
    ASSUME NEW s, NEW t, NEW S, s \in Seq(S), t \in Seq(S), NEW n, Len(s) = n, Len(t) = n,
           \A i \in 1 .. n : s[i] = t[i]
    PROVE  s = t
<1>1. Len(s) = Len(t) /\ \A i \in 1 .. Len(s) : s[i] = t[i] OBVIOUS
<1> QED BY ONLY <1>1, s \in Seq(S), t \in Seq(S), SeqEqual

(* Appending to the short sequences that the ways are.                        *)
LEMMA AppendTuple ==
    /\ \A a : Append(<<>>, a) = <<a>>
    /\ \A a, b : Append(<<a>>, b) = <<a, b>>
    /\ \A a, b, c : Append(<<a, b>>, c) = <<a, b, c>>
    /\ \A a, b, c, d : Append(<<a, b, c>>, d) = <<a, b, c, d>>
    /\ \A a, b, c, d, e : Append(<<a, b, c, d>>, e) = <<a, b, c, d, e>>
    /\ \A a, b, c, d, e, f : Append(<<a, b, c, d, e>>, f) = <<a, b, c, d, e, f>>
<1>1. ASSUME NEW a PROVE Append(<<>>, a) = <<a>>
  <2> DEFINE s == Append(<<>>, a)  t == <<a>>  S == {a}
  <2>1. s \in Seq(S) /\ t \in Seq(S) OBVIOUS
  <2>2. Len(s) = 1 /\ Len(t) = 1 /\ \A i \in 1 .. 1 : s[i] = t[i] OBVIOUS
  <2> HIDE DEF s, t, S
  <2>3. s = t BY ONLY <2>1, <2>2, SameTuple
  <2> QED BY <2>3 DEF s, t
<1>2. ASSUME NEW a, NEW b PROVE Append(<<a>>, b) = <<a, b>>
  <2> DEFINE s == Append(<<a>>, b)  t == <<a, b>>  S == {a, b}
  <2>1. s \in Seq(S) /\ t \in Seq(S) OBVIOUS
  <2>2. Len(s) = 2 /\ Len(t) = 2 /\ \A i \in 1 .. 2 : s[i] = t[i] OBVIOUS
  <2> HIDE DEF s, t, S
  <2>3. s = t BY ONLY <2>1, <2>2, SameTuple
  <2> QED BY <2>3 DEF s, t
<1>3. ASSUME NEW a, NEW b, NEW c PROVE Append(<<a, b>>, c) = <<a, b, c>>
  <2> DEFINE s == Append(<<a, b>>, c)  t == <<a, b, c>>  S == {a, b, c}
  <2>1. s \in Seq(S) /\ t \in Seq(S) OBVIOUS
  <2>2. Len(s) = 3 /\ Len(t) = 3 /\ \A i \in 1 .. 3 : s[i] = t[i] OBVIOUS
  <2> HIDE DEF s, t, S
  <2>3. s = t BY ONLY <2>1, <2>2, SameTuple
  <2> QED BY <2>3 DEF s, t
<1>4. ASSUME NEW a, NEW b, NEW c, NEW d PROVE Append(<<a, b, c>>, d) = <<a, b, c, d>>
  <2> DEFINE s == Append(<<a, b, c>>, d)  t == <<a, b, c, d>>  S == {a, b, c, d}
  <2>1. s \in Seq(S) /\ t \in Seq(S) OBVIOUS
  <2>2. Len(s) = 4 /\ Len(t) = 4 /\ \A i \in 1 .. 4 : s[i] = t[i] OBVIOUS
  <2> HIDE DEF s, t, S
  <2>3. s = t BY ONLY <2>1, <2>2, SameTuple
  <2> QED BY <2>3 DEF s, t
<1>5. ASSUME NEW a, NEW b, NEW c, NEW d, NEW e PROVE Append(<<a, b, c, d>>, e) = <<a, b, c, d, e>>
  <2> DEFINE s == Append(<<a, b, c, d>>, e)  t == <<a, b, c, d, e>>  S == {a, b, c, d, e}
  <2>1. s \in Seq(S) /\ t \in Seq(S) OBVIOUS
  <2>2. Len(s) = 5 /\ Len(t) = 5 /\ \A i \in 1 .. 5 : s[i] = t[i] OBVIOUS
  <2> HIDE DEF s, t, S
  <2>3. s = t BY ONLY <2>1, <2>2, SameTuple
  <2> QED BY <2>3 DEF s, t
<1>6. ASSUME NEW a, NEW b, NEW c, NEW d, NEW e, NEW f PROVE Append(<<a, b, c, d, e>>, f) = <<a, b, c, d, e, f>>
  <2> DEFINE s == Append(<<a, b, c, d, e>>, f)  t == <<a, b, c, d, e, f>>  S == {a, b, c, d, e, f}
  <2>1. s \in Seq(S) /\ t \in Seq(S) OBVIOUS
  <2>2. Len(s) = 6 /\ Len(t) = 6 /\ \A i \in 1 .. 6 : s[i] = t[i] OBVIOUS
  <2> HIDE DEF s, t, S
  <2>3. s = t BY ONLY <2>1, <2>2, SameTuple
  <2> QED BY <2>3 DEF s, t
<1> QED BY <1>1, <1>2, <1>3, <1>4, <1>5, <1>6

(* And taking their last element away.                                        *)
LEMMA FrontTuple ==
    /\ \A a : Front(<<a>>) = <<>>
    /\ \A a, b : Front(<<a, b>>) = <<a>>
    /\ \A a, b, c : Front(<<a, b, c>>) = <<a, b>>
    /\ \A a, b, c, d : Front(<<a, b, c, d>>) = <<a, b, c>>
    /\ \A a, b, c, d, e : Front(<<a, b, c, d, e>>) = <<a, b, c, d>>
    /\ \A a, b, c, d, e, f : Front(<<a, b, c, d, e, f>>) = <<a, b, c, d, e>>
<1>1. ASSUME NEW a PROVE Front(<<a>>) = <<>>
  <2> DEFINE s == Front(<<a>>)  t == <<>>  S == {a}
  <2>1. s \in Seq(S) /\ t \in Seq(S) BY DEF Front
  <2>2. Len(s) = 0 /\ Len(t) = 0 /\ \A i \in 1 .. 0 : s[i] = t[i] BY DEF Front
  <2> HIDE DEF s, t, S
  <2>3. s = t BY ONLY <2>1, <2>2, SameTuple
  <2> QED BY <2>3 DEF s, t
<1>2. ASSUME NEW a, NEW b PROVE Front(<<a, b>>) = <<a>>
  <2> DEFINE s == Front(<<a, b>>)  t == <<a>>  S == {a, b}
  <2>1. s \in Seq(S) /\ t \in Seq(S) BY DEF Front
  <2>2. Len(s) = 1 /\ Len(t) = 1 /\ \A i \in 1 .. 1 : s[i] = t[i] BY DEF Front
  <2> HIDE DEF s, t, S
  <2>3. s = t BY ONLY <2>1, <2>2, SameTuple
  <2> QED BY <2>3 DEF s, t
<1>3. ASSUME NEW a, NEW b, NEW c PROVE Front(<<a, b, c>>) = <<a, b>>
  <2> DEFINE s == Front(<<a, b, c>>)  t == <<a, b>>  S == {a, b, c}
  <2>1. s \in Seq(S) /\ t \in Seq(S) BY DEF Front
  <2>2. Len(s) = 2 /\ Len(t) = 2 /\ \A i \in 1 .. 2 : s[i] = t[i] BY DEF Front
  <2> HIDE DEF s, t, S
  <2>3. s = t BY ONLY <2>1, <2>2, SameTuple
  <2> QED BY <2>3 DEF s, t
<1>4. ASSUME NEW a, NEW b, NEW c, NEW d PROVE Front(<<a, b, c, d>>) = <<a, b, c>>
  <2> DEFINE s == Front(<<a, b, c, d>>)  t == <<a, b, c>>  S == {a, b, c, d}
  <2>1. s \in Seq(S) /\ t \in Seq(S) BY DEF Front
  <2>2. Len(s) = 3 /\ Len(t) = 3 /\ \A i \in 1 .. 3 : s[i] = t[i] BY DEF Front
  <2> HIDE DEF s, t, S
  <2>3. s = t BY ONLY <2>1, <2>2, SameTuple
  <2> QED BY <2>3 DEF s, t
<1>5. ASSUME NEW a, NEW b, NEW c, NEW d, NEW e PROVE Front(<<a, b, c, d, e>>) = <<a, b, c, d>>
  <2> DEFINE s == Front(<<a, b, c, d, e>>)  t == <<a, b, c, d>>  S == {a, b, c, d, e}
  <2>1. s \in Seq(S) /\ t \in Seq(S) BY DEF Front
  <2>2. Len(s) = 4 /\ Len(t) = 4 /\ \A i \in 1 .. 4 : s[i] = t[i] BY DEF Front
  <2> HIDE DEF s, t, S
  <2>3. s = t BY ONLY <2>1, <2>2, SameTuple
  <2> QED BY <2>3 DEF s, t
<1>6. ASSUME NEW a, NEW b, NEW c, NEW d, NEW e, NEW f PROVE Front(<<a, b, c, d, e, f>>) = <<a, b, c, d, e>>
  <2> DEFINE s == Front(<<a, b, c, d, e, f>>)  t == <<a, b, c, d, e>>  S == {a, b, c, d, e, f}
  <2>1. s \in Seq(S) /\ t \in Seq(S) BY DEF Front
  <2>2. Len(s) = 5 /\ Len(t) = 5 /\ \A i \in 1 .. 5 : s[i] = t[i] BY DEF Front
  <2> HIDE DEF s, t, S
  <2>3. s = t BY ONLY <2>1, <2>2, SameTuple
  <2> QED BY <2>3 DEF s, t
<1> QED BY <1>1, <1>2, <1>3, <1>4, <1>5, <1>6

(* The way to a child is the way to its parent and the name of the child.     *)
LEMMA ChildWay ==
    ASSUME NEW s \in DOMAIN Children, NEW e \in DOMAIN Children[s], NEW p, NEW q,
           q = IF e = "monitorspec" THEN s ELSE p
    PROVE  /\ Children[s][e] \in DOMAIN Ways(q) /\ s \in DOMAIN Ways(p)
           /\ Append(Ways(p)[s], e) = Ways(q)[Children[s][e]]
<1>0. q = IF e = "monitorspec" THEN s ELSE p OBVIOUS
<1>1. CASE s = "INITIAL" /\ e = "monitors" BY ONLY <1>0, <1>1, AppendTuple DEF Children, Ways
<1>2. CASE s = "MONITORS" /\ e = "configuration" BY ONLY <1>0, <1>2, AppendTuple DEF Children, Ways
<1>3. CASE s = "MONITORS" /\ e = "policy" BY ONLY <1>0, <1>3, AppendTuple DEF Children, Ways
<1>4. CASE s = "CONFIGURATION" /\ e = "logicalmonitor"
  BY ONLY <1>0, <1>4, AppendTuple DEF Children, Ways
<1>5. CASE s = "CONFIGURATION" /\ e = "layoutmode"
  BY ONLY <1>0, <1>5, AppendTuple DEF Children, Ways
<1>6. CASE s = "CONFIGURATION" /\ e = "disabled" BY ONLY <1>0, <1>6, AppendTuple DEF Children, Ways
<1>7. CASE s = "LOGICAL_MONITOR" /\ e = "x" BY ONLY <1>0, <1>7, AppendTuple DEF Children, Ways
<1>8. CASE s = "LOGICAL_MONITOR" /\ e = "transform"
  BY ONLY <1>0, <1>8, AppendTuple DEF Children, Ways
<1>9. CASE s = "LOGICAL_MONITOR" /\ e = "monitor" BY ONLY <1>0, <1>9, AppendTuple DEF Children, Ways
<1>10. CASE s = "TRANSFORM" /\ e = "rotation" BY ONLY <1>0, <1>10, AppendTuple DEF Children, Ways
<1>11. CASE s = "MONITOR" /\ e = "monitorspec" BY ONLY <1>0, <1>11, AppendTuple DEF Children, Ways
<1>12. CASE s = "MONITOR" /\ e = "mode" BY ONLY <1>0, <1>12, AppendTuple DEF Children, Ways
<1>13. CASE s = "MONITOR" /\ e = "maxbpc" BY ONLY <1>0, <1>13, AppendTuple DEF Children, Ways
<1>14. CASE s = "MONITOR_SPEC" /\ e = "connector"
  <2>1. p = q BY <1>0, <1>14
  <2>2. CASE p = "DISABLED" BY ONLY <1>14, <2>1, <2>2, AppendTuple DEF Children, Ways
  <2>3. CASE p # "DISABLED" BY ONLY <1>14, <2>1, <2>3, AppendTuple DEF Children, Ways
  <2> QED BY <2>2, <2>3
<1>15. CASE s = "MONITOR_MODE" /\ e = "width" BY ONLY <1>0, <1>15, AppendTuple DEF Children, Ways
<1>16. CASE s = "DISABLED" /\ e = "monitorspec" BY ONLY <1>0, <1>16, AppendTuple DEF Children, Ways
<1>17. CASE s = "POLICY" /\ e = "stores" BY ONLY <1>0, <1>17, AppendTuple DEF Children, Ways
<1>18. CASE s = "POLICY" /\ e = "dbus" BY ONLY <1>0, <1>18, AppendTuple DEF Children, Ways
<1>19. CASE s = "STORES" /\ e = "store" BY ONLY <1>0, <1>19, AppendTuple DEF Children, Ways
<1> QED
  BY <1>1, <1>2, <1>3, <1>4, <1>5, <1>6, <1>7, <1>8, <1>9, <1>10, <1>11, <1>12, <1>13, <1>14,
      <1>15, <1>16, <1>17, <1>18, <1>19 DEF Children

(* The place that the end of an element leads back to.                        *)
Up(parent) ==
    [MONITORS |-> "INITIAL", POLICY |-> "MONITORS", DBUS |-> "POLICY", STORES |-> "POLICY",
     STORE |-> "STORES", CONFIGURATION |-> "MONITORS", LAYOUT_MODE |-> "CONFIGURATION",
     DISABLED |-> "CONFIGURATION", LOGICAL_MONITOR |-> "CONFIGURATION",
     LOGICAL_MONITOR_X |-> "LOGICAL_MONITOR", TRANSFORM |-> "LOGICAL_MONITOR",
     TRANSFORM_ROTATION |-> "TRANSFORM", MONITOR |-> "LOGICAL_MONITOR",
     MONITOR_MAXBPC |-> "MONITOR", MONITOR_MODE |-> "MONITOR",
     MONITOR_MODE_WIDTH |-> "MONITOR_MODE",
     MONITOR_SPEC |-> IF parent = "DISABLED" THEN "DISABLED" ELSE "MONITOR",
     MONITOR_SPEC_CONNECTOR |-> "MONITOR_SPEC"]

(* And the way back drops it.                                                 *)
LEMMA ParentWay ==
    ASSUME NEW p, NEW s \in DOMAIN Up(p)
    PROVE  /\ Up(p)[s] \in DOMAIN Ways(p) /\ s \in DOMAIN Ways(p)
           /\ Front(Ways(p)[s]) = Ways(p)[Up(p)[s]] /\ Ways(p)[s] # <<>>
<1>1. CASE s = "MONITORS" BY ONLY <1>1, FrontTuple DEF Up, Ways
<1>2. CASE s = "POLICY" BY ONLY <1>2, FrontTuple DEF Up, Ways
<1>3. CASE s = "DBUS" BY ONLY <1>3, FrontTuple DEF Up, Ways
<1>4. CASE s = "STORES" BY ONLY <1>4, FrontTuple DEF Up, Ways
<1>5. CASE s = "STORE" BY ONLY <1>5, FrontTuple DEF Up, Ways
<1>6. CASE s = "CONFIGURATION" BY ONLY <1>6, FrontTuple DEF Up, Ways
<1>7. CASE s = "LAYOUT_MODE" BY ONLY <1>7, FrontTuple DEF Up, Ways
<1>8. CASE s = "DISABLED" BY ONLY <1>8, FrontTuple DEF Up, Ways
<1>9. CASE s = "LOGICAL_MONITOR" BY ONLY <1>9, FrontTuple DEF Up, Ways
<1>10. CASE s = "LOGICAL_MONITOR_X" BY ONLY <1>10, FrontTuple DEF Up, Ways
<1>11. CASE s = "TRANSFORM" BY ONLY <1>11, FrontTuple DEF Up, Ways
<1>12. CASE s = "TRANSFORM_ROTATION" BY ONLY <1>12, FrontTuple DEF Up, Ways
<1>13. CASE s = "MONITOR" BY ONLY <1>13, FrontTuple DEF Up, Ways
<1>14. CASE s = "MONITOR_MAXBPC"
  <2>1. Front(<<"monitors", "configuration", "logicalmonitor", "monitor", "maxbpc">>) = <<"monitors", "configuration", "logicalmonitor", "monitor">>
    BY ONLY FrontTuple
  <2> QED BY ONLY <1>14, <2>1 DEF Up, Ways
<1>15. CASE s = "MONITOR_MODE"
  <2>1. Front(<<"monitors", "configuration", "logicalmonitor", "monitor", "mode">>) = <<"monitors", "configuration", "logicalmonitor", "monitor">>
    BY ONLY FrontTuple
  <2> QED BY ONLY <1>15, <2>1 DEF Up, Ways
<1>16. CASE s = "MONITOR_MODE_WIDTH"
  <2>1. Front(<<"monitors", "configuration", "logicalmonitor", "monitor", "mode", "width">>) = <<"monitors", "configuration", "logicalmonitor", "monitor", "mode">>
    BY ONLY FrontTuple
  <2> QED BY ONLY <1>16, <2>1 DEF Up, Ways
<1>17. CASE s = "MONITOR_SPEC" /\ p = "DISABLED" BY ONLY <1>17, FrontTuple DEF Up, Ways
<1>18. CASE s = "MONITOR_SPEC" /\ p # "DISABLED" BY ONLY <1>18, FrontTuple DEF Up, Ways
<1>19. CASE s = "MONITOR_SPEC_CONNECTOR" /\ p = "DISABLED" BY ONLY <1>19, FrontTuple DEF Up, Ways
<1>20. CASE s = "MONITOR_SPEC_CONNECTOR" /\ p # "DISABLED"
  <2>1. Front(<<"monitors", "configuration", "logicalmonitor", "monitor", "monitorspec", "connector">>) = <<"monitors", "configuration", "logicalmonitor", "monitor", "monitorspec">>
    BY ONLY FrontTuple
  <2> QED BY ONLY <1>20, <2>1 DEF Up, Ways
<1> QED
  BY <1>1, <1>2, <1>3, <1>4, <1>5, <1>6, <1>7, <1>8, <1>9, <1>10, <1>11, <1>12, <1>13, <1>14,
      <1>15, <1>16, <1>17, <1>18, <1>19, <1>20 DEF Up

(* Places that are alike: what is in one of them is in the other.             *)
Rooms ==
    {{"INITIAL", "MONITORS", "POLICY", "STORES", "STORE", "DBUS"},
     {"CONFIGURATION", "LAYOUT_MODE", "DISABLED"},
     {"LOGICAL_MONITOR", "LOGICAL_MONITOR_X"},
     {"TRANSFORM", "TRANSFORM_ROTATION"},
     {"MONITOR", "MONITOR_MODE", "MONITOR_MODE_WIDTH", "MONITOR_MAXBPC"},
     {"MONITOR_SPEC", "MONITOR_SPEC_CONNECTOR"}}
Alike(s, t) == \E R \in Rooms : s \in R /\ t \in R

(* What a move between alike places leaves as it is.                          *)
SameContent ==
    /\ parser'.logical = parser.logical /\ parser'.disabled = parser.disabled
    /\ parser'.current = parser.current /\ parser'.turned = parser.turned
    /\ parser'.monitor.spec = parser.monitor.spec /\ parser'.spec = parser.spec
    /\ parser'.parent = parser.parent
    /\ doc' = doc

(* A move between alike places enters and leaves nothing.                     *)
LEMMA SameRooms ==
    ASSUME Alike(Place, Place'), parser'.parent = parser.parent
    PROVE  /\ (InSpec' <=> InSpec) /\ (InMonitor' <=> InMonitor)
           /\ (InTransform' <=> InTransform) /\ (InLogical' <=> InLogical)
           /\ ((InDisabled' /\ InSpec') <=> (InDisabled /\ InSpec))
           /\ (InConfiguration' <=> InConfiguration)
  BY DEF Alike, Rooms, InSpec, InMonitor, InTransform, InLogical, InDisabled, InConfiguration

(* Such a move keeps what was read equal to what the file said.               *)
LEMMA SaysAsBefore ==
    ASSUME Alike(Place, Place'), SameContent, SaysTheSame
    PROVE  SaysTheSame'
<1>1. /\ (InSpec' <=> InSpec) /\ (InMonitor' <=> InMonitor)
      /\ (InTransform' <=> InTransform) /\ (InLogical' <=> InLogical)
      /\ ((InDisabled' /\ InSpec') <=> (InDisabled /\ InSpec))
      /\ (InConfiguration' <=> InConfiguration)
  BY SameRooms DEF SameContent
<1>2. Current' = Current BY <1>1 DEF Current, SameContent
<1> HIDE DEF Current
<1>3. CASE InConfiguration /\ InLogical BY <1>1, <1>2, <1>3 DEF SaysTheSame, SameContent
<1>4. CASE InConfiguration /\ ~InLogical BY <1>1, <1>4 DEF SaysTheSame, SameContent
<1>5. CASE ~InConfiguration BY <1>1, <1>5 DEF SaysTheSame, SameContent
<1> QED BY <1>3, <1>4, <1>5

Tags ==
    {"monitors", "policy", "dbus", "stores", "store", "configuration", "layoutmode", "disabled",
     "logicalmonitor", "x", "transform", "rotation", "monitor", "maxbpc", "mode", "width",
     "monitorspec", "connector", "unknown"}

(* How long the ways are at least.                                            *)
LEMMA WayLengths ==
    ASSUME NEW p, NEW s \in DOMAIN Ways(p)
    PROVE  /\ Ways(p)[s] \in Seq(Tags)
           /\ s \in {"LOGICAL_MONITOR", "TRANSFORM", "TRANSFORM_ROTATION", "LOGICAL_MONITOR_X"} =>
                Len(Ways(p)[s]) >= 3
           /\ s \in {"MONITOR", "MONITOR_MODE", "MONITOR_MODE_WIDTH", "MONITOR_MAXBPC"} =>
                Len(Ways(p)[s]) >= 4
           /\ s \in {"MONITOR_SPEC", "MONITOR_SPEC_CONNECTOR"} => Len(Ways(p)[s]) >= 4
           /\ s = "CONFIGURATION" => Len(Ways(p)[s]) = 2
           /\ s = "LOGICAL_MONITOR" => Len(Ways(p)[s]) = 3
           /\ s = "MONITOR" => Len(Ways(p)[s]) = 4
           /\ s # "INITIAL" => Len(Ways(p)[s]) > 0
<1>1. CASE s = "INITIAL" BY <1>1 DEF Ways, Tags
<1>2. CASE s = "MONITORS" BY <1>2 DEF Ways, Tags
<1>3. CASE s = "POLICY" BY <1>3 DEF Ways, Tags
<1>4. CASE s = "DBUS" BY <1>4 DEF Ways, Tags
<1>5. CASE s = "STORES" BY <1>5 DEF Ways, Tags
<1>6. CASE s = "STORE" BY <1>6 DEF Ways, Tags
<1>7. CASE s = "CONFIGURATION" BY <1>7 DEF Ways, Tags
<1>8. CASE s = "LAYOUT_MODE" BY <1>8 DEF Ways, Tags
<1>9. CASE s = "DISABLED" BY <1>9 DEF Ways, Tags
<1>10. CASE s = "LOGICAL_MONITOR" BY <1>10 DEF Ways, Tags
<1>11. CASE s = "LOGICAL_MONITOR_X" BY <1>11 DEF Ways, Tags
<1>12. CASE s = "TRANSFORM" BY <1>12 DEF Ways, Tags
<1>13. CASE s = "TRANSFORM_ROTATION" BY <1>13 DEF Ways, Tags
<1>14. CASE s = "MONITOR" BY <1>14 DEF Ways, Tags
<1>15. CASE s = "MONITOR_MAXBPC" BY <1>15 DEF Ways, Tags
<1>16. CASE s = "MONITOR_MODE" BY <1>16 DEF Ways, Tags
<1>17. CASE s = "MONITOR_MODE_WIDTH" BY <1>17 DEF Ways, Tags
<1>18. CASE s = "MONITOR_SPEC" /\ p = "DISABLED" BY <1>18 DEF Ways, Tags
<1>19. CASE s = "MONITOR_SPEC" /\ p # "DISABLED" BY <1>19 DEF Ways, Tags
<1>20. CASE s = "MONITOR_SPEC_CONNECTOR" /\ p = "DISABLED" BY <1>20 DEF Ways, Tags
<1>21. CASE s = "MONITOR_SPEC_CONNECTOR" /\ p # "DISABLED" BY <1>21 DEF Ways, Tags
<1> QED
  BY <1>1, <1>2, <1>3, <1>4, <1>5, <1>6, <1>7, <1>8, <1>9, <1>10, <1>11, <1>12, <1>13, <1>14,
      <1>15, <1>16, <1>17, <1>18, <1>19, <1>20, <1>21 DEF Ways

(* However deep it is in unknown elements, the parser is below its place.     *)
LEMMA LongWay ==
    ASSUME NEW p, NEW s \in DOMAIN Ways(p), NEW path, NEW n \in 0 .. 2,
           n = 0 => path = Ways(p)[s],
           n = 1 => path = Append(Ways(p)[s], "unknown"),
           n = 2 => path = Append(Append(Ways(p)[s], "unknown"), "configuration")
    PROVE  Len(path) = Len(Ways(p)[s]) + n /\ Len(Ways(p)[s]) \in Nat
<1>1. Ways(p)[s] \in Seq(Tags) BY WayLengths
<1>2. Len(Ways(p)[s]) \in Nat BY <1>1
<1>3. \A w \in Seq(Tags), e \in Tags :
        Append(w, e) \in Seq(Tags) /\ Len(Append(w, e)) = Len(w) + 1
  OBVIOUS
<1>4. "unknown" \in Tags /\ "configuration" \in Tags BY DEF Tags
<1>5. CASE n = 0 BY <1>2, <1>5
<1>6. CASE n = 1 BY <1>1, <1>2, <1>3, <1>4, <1>6
<1>7. CASE n = 2 BY <1>1, <1>2, <1>3, <1>4, <1>7
<1> QED BY <1>5, <1>6, <1>7

(* In a logical monitor three elements are open, in a monitor four.           *)
LEMMA Deep ==
    ASSUME Typed, OnTheWay
    PROVE  /\ InLogical => Len(open) >= 3
           /\ InMonitor \/ InSpec => Len(open) >= 4
<1>1. Len(Path) = Len(open) BY PathIsNames DEF Typed
<1>2. /\ Len(Path) = Len(Ways(parser.parent)[Place]) + parser.level
      /\ Len(Ways(parser.parent)[Place]) \in Nat /\ parser.level \in 0 .. 2
  BY LongWay DEF Typed, OnTheWay
<1> QED BY <1>1, <1>2, WayLengths DEF InLogical, InMonitor, InSpec, InTransform, OnTheWay

(* The same after a step.                                                     *)
LEMMA DeepAfter ==
    ASSUME open' \in Seq(Frame), parser'.level \in 0 .. 2, OnTheWay'
    PROVE  /\ InLogical' => Len(open') >= 3
           /\ InMonitor' \/ InSpec' => Len(open') >= 4
<1>1. Len(Path') = Len(open') BY NamesOf DEF Path
<1>2. /\ Len(Path') = Len(Ways(parser'.parent)[Place']) + parser'.level
      /\ Len(Ways(parser'.parent)[Place']) \in Nat
  BY LongWay DEF OnTheWay
<1> QED BY <1>1, <1>2, WayLengths DEF InLogical, InMonitor, InSpec, InTransform, OnTheWay

(* A move between alike places that reads nothing keeps all but the way.      *)
LEMMA Move ==
    ASSUME Typed, OnTheWay, TransformOnce, SpecOnce, SaysTheSame,
           Alike(Place, Place'), SameContent,
           DOMAIN parser' = DOMAIN parser,
           parser'.monitor \in [spec : Specs \cup {Null}, mode : {"mode", Null}],
           parser'.mode \in {"mode", Null, Blank},
           parser'.root \in Lenient \cup {Null}, parser'.level \in 0 .. 2,
           parser'.level > 0 <=> parser'.state = "UNKNOWN",
           parser'.level > 0 <=> parser'.root # Null,
           open' \in Seq(Frame), OnTheWay',
           \A i \in 3 .. 4 : i <= Len(open) /\ i <= Len(open') => open[i].had \subseteq open'[i].had
    PROVE  Typed' /\ TransformOnce' /\ SpecOnce' /\ SaysTheSame'
<1>1. /\ (InSpec' <=> InSpec) /\ (InMonitor' <=> InMonitor)
      /\ (InTransform' <=> InTransform) /\ (InLogical' <=> InLogical)
  BY SameRooms DEF SameContent
<1>2. SaysTheSame' BY SaysAsBefore
<1>3. InLogical => Len(open) >= 3 /\ Len(open') >= 3 BY <1>1, Deep, DeepAfter
<1>4. InMonitor \/ InSpec => Len(open) >= 4 /\ Len(open') >= 4 BY <1>1, Deep, DeepAfter
<1>5. InLogical => open[3].had \subseteq open'[3].had BY <1>3
<1>6. InMonitor \/ InSpec => open[4].had \subseteq open'[4].had BY <1>4
<1>7. TransformOnce' BY <1>1, <1>5 DEF TransformOnce, SameContent
<1>8. SpecOnce' BY <1>1, <1>6 DEF SpecOnce, SameContent
<1>9. Typed' BY <1>1 DEF Typed, SameContent
<1> QED BY <1>2, <1>7, <1>8, <1>9

(* Outside of unknown elements the place is the state.                        *)
LEMMA LevelIsZero ==
    ASSUME Typed, parser.state # "UNKNOWN"
    PROVE  parser.level = 0 /\ parser.root = Null /\ Place = parser.state
  BY DEF Typed, Place

(* A child that the state knows leads to the place of the child.              *)
LEMMA EntersPlace ==
    ASSUME Typed, OnTheWay, NEW e \in Elements, Known(e), Opened(e),
           parser'.state = Children[parser.state][e], parser'.level = parser.level,
           parser'.parent = IF e = "monitorspec" THEN parser.state ELSE parser.parent
    PROVE  OnTheWay' /\ Place' = Children[parser.state][e]
<1>1. parser.state \in DOMAIN Children /\ e \in DOMAIN Children[parser.state] BY DEF Known
<1>2. parser.level = 0 /\ Place = parser.state BY <1>1, LevelIsZero DEF Children
<1>3. Path = Ways(parser.parent)[parser.state] BY <1>2 DEF OnTheWay
<1>4. Path' = Append(Path, e) BY OpenedElement DEF Typed
<1>5. /\ parser'.state \in DOMAIN Ways(parser'.parent)
      /\ Path' = Ways(parser'.parent)[parser'.state]
  BY <1>1, <1>3, <1>4, ChildWay
<1>6. parser'.state # "UNKNOWN" BY <1>1 DEF Children
<1>7. Place' = parser'.state BY <1>6 DEF Place
<1>8. InSpec' => parser'.parent \in {"MONITOR", "DISABLED"}
  <2>1. /\ parser'.state = "MONITOR_SPEC" => parser'.parent \in {"MONITOR", "DISABLED"}
        /\ parser'.state = "MONITOR_SPEC_CONNECTOR" =>
             parser'.parent = parser.parent /\ parser.state = "MONITOR_SPEC"
    BY <1>1 DEF Children
  <2> QED BY <1>2, <1>7, <2>1 DEF InSpec, OnTheWay
<1> QED BY <1>2, <1>5, <1>7, <1>8 DEF OnTheWay

(* The end of an element leads back to where it began.                        *)
LEMMA LeavesPlace ==
    ASSUME Typed, OnTheWay, parser.state # "UNKNOWN", parser.state # "INITIAL", open' = Front(open),
           parser'.state = Up(parser.parent)[parser.state], parser'.level = parser.level,
           parser'.parent = parser.parent
    PROVE  /\ OnTheWay' /\ Place' = Up(parser.parent)[parser.state]
           /\ open # <<>>
<1>1. parser.level = 0 /\ Place = parser.state BY LevelIsZero
<1>2. parser.state \in DOMAIN Up(parser.parent) BY <1>1 DEF OnTheWay, Ways, Up
<1>3. Path = Ways(parser.parent)[parser.state] /\ Path # <<>> BY <1>1, <1>2, ParentWay DEF OnTheWay
<1>4. open # <<>> BY <1>3 DEF Path
<1>5. Path' = Front(Path) BY <1>4, ClosedElement DEF Typed
<1>6. /\ parser'.state \in DOMAIN Ways(parser.parent)
      /\ Path' = Ways(parser.parent)[parser'.state]
  BY <1>2, <1>3, <1>5, ParentWay
<1>7. Place' = parser'.state BY <1>6 DEF Place, Ways
<1>8. InSpec' => parser.state = "MONITOR_SPEC_CONNECTOR" BY <1>2, <1>7 DEF InSpec, Up
<1>9. InSpec' => parser.parent \in {"MONITOR", "DISABLED"} BY <1>1, <1>8 DEF InSpec, OnTheWay
<1> QED BY <1>1, <1>4, <1>6, <1>7, <1>9 DEF OnTheWay

Effects == {"configuration", "logicalmonitor", "transform", "monitor", "monitorspec"}

(* The start of an element that nothing is gathered in.                       *)
LEMMA EntersPlain ==
    ASSUME Sound, NEW e \in Elements \ Effects, Known(e), MayOpen(e), Opened(e),
           parser' = Entered(e), doc' = doc
    PROVE  Sound'
<1> DEFINE s == parser.state
<1>1. s \in DOMAIN Children /\ e \in DOMAIN Children[s] BY DEF Known
<1>2. parser.level = 0 /\ parser.root = Null /\ Place = s /\ s # "UNKNOWN"
  BY <1>1, LevelIsZero DEF Children, Sound
<1>3. DOMAIN parser = DOMAIN NewParser("user") BY DEF Sound, Typed
<1>4. /\ parser'.state = Children[s][e] /\ DOMAIN parser' = DOMAIN parser
      /\ parser'.logical = parser.logical /\ parser'.disabled = parser.disabled
      /\ parser'.current = parser.current /\ parser'.turned = parser.turned
      /\ parser'.monitor = parser.monitor /\ parser'.spec = parser.spec
      /\ parser'.parent = parser.parent /\ parser'.level = parser.level /\ parser'.root = parser.root
      /\ parser'.mode \in {parser.mode, Blank}
  <2> DEFINE p == [parser EXCEPT !.state = Children[s][e]]
  <2>1. /\ p.state = Children[s][e] /\ DOMAIN p = DOMAIN parser
        /\ p.logical = parser.logical /\ p.disabled = parser.disabled
        /\ p.current = parser.current /\ p.turned = parser.turned
        /\ p.monitor = parser.monitor /\ p.spec = parser.spec
        /\ p.parent = parser.parent /\ p.level = parser.level /\ p.root = parser.root
        /\ p.mode = parser.mode
    BY <1>3, FieldsOfParser
  <2>2. \/ parser' = [p EXCEPT !.mode = Blank] \/ parser' = [p EXCEPT !.seen = @ \cup {e}]
        \/ parser' = p
    BY DEF Entered, Effects
  <2> HIDE DEF p
  <2> QED BY <1>3, <2>1, <2>2, FieldsOfParser
<1> HIDE DEF s
<1>5. OnTheWay' /\ Place' = Children[s][e]
  BY <1>4, EntersPlace DEF Sound, Effects, s
<1>6. Alike(Place, Place')
  <2>1. Alike(s, Children[s][e]) BY <1>1 DEF Children, Effects, Alike, Rooms
  <2> QED BY <1>2, <1>5, <2>1
<1>7. SameContent BY <1>4 DEF SameContent
<1>8. /\ open' \in Seq(Frame) /\ Len(open') = Len(open) + 1 /\ Len(open) \in Nat
      /\ open'[Len(open) + 1].had = {}
      /\ \A i \in 1 .. Len(open) : open[i].had \subseteq open'[i].had
                                   /\ (i = Len(open) /\ e \notin Repeated => e \in open'[i].had)
  BY OpenedElement DEF Sound, Typed
<1>9. parser'.state # "UNKNOWN" /\ parser'.state # "MONITOR_SPEC"
      /\ (parser'.state = "MONITOR_SPEC_CONNECTOR" => e = "connector" /\ s = "MONITOR_SPEC")
  BY <1>1, <1>4 DEF Children, Effects
<1>10. Typed' /\ TransformOnce' /\ SpecOnce' /\ SaysTheSame'
  <2>1. /\ parser'.monitor \in [spec : Specs \cup {Null}, mode : {"mode", Null}]
        /\ parser'.mode \in {"mode", Null, Blank}
        /\ parser'.root \in Lenient \cup {Null} /\ parser'.level \in 0 .. 2
        /\ parser'.level > 0 <=> parser'.state = "UNKNOWN"
        /\ parser'.level > 0 <=> parser'.root # Null
    BY <1>2, <1>4, <1>9 DEF Sound, Typed
  <2>2. \A i \in 3 .. 4 : i <= Len(open) /\ i <= Len(open') => open[i].had \subseteq open'[i].had
    BY <1>8
  <2> QED BY <1>4, <1>5, <1>6, <1>7, <1>8, <2>1, <2>2, Move DEF Sound
<1>11. ConnectorOnce'
  <2> SUFFICES ASSUME parser'.state = "MONITOR_SPEC_CONNECTOR" PROVE ConnectorOnce'
    BY <1>9 DEF ConnectorOnce
  <2>1. e = "connector" /\ parser.state = "MONITOR_SPEC" BY <1>9 DEF s
  <2>2. Len(open) > 0 /\ open # <<>> BY <1>2, <2>1, Deep DEF Sound, InSpec, s
  <2>3. "connector" \notin Last(open).had BY <2>1, <2>2 DEF MayOpen
  <2>4. parser.spec = Blank BY <2>1, <2>3 DEF Sound, ConnectorOnce
  <2>5. "connector" \in open'[Len(open)].had BY <1>8, <2>1, <2>2 DEF Repeated
  <2>6. open'[Len(open') - 1].had = open'[Len(open)].had BY <1>8
  <2> QED BY <1>4, <2>1, <2>4, <2>5, <2>6 DEF ConnectorOnce
<1> QED BY <1>5, <1>10, <1>11 DEF Sound

(* What the lemmas on the elements with an effect have in common.             *)
LEMMA Enters ==
    ASSUME Sound, NEW e \in Elements, Known(e), Opened(e),
           parser'.state = Children[parser.state][e], parser'.level = parser.level,
           parser'.root = parser.root,
           parser'.parent = IF e = "monitorspec" THEN parser.state ELSE parser.parent
    PROVE  /\ OnTheWay' /\ Place = parser.state /\ Place' = Children[parser.state][e]
           /\ Path = Ways(parser.parent)[parser.state]
           /\ open' \in Seq(Frame) /\ Len(open') = Len(open) + 1 /\ Len(open) \in Nat
           /\ Len(open) = Len(Ways(parser.parent)[parser.state])
           /\ \A i \in 1 .. Len(open) : /\ open[i].had \subseteq open'[i].had
                                        /\ i = Len(open) /\ e \notin Repeated => e \in open'[i].had
           /\ parser'.level = 0 /\ parser'.root = Null /\ parser'.state # "UNKNOWN"
<1>1. parser.state \in DOMAIN Children /\ parser.state # "UNKNOWN" BY DEF Known, Children
<1>2. parser.level = 0 /\ parser.root = Null /\ Place = parser.state BY <1>1, LevelIsZero DEF Sound
<1>3. Path = Ways(parser.parent)[parser.state] BY <1>2 DEF Sound, OnTheWay
<1>4. Len(Path) = Len(open) BY PathIsNames DEF Sound, Typed
<1>5. parser'.state # "UNKNOWN" BY DEF Known, Children
<1>6. OnTheWay' /\ Place' = Children[parser.state][e] BY EntersPlace DEF Sound
<1>7. /\ open' \in Seq(Frame) /\ Len(open') = Len(open) + 1 /\ Len(open) \in Nat
      /\ \A i \in 1 .. Len(open) : /\ open[i].had \subseteq open'[i].had
                                   /\ i = Len(open) /\ e \notin Repeated => e \in open'[i].had
  BY OpenedElement DEF Sound, Typed
<1> QED BY <1>2, <1>3, <1>4, <1>5, <1>6, <1>7

(* The start of a configuration: nothing is left of another one.              *)
LEMMA EntersConfiguration ==
    ASSUME Sound, parser.state = "MONITORS", Opened("configuration"), "configuration" \in Elements,
           parser' = Entered("configuration"), doc' = Nothing
    PROVE  Sound'
<1>1. Known("configuration") /\ Children[parser.state]["configuration"] = "CONFIGURATION"
  BY DEF Known, Children
<1>2. /\ parser'.state = "CONFIGURATION" /\ DOMAIN parser' = DOMAIN parser
      /\ parser'.logical = parser.logical /\ parser'.disabled = parser.disabled
      /\ parser'.current = parser.current /\ parser'.turned = parser.turned
      /\ parser'.monitor = parser.monitor /\ parser'.spec = parser.spec /\ parser'.mode = parser.mode
      /\ parser'.parent = parser.parent /\ parser'.level = parser.level /\ parser'.root = parser.root
  <2>1. DOMAIN parser = DOMAIN NewParser("user") BY DEF Sound, Typed
  <2> QED BY <1>1, <2>1, FieldsOfParser DEF Entered
<1>3. /\ OnTheWay' /\ Place = "MONITORS" /\ Place' = "CONFIGURATION" /\ open' \in Seq(Frame)
      /\ parser'.level = 0 /\ parser'.root = Null /\ parser'.state # "UNKNOWN"
  BY <1>1, <1>2, Enters
<1>4. /\ ~InConfiguration /\ ~InTransform
      /\ ~InLogical' /\ ~InSpec' /\ ~InMonitor' /\ ~InTransform' /\ InConfiguration'
  BY <1>3 DEF InConfiguration, InLogical, InDisabled, InSpec, InMonitor, InTransform
<1>5. parser.logical = <<>> /\ parser.disabled = <<>> BY <1>4 DEF Sound, SaysTheSame
<1>6. SaysTheSame' BY <1>2, <1>4, <1>5 DEF SaysTheSame, Nothing
<1>7. Typed' BY <1>2, <1>3, <1>4 DEF Sound, Typed, Nothing
<1>8. TransformOnce' /\ SpecOnce' /\ ConnectorOnce'
  BY <1>2, <1>4 DEF Sound, TransformOnce, SpecOnce, ConnectorOnce
<1> QED BY <1>3, <1>6, <1>7, <1>8 DEF Sound

(* The start of a logical monitor.                                            *)
LEMMA EntersLogicalMonitor ==
    ASSUME Sound, parser.state = "CONFIGURATION", Opened("logicalmonitor"),
           "logicalmonitor" \in Elements, parser' = Entered("logicalmonitor"),
           doc' = [doc EXCEPT !.logical = Append(@, NewLogical)]
    PROVE  Sound'
<1>1. Known("logicalmonitor") /\ Children[parser.state]["logicalmonitor"] = "LOGICAL_MONITOR"
  BY DEF Known, Children
<1>2. /\ parser'.state = "LOGICAL_MONITOR" /\ DOMAIN parser' = DOMAIN parser
      /\ parser'.logical = parser.logical /\ parser'.disabled = parser.disabled
      /\ parser'.current = NewLogical /\ parser'.turned = parser.turned
      /\ parser'.monitor = parser.monitor /\ parser'.spec = parser.spec /\ parser'.mode = parser.mode
      /\ parser'.parent = parser.parent /\ parser'.level = parser.level /\ parser'.root = parser.root
  <2>1. DOMAIN parser = DOMAIN NewParser("user") BY DEF Sound, Typed
  <2> QED BY <1>1, <2>1, FieldsOfParser DEF Entered
<1>3. /\ OnTheWay' /\ Place = "CONFIGURATION" /\ Place' = "LOGICAL_MONITOR" /\ open' \in Seq(Frame)
      /\ parser'.level = 0 /\ parser'.root = Null /\ parser'.state # "UNKNOWN"
  BY <1>1, <1>2, Enters
<1>4. /\ InConfiguration /\ ~InLogical /\ ~InSpec /\ ~InTransform
      /\ InLogical' /\ ~InSpec' /\ ~InMonitor' /\ ~InTransform' /\ InConfiguration'
  BY <1>3 DEF InConfiguration, InLogical, InDisabled, InSpec, InMonitor, InTransform
<1>5. doc.logical = parser.logical /\ doc.disabled = parser.disabled
  BY <1>4 DEF Sound, SaysTheSame
<1>6. doc \in [logical : Seq(LogicalMonitor), disabled : Seq(Specs)] /\ NewLogical \in LogicalMonitor
  BY DEF Sound, Typed, LogicalMonitor, NewLogical
<1>7. doc'.logical = Append(doc.logical, NewLogical) /\ doc'.disabled = doc.disabled BY <1>6
<1>8. Current' = NewLogical BY <1>2, <1>4 DEF Current
<1>9. SaysTheSame' BY <1>2, <1>4, <1>5, <1>7, <1>8 DEF SaysTheSame
<1>10. doc' \in [logical : Seq(LogicalMonitor), disabled : Seq(Specs)]
  <2>0. doc.logical \in Seq(LogicalMonitor) BY <1>6
  <2>1. PICK l \in Seq(LogicalMonitor) : l = Append(doc.logical, NewLogical)
    BY <1>6, <2>0, AppendProperties
  <2>2. doc' = [doc EXCEPT !.logical = l] BY <2>1
  <2> QED BY <1>6, <2>2
<1>11. Typed' BY <1>2, <1>3, <1>4, <1>6, <1>10 DEF Sound, Typed
<1>12. TransformOnce' /\ SpecOnce' /\ ConnectorOnce'
  BY <1>2, <1>4 DEF Sound, TransformOnce, SpecOnce, ConnectorOnce, NewLogical
<1> QED BY <1>3, <1>9, <1>11, <1>12 DEF Sound

(* The start of a transform: the logical monitor was not turned before.       *)
LEMMA EntersTransform ==
    ASSUME Sound, parser.state = "LOGICAL_MONITOR", Opened("transform"), "transform" \in Elements,
           MayOpen("transform"), parser' = Entered("transform"), doc' = doc
    PROVE  Sound'
<1>1. Known("transform") /\ Children[parser.state]["transform"] = "TRANSFORM"
  BY DEF Known, Children
<1>2. /\ parser'.state = "TRANSFORM" /\ DOMAIN parser' = DOMAIN parser
      /\ parser'.logical = parser.logical /\ parser'.disabled = parser.disabled
      /\ parser'.current = parser.current /\ parser'.turned = parser.turned
      /\ parser'.monitor = parser.monitor /\ parser'.spec = parser.spec /\ parser'.mode = parser.mode
      /\ parser'.parent = parser.parent /\ parser'.level = parser.level /\ parser'.root = parser.root
  <2>1. DOMAIN parser = DOMAIN NewParser("user") BY DEF Sound, Typed
  <2> QED BY <1>1, <2>1, FieldsOfParser DEF Entered
<1>3. /\ OnTheWay' /\ Place = "LOGICAL_MONITOR" /\ Place' = "TRANSFORM" /\ open' \in Seq(Frame)
      /\ parser'.level = 0 /\ parser'.root = Null /\ parser'.state # "UNKNOWN"
      /\ Len(open) = Len(Ways(parser.parent)["LOGICAL_MONITOR"])
      /\ \A i \in 1 .. Len(open) : i = Len(open) => "transform" \in open'[i].had
  BY <1>1, <1>2, Enters DEF Repeated
<1>4. /\ InConfiguration /\ InLogical /\ ~InSpec /\ ~InTransform /\ ~InMonitor
      /\ InLogical' /\ ~InSpec' /\ ~InMonitor' /\ InTransform' /\ InConfiguration'
  BY <1>3 DEF InConfiguration, InLogical, InDisabled, InSpec, InMonitor, InTransform
<1>5. Len(open) = 3 BY <1>3, WayLengths DEF Ways
<1>6. "transform" \notin open[3].had
  <2>1. open # <<>> BY <1>5
  <2> QED BY <1>5, <2>1 DEF MayOpen, Last
<1>7. ~parser.current.turned /\ ~parser.turned BY <1>4, <1>6 DEF Sound, TransformOnce
<1>8. parser.current \in LogicalMonitor /\ parser.turned \in BOOLEAN BY DEF Sound, Typed
<1>9. Current' = parser.current /\ Current = parser.current
  <2>1. Current = parser.current BY <1>4 DEF Current
  <2>2. Current' = [parser.current EXCEPT !.turned = parser.turned] BY <1>2, <1>4 DEF Current
  <2>3. parser.current.turned = parser.turned BY <1>7, <1>8 DEF LogicalMonitor
  <2> QED BY <1>8, <2>1, <2>2, <2>3 DEF LogicalMonitor
<1>10. SaysTheSame' BY <1>2, <1>4, <1>9 DEF Sound, SaysTheSame
<1>11. Typed' BY <1>2, <1>3, <1>4 DEF Sound, Typed
<1>12. TransformOnce' /\ SpecOnce' /\ ConnectorOnce'
  BY <1>2, <1>3, <1>4, <1>5, <1>7 DEF Sound, TransformOnce, SpecOnce, ConnectorOnce
<1> QED BY <1>3, <1>10, <1>11, <1>12 DEF Sound

(* The start of a monitor.                                                    *)
LEMMA EntersMonitor ==
    ASSUME Sound, parser.state = "LOGICAL_MONITOR", Opened("monitor"), "monitor" \in Elements,
           parser' = Entered("monitor"), doc' = doc
    PROVE  Sound'
<1>1. Known("monitor") /\ Children[parser.state]["monitor"] = "MONITOR"
  BY DEF Known, Children
<1>2. /\ parser'.state = "MONITOR" /\ DOMAIN parser' = DOMAIN parser
      /\ parser'.logical = parser.logical /\ parser'.disabled = parser.disabled
      /\ parser'.current = parser.current /\ parser'.turned = parser.turned
      /\ parser'.monitor = NewMonitor /\ parser'.spec = parser.spec /\ parser'.mode = parser.mode
      /\ parser'.parent = parser.parent /\ parser'.level = parser.level /\ parser'.root = parser.root
  <2>1. DOMAIN parser = DOMAIN NewParser("user") BY DEF Sound, Typed
  <2> QED BY <1>1, <2>1, FieldsOfParser DEF Entered
<1>3. /\ OnTheWay' /\ Place = "LOGICAL_MONITOR" /\ Place' = "MONITOR" /\ open' \in Seq(Frame)
      /\ parser'.level = 0 /\ parser'.root = Null /\ parser'.state # "UNKNOWN"
      /\ Len(open) = Len(Ways(parser.parent)["LOGICAL_MONITOR"])
      /\ \A i \in 1 .. Len(open) : open[i].had \subseteq open'[i].had
  BY <1>1, <1>2, Enters
<1>4. /\ InConfiguration /\ InLogical /\ ~InSpec /\ ~InTransform /\ ~InMonitor
      /\ InLogical' /\ ~InSpec' /\ InMonitor' /\ ~InTransform' /\ InConfiguration'
  BY <1>3 DEF InConfiguration, InLogical, InDisabled, InSpec, InMonitor, InTransform
<1>5. Len(open) = 3 BY <1>3, WayLengths DEF Ways
<1>6. NewMonitor \in [spec : Specs \cup {Null}, mode : {"mode", Null}] /\ NewMonitor.spec = Null
  BY DEF NewMonitor
<1>7. Current' = parser.current /\ Current = parser.current
  BY <1>2, <1>4, <1>6 DEF Current
<1>8. SaysTheSame' BY <1>2, <1>4, <1>7 DEF Sound, SaysTheSame
<1>9. Typed' BY <1>2, <1>3, <1>4, <1>6 DEF Sound, Typed
<1>10. open[3].had \subseteq open'[3].had BY <1>3, <1>5
<1>11. TransformOnce'
  BY <1>2, <1>4, <1>10 DEF Sound, TransformOnce
<1>12. SpecOnce' /\ ConnectorOnce' BY <1>2, <1>4, <1>6 DEF SpecOnce, ConnectorOnce
<1> QED BY <1>3, <1>8, <1>9, <1>11, <1>12 DEF Sound

(* The start of a monitorspec, in a monitor or in a disabled element.         *)
LEMMA EntersMonitorSpec ==
    ASSUME Sound, parser.state \in {"MONITOR", "DISABLED"}, Opened("monitorspec"),
           "monitorspec" \in Elements, MayOpen("monitorspec"), parser' = Entered("monitorspec"),
           doc' = doc
    PROVE  Sound'
<1>1. Known("monitorspec") /\ Children[parser.state]["monitorspec"] = "MONITOR_SPEC"
  BY DEF Known, Children
<1>2. /\ parser'.state = "MONITOR_SPEC" /\ DOMAIN parser' = DOMAIN parser
      /\ parser'.logical = parser.logical /\ parser'.disabled = parser.disabled
      /\ parser'.current = parser.current /\ parser'.turned = parser.turned
      /\ parser'.monitor = parser.monitor /\ parser'.spec = Blank /\ parser'.mode = parser.mode
      /\ parser'.parent = parser.state /\ parser'.level = parser.level /\ parser'.root = parser.root
  <2>1. DOMAIN parser = DOMAIN NewParser("user") BY DEF Sound, Typed
  <2> QED BY <1>1, <2>1, FieldsOfParser DEF Entered
<1>3. /\ OnTheWay' /\ Place = parser.state /\ Place' = "MONITOR_SPEC" /\ open' \in Seq(Frame)
      /\ parser'.level = 0 /\ parser'.root = Null /\ parser'.state # "UNKNOWN"
      /\ Len(open) = Len(Ways(parser.parent)[parser.state])
      /\ \A i \in 1 .. Len(open) : /\ open[i].had \subseteq open'[i].had
                                   /\ i = Len(open) => "monitorspec" \in open'[i].had
  BY <1>1, <1>2, Enters DEF Repeated
<1>4. /\ InConfiguration /\ ~InSpec /\ ~InTransform
      /\ InSpec' /\ ~InMonitor' /\ ~InTransform' /\ InConfiguration'
      /\ (InLogical <=> parser.state = "MONITOR") /\ (InLogical' <=> parser.state = "MONITOR")
      /\ (InMonitor <=> parser.state = "MONITOR")
  BY <1>2, <1>3 DEF InConfiguration, InLogical, InDisabled, InSpec, InMonitor, InTransform
<1>5. Blank # Null BY DEF Blank, Null
<1>6. parser.state = "MONITOR" =>
        /\ Len(open) = 4 /\ parser.monitor.spec = Null /\ "monitorspec" \in open'[4].had
        /\ open[3].had \subseteq open'[3].had
  <2> HAVE parser.state = "MONITOR"
  <2>1. Len(open) = 4 BY <1>3, WayLengths DEF Ways
  <2>2. open # <<>> BY <2>1
  <2>3. "monitorspec" \notin open[4].had BY <2>1, <2>2 DEF MayOpen, Last
  <2> QED BY <1>3, <1>4, <2>1, <2>3 DEF Sound, SpecOnce
<1>7. InLogical => Current' = parser.current /\ Current = parser.current
  BY <1>2, <1>4, <1>6 DEF Current
<1>8. SaysTheSame'
  <2>1. CASE InLogical BY <1>2, <1>4, <1>7, <2>1 DEF Sound, SaysTheSame
  <2>2. CASE ~InLogical BY <1>2, <1>4, <2>2 DEF Sound, SaysTheSame
  <2> QED BY <2>1, <2>2
<1>9. Typed' BY <1>2, <1>3, <1>4, <1>5 DEF Sound, Typed
<1>10. TransformOnce' BY <1>2, <1>4, <1>6 DEF Sound, TransformOnce
<1>11. SpecOnce' BY <1>2, <1>4, <1>6 DEF SpecOnce
<1>12. ConnectorOnce' BY <1>2 DEF ConnectorOnce
<1> QED BY <1>3, <1>8, <1>9, <1>10, <1>11, <1>12 DEF Sound

(* Every way consists of names.                                               *)
LEMMA WaysAreTags ==
    ASSUME OnTheWay
    PROVE  /\ Ways(parser.parent)[Place] \in Seq(Tags) /\ "unknown" \in Tags
           /\ "configuration" \in Tags
  BY WayLengths DEF OnTheWay, Tags

(* Front takes away what was appended.                                        *)
LEMMA FrontOfAppend ==
    ASSUME NEW S, NEW s \in Seq(S), NEW e \in S
    PROVE  Front(Append(s, e)) = s
<1> DEFINE t == Append(s, e)
<1>1. t \in Seq(S) /\ t # <<>> /\ Len(t) = Len(s) + 1 /\ \A i \in 1 .. Len(s) : t[i] = s[i]
  BY AppendProperties
<1> HIDE DEF t
<1>2. /\ Front(t) \in Seq(S) /\ Len(Front(t)) = Len(t) - 1
      /\ \A i \in 1 .. Len(t) - 1 : Front(t)[i] = t[i]
  BY <1>1, FrontOf
<1>3. Len(s) \in Nat OBVIOUS
<1>4. Len(Front(t)) = Len(s) /\ \A i \in 1 .. Len(s) : Front(t)[i] = s[i] BY <1>1, <1>2, <1>3
<1>5. Front(t) = s BY <1>2, <1>4, SameTuple
<1> QED BY <1>5 DEF t

(* A move that only the depth in unknown elements shows.                      *)
LEMMA MovesInUnknown ==
    ASSUME Sound, DOMAIN parser' = DOMAIN parser, SameContent,
           parser'.monitor = parser.monitor, parser'.mode = parser.mode,
           parser'.root \in Lenient \cup {Null}, parser'.level \in 0 .. 2,
           (parser'.level > 0) <=> (parser'.state = "UNKNOWN"),
           (parser'.level > 0) <=> (parser'.root # Null),
           Place' = Place, Place \in Lenient, open' \in Seq(Frame),
           \A i \in 1 .. Len(open) : i <= Len(open') => open[i].had \subseteq open'[i].had,
           parser'.level = 0 => Path' = Ways(parser.parent)[Place],
           parser'.level = 1 => Path' = Append(Ways(parser.parent)[Place], "unknown"),
           parser'.level = 2 =>
             Path' = Append(Append(Ways(parser.parent)[Place], "unknown"), "configuration")
    PROVE  Sound'
<1>1. parser'.parent = parser.parent BY DEF SameContent
<1>2. ~InSpec /\ ~InSpec' BY DEF Lenient, InSpec
<1>3. OnTheWay' BY <1>1, <1>2 DEF Sound, OnTheWay
<1>4. Alike(Place, Place') BY DEF Alike, Rooms, Lenient
<1>5. \A i \in 3 .. 4 : i <= Len(open) /\ i <= Len(open') => open[i].had \subseteq open'[i].had
  <2>1. \A i \in 3 .. 4 : i <= Len(open) => i \in 1 .. Len(open) BY DEF Sound, Typed
  <2> QED BY <2>1
<1>6. Typed' /\ TransformOnce' /\ SpecOnce' /\ SaysTheSame'
  <2>1. parser'.monitor \in [spec : Specs \cup {Null}, mode : {"mode", Null}]
        /\ parser'.mode \in {"mode", Null, Blank}
    BY DEF Sound, Typed
  <2> QED BY <1>3, <1>4, <1>5, <2>1, Move DEF Sound
<1>7. parser'.state # "MONITOR_SPEC" /\ parser'.state # "MONITOR_SPEC_CONNECTOR"
  BY <1>2 DEF InSpec, Place
<1>8. ConnectorOnce' BY <1>7 DEF ConnectorOnce
<1> QED BY <1>3, <1>6, <1>8 DEF Sound

(* An element that is unknown where it stands is skipped with what is in it.  *)
LEMMA EntersUnknown ==
    ASSUME Sound, parser.state \in Lenient, "unknown" \in Elements, Opened("unknown"),
           parser' = Unknown("unknown"), doc' = doc
    PROVE  Sound'
<1>1. DOMAIN parser = DOMAIN NewParser("user") BY DEF Sound, Typed
<1>2. parser.state # "UNKNOWN" /\ parser.state # Null BY DEF Lenient, Null
<1>3. parser.level = 0 /\ Place = parser.state BY <1>2, LevelIsZero DEF Sound
<1>4. /\ parser'.state = "UNKNOWN" /\ parser'.level = 1 /\ parser'.root = parser.state
      /\ DOMAIN parser' = DOMAIN parser /\ SameContent
      /\ parser'.monitor = parser.monitor /\ parser'.mode = parser.mode
  BY <1>1, FieldsOfParser DEF Unknown, SameContent
<1>5. Place' = Place BY <1>3, <1>4 DEF Place
<1>6. /\ open' \in Seq(Frame) /\ Path' = Append(Path, "unknown")
      /\ \A i \in 1 .. Len(open) : open[i].had \subseteq open'[i].had
  BY OpenedElement DEF Sound, Typed
<1>7. Path = Ways(parser.parent)[Place] BY <1>3 DEF Sound, OnTheWay
<1> QED BY <1>2, <1>3, <1>4, <1>5, <1>6, <1>7, MovesInUnknown

(* In an unknown element even a known name is skipped.                        *)
LEMMA EntersDeeper ==
    ASSUME Sound, parser.state = "UNKNOWN", parser.level = 1, "configuration" \in Elements,
           Opened("configuration"), parser' = [parser EXCEPT !.level = @ + 1], doc' = doc
    PROVE  Sound'
<1>1. DOMAIN parser = DOMAIN NewParser("user") BY DEF Sound, Typed
<1>2. Place = parser.root /\ Place \in Lenient /\ parser.root # Null BY DEF Sound, Typed, Place
<1>3. /\ parser'.state = "UNKNOWN" /\ parser'.level = 2 /\ parser'.root = parser.root
      /\ DOMAIN parser' = DOMAIN parser /\ SameContent
      /\ parser'.monitor = parser.monitor /\ parser'.mode = parser.mode
  BY <1>1, FieldsOfParser DEF SameContent
<1>4. Place' = Place BY <1>2, <1>3 DEF Place
<1>5. /\ open' \in Seq(Frame) /\ Path' = Append(Path, "configuration")
      /\ \A i \in 1 .. Len(open) : open[i].had \subseteq open'[i].had
  BY OpenedElement DEF Sound, Typed
<1>6. Path = Append(Ways(parser.parent)[Place], "unknown") BY DEF Sound, OnTheWay
<1> QED BY <1>2, <1>3, <1>4, <1>5, <1>6, MovesInUnknown

(* The end of an element in there leads up, and out where it began.           *)
LEMMA LeavesUnknown ==
    ASSUME Sound, parser.state = "UNKNOWN", open' = Front(open), doc' = doc,
           parser' = IF parser.level > 1 THEN [parser EXCEPT !.level = @ - 1]
                     ELSE [parser EXCEPT !.level = 0, !.state = parser.root, !.root = Null]
    PROVE  Sound'
<1>1. DOMAIN parser = DOMAIN NewParser("user") BY DEF Sound, Typed
<1>2. /\ Place = parser.root /\ Place \in Lenient /\ parser.root # Null /\ parser.level \in 1 .. 2
  BY DEF Sound, Typed, Place
<1>3. parser.root # "UNKNOWN" BY <1>2 DEF Lenient
<1>4. /\ parser'.level = parser.level - 1 /\ DOMAIN parser' = DOMAIN parser /\ SameContent
      /\ parser'.monitor = parser.monitor /\ parser'.mode = parser.mode
      /\ parser.level = 2 => parser'.state = "UNKNOWN" /\ parser'.root = parser.root
      /\ parser.level = 1 => parser'.state = parser.root /\ parser'.root = Null
  <2>1. CASE parser.level = 2
    <3>1. parser' = [parser EXCEPT !.level = @ - 1] BY <2>1
    <3> QED BY <1>1, <2>1, <3>1, FieldsOfParser DEF SameContent
  <2>2. CASE parser.level = 1
    <3>1. parser' = [parser EXCEPT !.level = 0, !.state = parser.root, !.root = Null] BY <2>2
    <3> QED BY <1>1, <2>2, <3>1, FieldsOfParser DEF SameContent
  <2> QED BY <1>2, <2>1, <2>2
<1>5. Place' = Place BY <1>2, <1>3, <1>4 DEF Place
<1> DEFINE w == Ways(parser.parent)[Place]
<1>6. /\ parser.level = 1 => Path = Append(w, "unknown")
      /\ parser.level = 2 => Path = Append(Append(w, "unknown"), "configuration")
  BY DEF Sound, OnTheWay
<1>7. w \in Seq(Tags) /\ "unknown" \in Tags /\ "configuration" \in Tags BY WaysAreTags DEF Sound
<1> HIDE DEF w
<1>8. Append(w, "unknown") \in Seq(Tags) BY <1>7
<1>9. /\ parser.level = 1 => Front(Path) = w
      /\ parser.level = 2 => Front(Path) = Append(w, "unknown")
  BY <1>6, <1>7, <1>8, FrontOfAppend
<1>10. open # <<>>
  <2>1. Len(Path) > 0 BY <1>2, <1>6, <1>7, <1>8
  <2>2. Len(Path) = Len(open) BY PathIsNames DEF Sound, Typed
  <2> QED BY <2>1, <2>2
<1>11. /\ open' \in Seq(Frame) /\ Path' = Front(Path)
       /\ \A i \in 1 .. Len(open) : i <= Len(open') => open[i].had \subseteq open'[i].had
  BY <1>10, ClosedElement DEF Sound, Typed
<1>12. /\ parser'.level = 0 => Path' = w
       /\ parser'.level = 1 => Path' = Append(w, "unknown")
       /\ parser'.level \in 0 .. 1
  BY <1>2, <1>4, <1>9, <1>11
<1>13. /\ parser'.root \in Lenient \cup {Null}
       /\ (parser'.level > 0) <=> (parser'.state = "UNKNOWN")
       /\ (parser'.level > 0) <=> (parser'.root # Null)
  BY <1>2, <1>3, <1>4
<1> QED BY <1>2, <1>4, <1>5, <1>11, <1>12, <1>13, MovesInUnknown DEF w

(* Where a step leads that keeps the invariant.                               *)
Goes == (\E end \in Ends : parser' = At(end)) \/ (Typed' /\ Doomed') \/ Sound'

(* An element that a state does not know is unknown or in an unknown one.     *)
LEMMA MayOpenWhere ==
    ASSUME NEW e, MayOpen(e), ~Known(e)
    PROVE  \/ e = "unknown" /\ open # <<>> /\ parser.level = 0
           \/ e = "configuration" /\ parser.level = 1
<1> DEFINE unknown == e = "unknown" /\ open # <<>> /\ parser.level = 0
           deeper == e = "configuration" /\ parser.level = 1
<1>1. Known(e) \/ unknown \/ deeper BY DEF MayOpen
<1> QED BY <1>1

(* handle_start_element in an unknown element.                                *)
LEMMA StartsInUnknown ==
    ASSUME Sound, NEW e \in Elements, StartElement(e), parser.state = "UNKNOWN"
    PROVE  Goes
<1>1. parser.level > 0 /\ parser.root \in Lenient BY DEF Sound, Typed
<1>2. ~Known(e) BY DEF Known, Children
<1>3. e = "configuration" /\ parser.level = 1 BY <1>1, <1>2, MayOpenWhere DEF StartElement
<1>4. parser' = [parser EXCEPT !.level = @ + 1] BY DEF StartElement
<1>5. Path # <<"monitors">>
  <2> DEFINE w == Ways(parser.parent)[Place]
  <2>1. Place = parser.root /\ Place # "INITIAL" BY <1>1 DEF Place, Lenient
  <2>2. Path = Append(w, "unknown") BY <1>3 DEF Sound, OnTheWay
  <2>3. w \in Seq(Tags) /\ "unknown" \in Tags BY WaysAreTags DEF Sound
  <2>4. Len(w) > 0 BY <2>1, WayLengths DEF Sound, OnTheWay
  <2> HIDE DEF w
  <2>5. Len(Path) = Len(w) + 1 /\ Len(w) \in Nat BY <2>2, <2>3
  <2>6. Len(<<"monitors">>) = 1 OBVIOUS
  <2>7. Len(Path) # 1 BY ONLY <2>4, <2>5
  <2> QED BY ONLY <2>6, <2>7
<1>6. doc' = doc BY <1>3, <1>5 DEF StartElement
<1> QED BY <1>3, <1>4, <1>6, EntersDeeper DEF StartElement, Goes

(* handle_start_element for a child that the state knows.                     *)
LEMMA StartsKnown ==
    ASSUME Sound, NEW e \in Elements, StartElement(e), Known(e), parser' = Entered(e)
    PROVE  Goes
<1>1. parser.state \in DOMAIN Children /\ e \in DOMAIN Children[parser.state] BY DEF Known
<1>2. parser.state # "UNKNOWN" BY <1>1 DEF Children
<1>3. Path = Ways(parser.parent)[parser.state] BY <1>2, LevelIsZero DEF Sound, OnTheWay
<1>4. MayOpen(e) /\ Opened(e) BY DEF StartElement
<1>5. CASE e \notin Effects
  <2>1. doc' = doc BY <1>5 DEF StartElement, Effects
  <2> QED BY <1>4, <1>5, <2>1, EntersPlain DEF Goes
<1>6. CASE e = "configuration"
  <2>1. parser.state = "MONITORS" BY <1>1, <1>6 DEF Children
  <2>2. Path = <<"monitors">> BY <1>3, <2>1 DEF Ways
  <2>3. doc' = Nothing BY <1>6, <2>2 DEF StartElement
  <2> QED BY <1>4, <1>6, <2>1, <2>3, EntersConfiguration DEF Goes
<1>7. CASE e = "logicalmonitor"
  <2>1. parser.state = "CONFIGURATION" BY <1>1, <1>7 DEF Children
  <2>2. Path = <<"monitors", "configuration">> BY <1>3, <2>1 DEF Ways
  <2>3. doc' = [doc EXCEPT !.logical = Append(@, NewLogical)] BY <1>7, <2>2 DEF StartElement
  <2> QED BY <1>4, <1>7, <2>1, <2>3, EntersLogicalMonitor DEF Goes
<1>8. CASE e \in {"transform", "monitor", "monitorspec"}
  <2>1. doc' = doc BY <1>8 DEF StartElement
  <2>2. /\ e \in {"transform", "monitor"} => parser.state = "LOGICAL_MONITOR"
        /\ e = "monitorspec" => parser.state \in {"MONITOR", "DISABLED"}
    BY <1>1 DEF Children
  <2>3. CASE e = "transform" BY <1>4, <2>1, <2>2, <2>3, EntersTransform DEF Goes
  <2>4. CASE e = "monitor" BY <1>4, <2>1, <2>2, <2>4, EntersMonitor DEF Goes
  <2>5. CASE e = "monitorspec" BY <1>4, <2>1, <2>2, <2>5, EntersMonitorSpec DEF Goes
  <2> QED BY <1>8, <2>3, <2>4, <2>5
<1> QED BY <1>5, <1>6, <1>7, <1>8 DEF Effects

(* From an unknown element in a transform there is no way out.                *)
LEMMA StartsInTransform ==
    ASSUME Typed, Doomed \/ parser.state = "TRANSFORM", NEW e \in Elements, StartElement(e),
           Doomed \/ ~Known(e)
    PROVE  Goes
<1>1. parser.state \in {"TRANSFORM", "TRANSFORM_ROTATION"} BY DEF Doomed
<1>2. parser.level = 0 BY <1>1, LevelIsZero
<1>3. e \in {"unknown", "rotation"} /\ (parser.state = "TRANSFORM_ROTATION" => ~Known(e))
      /\ (e = "unknown" => ~Known(e))
  BY <1>1, <1>2 DEF StartElement, MayOpen, Known, Children
<1>4. doc' = doc BY <1>3 DEF StartElement
<1>5. CASE parser' = Error BY <1>5 DEF Goes, Ends, Error
<1>6. CASE parser' # Error
  <2>1. parser.state = "TRANSFORM" BY <1>1, <1>3, <1>6 DEF StartElement, Lenient
  <2>2. /\ open' \in Seq(Frame) /\ Len(open') = Len(open) + 1 /\ Len(open) \in Nat
        /\ open'[Len(open) + 1].name = e
        /\ \A i \in 1 .. Len(open) : open'[i].name = open[i].name
    BY OpenedElement DEF StartElement, Typed
  <2>3. CASE Known(e)
    <3>1. e = "rotation" BY <1>3, <2>3
    <3>2. Children[parser.state][e] = "TRANSFORM_ROTATION" BY <2>1, <3>1 DEF Children
    <3>3. parser' = [parser EXCEPT !.state = "TRANSFORM_ROTATION"]
      BY <1>6, <2>1, <2>3, <3>1, <3>2 DEF StartElement, Entered
    <3>4. DOMAIN parser = DOMAIN NewParser("user") BY DEF Typed
    <3>5. parser'.state = "TRANSFORM_ROTATION" BY <3>3, <3>4, FieldsOfParser
    <3>6. Typed'
      <4>1. /\ DOMAIN parser' = DOMAIN parser
            /\ parser'.logical = parser.logical /\ parser'.disabled = parser.disabled
            /\ parser'.current = parser.current /\ parser'.turned = parser.turned
            /\ parser'.monitor = parser.monitor /\ parser'.spec = parser.spec
            /\ parser'.mode = parser.mode /\ parser'.level = parser.level /\ parser'.root = parser.root
        BY <3>3, <3>4, FieldsOfParser
      <4> QED BY <1>2, <1>4, <2>1, <2>2, <3>5, <4>1 DEF Typed, InSpec, Place
    <3>7. open'[Len(open') - 1].name = "unknown" /\ Len(open') > 1
      <4>1. open # <<>> /\ Last(open).name = "unknown" BY <2>1, <2>3 DEF Doomed, Name
      <4>2. Len(open) > 0 BY <2>2, <4>1, EmptySeq DEF Typed
      <4> QED BY <2>2, <4>1, <4>2 DEF Last
    <3> QED BY <3>5, <3>6, <3>7 DEF Goes, Doomed
  <2>4. CASE ~Known(e)
    <3>1. parser' = parser BY <1>6, <2>1, <2>4 DEF StartElement, Lenient
    <3>2. e = "unknown" BY <1>2, <2>4, MayOpenWhere DEF StartElement
    <3>3. open' # <<>> /\ Last(open').name = "unknown" BY <2>2, <3>2 DEF Last
    <3>4. Typed' BY <1>4, <2>2, <3>1 DEF Typed, InSpec, Place
    <3> QED BY <2>1, <3>1, <3>3, <3>4 DEF Goes, Doomed, Name
  <2> QED BY <2>3, <2>4
<1> QED BY <1>5, <1>6

(* handle_start_element, whatever the element is.                             *)
LEMMA StartStep ==
    ASSUME Sound \/ (Typed /\ Doomed), NEW e \in Elements, StartElement(e)
    PROVE  Goes
<1>1. CASE ~Sound BY <1>1, StartsInTransform
<1>2. CASE Sound /\ parser.state = "UNKNOWN" BY <1>2, StartsInUnknown
<1>3. CASE Sound /\ parser.state # "UNKNOWN" /\ parser' = Error BY <1>3 DEF Goes, Ends, Error
<1>4. CASE Sound /\ parser.state # "UNKNOWN" /\ parser' # Error
  <2>1. CASE Known(e)
    <3>1. parser' = Entered(e) BY <1>4, <2>1 DEF StartElement
    <3> QED BY <1>4, <2>1, <3>1, StartsKnown
  <2>2. CASE ~Known(e) /\ parser.state = "TRANSFORM" BY <1>4, <2>2, StartsInTransform DEF Sound
  <2>3. CASE ~Known(e) /\ parser.state # "TRANSFORM"
    <3>1. parser.state \in Lenient /\ parser' = Unknown(e) BY <1>4, <2>3 DEF StartElement
    <3>2. e = "unknown" /\ Opened(e)
      <4>1. parser.level = 0 BY <1>4, LevelIsZero DEF Sound
      <4> QED BY <2>3, <4>1, MayOpenWhere DEF StartElement
    <3>3. doc' = doc BY <3>2 DEF StartElement
    <3> QED BY <1>4, <3>1, <3>2, <3>3, EntersUnknown DEF Goes
  <2> QED BY <2>1, <2>2, <2>3
<1> QED BY <1>1, <1>2, <1>3, <1>4

(* The places that a text counts in, written out.                             *)
LEMMA TextPaths ==
    /\ Logical \o <<"monitor", "monitorspec", "connector">> =
         <<"monitors", "configuration", "logicalmonitor", "monitor", "monitorspec", "connector">>
    /\ Configuration \o <<"disabled", "monitorspec", "connector">> =
         <<"monitors", "configuration", "disabled", "monitorspec", "connector">>
    /\ Logical \o <<"transform", "rotation">> =
         <<"monitors", "configuration", "logicalmonitor", "transform", "rotation">>
<1>1. Logical = <<"monitors", "configuration", "logicalmonitor">>
  <2> DEFINE s == <<"monitors", "configuration">> \o <<"logicalmonitor">>
             t == <<"monitors", "configuration", "logicalmonitor">>
  <2>1. s \in Seq(Tags) /\ t \in Seq(Tags) BY DEF Tags
  <2>2. Len(s) = 3 /\ Len(t) = 3 /\ \A i \in 1 .. 3 : s[i] = t[i] OBVIOUS
  <2>3. Logical = s BY DEF Logical, Configuration
  <2> HIDE DEF s, t
  <2>4. s = t BY <2>1, <2>2, SameTuple
  <2> QED BY <2>3, <2>4 DEF t
<1>2. Logical \o <<"monitor", "monitorspec", "connector">> =
        <<"monitors", "configuration", "logicalmonitor", "monitor", "monitorspec", "connector">>
  <2> DEFINE s == <<"monitors", "configuration", "logicalmonitor">>
                   \o <<"monitor", "monitorspec", "connector">>
             t == <<"monitors", "configuration", "logicalmonitor", "monitor", "monitorspec", "connector">>
  <2>1. s \in Seq(Tags) /\ t \in Seq(Tags) BY DEF Tags
  <2>2. Len(s) = 6 /\ Len(t) = 6 /\ \A i \in 1 .. 6 : s[i] = t[i] OBVIOUS
  <2> HIDE DEF s, t
  <2>3. s = t BY <2>1, <2>2, SameTuple
  <2> QED BY <1>1, <2>3 DEF s, t
<1>3. Configuration \o <<"disabled", "monitorspec", "connector">> =
        <<"monitors", "configuration", "disabled", "monitorspec", "connector">>
  <2> DEFINE s == <<"monitors", "configuration">> \o <<"disabled", "monitorspec", "connector">>
             t == <<"monitors", "configuration", "disabled", "monitorspec", "connector">>
  <2>1. s \in Seq(Tags) /\ t \in Seq(Tags) BY DEF Tags
  <2>2. Len(s) = 5 /\ Len(t) = 5 /\ \A i \in 1 .. 5 : s[i] = t[i] OBVIOUS
  <2> HIDE DEF s, t
  <2>3. s = t BY <2>1, <2>2, SameTuple
  <2> QED BY <2>3 DEF s, t, Configuration
<1>4. Logical \o <<"transform", "rotation">> =
        <<"monitors", "configuration", "logicalmonitor", "transform", "rotation">>
  <2> DEFINE s == <<"monitors", "configuration", "logicalmonitor">> \o <<"transform", "rotation">>
             t == <<"monitors", "configuration", "logicalmonitor", "transform", "rotation">>
  <2>1. s \in Seq(Tags) /\ t \in Seq(Tags) BY DEF Tags
  <2>2. Len(s) = 5 /\ Len(t) = 5 /\ \A i \in 1 .. 5 : s[i] = t[i] OBVIOUS
  <2> HIDE DEF s, t
  <2>3. s = t BY <2>1, <2>2, SameTuple
  <2> QED BY <1>1, <2>3 DEF s, t
<1> QED BY <1>2, <1>3, <1>4

(* Changing what was appended is appending the changed.                       *)
LEMMA ChangedLast ==
    ASSUME NEW S, NEW s, NEW v, NEW u, NEW w, NEW k, NEW t, s \in Seq(S), v \in S, u \in S,
           w = Append(s, v), k = Len(w), t = [w EXCEPT ![k] = u]
    PROVE  t = Append(s, u)
<1>1. /\ w \in Seq(S) /\ Len(w) = Len(s) + 1
      /\ \A i \in 1 .. Len(s) : w[i] = s[i]
  BY AppendProperties
<1>2. /\ Append(s, u) \in Seq(S) /\ Len(Append(s, u)) = Len(s) + 1
      /\ Append(s, u)[Len(s) + 1] = u /\ \A i \in 1 .. Len(s) : Append(s, u)[i] = s[i]
  BY AppendProperties
<1>3. Len(s) \in Nat /\ k = Len(s) + 1 /\ k \in 1 .. Len(w) BY <1>1
<1>4. t \in Seq(S) /\ Len(t) = Len(w) /\ \A i \in 1 .. Len(w) : t[i] = IF i = k THEN u ELSE w[i]
  <2>1. w \in Seq(S) /\ k \in 1 .. Len(w) /\ u \in S /\ t = [w EXCEPT ![k] = u] BY <1>1, <1>3
  <2> QED BY ONLY <2>1, Replaced
<1>5. \A i \in 1 .. k : i # k => i \in 1 .. Len(s)
  <2>1. \A n \in Nat : \A i \in 1 .. n + 1 : i # n + 1 => i \in 1 .. n OBVIOUS
  <2> QED BY ONLY <1>3, <2>1
<1>6. \A i \in 1 .. k : t[i] = Append(s, u)[i] BY <1>1, <1>2, <1>3, <1>4, <1>5
<1>7. Len(t) = k /\ Len(Append(s, u)) = k BY <1>1, <1>2, <1>3, <1>4
<1> QED BY ONLY <1>2, <1>4, <1>6, <1>7, SameTuple

(* What a reader takes from a text depends on where it stands.                *)
LEMMA SaidWhere ==
    ASSUME Path \in {Ways(parser.parent)[parser.state]}, NEW text, NEW n, n = Len(doc.logical)
    PROVE  /\ parser.state \in {"LAYOUT_MODE", "MONITOR_MODE_WIDTH", "STORE", "DBUS"} =>
                Said(text) = doc
           /\ parser.state = "TRANSFORM_ROTATION" =>
                Said(text) = [doc EXCEPT !.logical[n].turned = TRUE]
           /\ parser.state = "MONITOR_SPEC_CONNECTOR" /\ parser.parent # "DISABLED" =>
                Said(text) = [doc EXCEPT !.logical[n].monitors = Append(@, text)]
           /\ parser.state = "MONITOR_SPEC_CONNECTOR" /\ parser.parent = "DISABLED" =>
                Said(text) = [doc EXCEPT !.disabled = Append(@, text)]
<1> DEFINE lit == <<"monitors", "configuration", "logicalmonitor", "monitor", "monitorspec", "connector">>
           dark == <<"monitors", "configuration", "disabled", "monitorspec", "connector">>
           turn == <<"monitors", "configuration", "logicalmonitor", "transform", "rotation">>
<1>1. Said(text) = IF Path = lit THEN [doc EXCEPT !.logical[n].monitors = Append(@, text)]
                   ELSE IF Path = dark THEN [doc EXCEPT !.disabled = Append(@, text)]
                   ELSE IF Path = turn THEN [doc EXCEPT !.logical[n].turned = TRUE]
                   ELSE doc
  <2>1. lit # dark /\ lit # turn
    <3>1. Len(lit) = 6 /\ Len(dark) = 5 /\ Len(turn) = 5 OBVIOUS
    <3> HIDE DEF lit, dark, turn
    <3>2. Len(lit) # Len(dark) /\ Len(lit) # Len(turn) BY ONLY <3>1
    <3> QED BY ONLY <3>2, Zenon
  <2>2. dark # turn
    <3>1. dark[3] = "disabled" /\ turn[3] = "logicalmonitor" OBVIOUS
    <3> HIDE DEF dark, turn
    <3> QED BY <3>1
  <2>3. Said(text) =
          CASE Path = lit -> [doc EXCEPT !.logical[n].monitors = Append(@, text)]
            [] Path = dark -> [doc EXCEPT !.disabled = Append(@, text)]
            [] Path = turn -> [doc EXCEPT !.logical[n].turned = TRUE]
            [] OTHER -> doc
    BY TextPaths DEF Said
  <2> HIDE DEF lit, dark, turn
  <2> QED BY <2>1, <2>2, <2>3
<1>2. parser.state \in {"LAYOUT_MODE", "MONITOR_MODE_WIDTH", "STORE", "DBUS"} =>
        Path # lit /\ Path # dark /\ Path # turn
  <2>1. Len(lit) = 6 /\ Len(dark) = 5 /\ Len(turn) = 5 /\ lit[5] = "monitorspec" OBVIOUS
  <2>2. parser.state \in {"LAYOUT_MODE", "MONITOR_MODE_WIDTH", "STORE", "DBUS"} =>
          Len(Path) \in 3 .. 4 \/ (Len(Path) = 6 /\ Path[5] = "mode")
    BY DEF Ways
  <2> HIDE DEF lit, dark, turn
  <2>3. parser.state \in {"LAYOUT_MODE", "MONITOR_MODE_WIDTH", "STORE", "DBUS"} =>
          /\ Len(Path) # Len(dark) /\ Len(Path) # Len(turn)
          /\ Len(Path) # Len(lit) \/ Path[5] # lit[5]
    BY ONLY <2>1, <2>2
  <2> QED BY ONLY <2>3, Zenon
<1>3. parser.state = "TRANSFORM_ROTATION" => Path = turn /\ Path # lit /\ Path # dark
  <2>1. Len(lit) = 6 /\ Len(turn) = 5 /\ turn[3] = "logicalmonitor" /\ dark[3] = "disabled" OBVIOUS
  <2>2. parser.state = "TRANSFORM_ROTATION" => Path = turn BY DEF Ways
  <2> HIDE DEF lit, dark, turn
  <2>3. Len(turn) # Len(lit) /\ turn[3] # dark[3] BY ONLY <2>1
  <2> QED BY ONLY <2>2, <2>3, Zenon
<1>4. parser.state = "MONITOR_SPEC_CONNECTOR" /\ parser.parent # "DISABLED" => Path = lit
  BY DEF Ways
<1>5. parser.state = "MONITOR_SPEC_CONNECTOR" /\ parser.parent = "DISABLED" =>
        Path = dark /\ Path # lit
  <2>1. Len(lit) = 6 /\ Len(dark) = 5 OBVIOUS
  <2>2. parser.state = "MONITOR_SPEC_CONNECTOR" /\ parser.parent = "DISABLED" => Path = dark
    BY DEF Ways
  <2> HIDE DEF lit, dark, turn
  <2>3. Len(dark) # Len(lit) BY ONLY <2>1
  <2> QED BY ONLY <2>2, <2>3, Zenon
<1> HIDE DEF lit, dark, turn
<1>6. ASSUME parser.state \in {"LAYOUT_MODE", "MONITOR_MODE_WIDTH", "STORE", "DBUS"}
      PROVE  Said(text) = doc
  BY <1>1, <1>2, <1>6
<1>7. ASSUME parser.state = "TRANSFORM_ROTATION"
      PROVE  Said(text) = [doc EXCEPT !.logical[n].turned = TRUE]
  BY <1>1, <1>3, <1>7
<1>8. ASSUME parser.state = "MONITOR_SPEC_CONNECTOR", parser.parent # "DISABLED"
      PROVE  Said(text) = [doc EXCEPT !.logical[n].monitors = Append(@, text)]
  BY <1>1, <1>4, <1>8
<1>9. ASSUME parser.state = "MONITOR_SPEC_CONNECTOR", parser.parent = "DISABLED"
      PROVE  Said(text) = [doc EXCEPT !.disabled = Append(@, text)]
  BY <1>1, <1>5, <1>9
<1> QED BY <1>6, <1>7, <1>8, <1>9

(* Below an unknown element in a transform no text is taken.                  *)
LEMMA SaidNothing ==
    ASSUME Typed, Doomed, parser.state = "TRANSFORM_ROTATION", NEW text
    PROVE  Said(text) = doc
<1> DEFINE lit == <<"monitors", "configuration", "logicalmonitor", "monitor", "monitorspec", "connector">>
           dark == <<"monitors", "configuration", "disabled", "monitorspec", "connector">>
           turn == <<"monitors", "configuration", "logicalmonitor", "transform", "rotation">>
<1>1. Len(open) > 1 /\ open[Len(open) - 1].name = "unknown" /\ Len(open) \in Nat
  BY DEF Doomed, Typed
<1>2. Len(Path) = Len(open) /\ Path[Len(Path) - 1] = "unknown"
  <2>1. Len(Path) = Len(open) /\ \A i \in 1 .. Len(open) : Path[i] = open[i].name
    BY PathIsNames DEF Typed
  <2>2. Len(open) - 1 \in 1 .. Len(open) BY <1>1
  <2> QED BY <1>1, <2>1, <2>2
<1>3. /\ lit[Len(lit) - 1] = "monitorspec" /\ dark[Len(dark) - 1] = "monitorspec"
      /\ turn[Len(turn) - 1] = "transform"
  OBVIOUS
<1>4. Said(text) =
        CASE Path = lit -> [doc EXCEPT !.logical[Len(doc.logical)].monitors = Append(@, text)]
          [] Path = dark -> [doc EXCEPT !.disabled = Append(@, text)]
          [] Path = turn -> [doc EXCEPT !.logical[Len(doc.logical)].turned = TRUE]
          [] OTHER -> doc
  BY TextPaths DEF Said
<1> HIDE DEF lit, dark, turn
<1>5. Path # lit /\ Path # dark /\ Path # turn BY <1>2, <1>3
<1> QED BY <1>4, <1>5

(* A text leaves the parser where it is.                                      *)
LEMMA Stays ==
    ASSUME Sound, open # <<>>, open' = [open EXCEPT ![Len(open)].had = @ \cup {"text"}],
           parser.state # "UNKNOWN",
           parser'.state = parser.state, parser'.parent = parser.parent,
           parser'.level = parser.level, parser'.root = parser.root
    PROVE  /\ OnTheWay' /\ Place = parser.state /\ Place' = Place /\ Alike(Place, Place')
           /\ open' \in Seq(Frame) /\ Len(open') = Len(open)
           /\ \A i \in 1 .. Len(open) : open[i].had \subseteq open'[i].had
           /\ "text" \in open'[Len(open)].had
           /\ parser.level = 0 /\ parser.root = Null
<1>1. parser.level = 0 /\ parser.root = Null /\ Place = parser.state BY LevelIsZero DEF Sound
<1>2. Place' = Place BY <1>1 DEF Place
<1>3. /\ open' \in Seq(Frame) /\ Len(open') = Len(open)
      /\ \A i \in 1 .. Len(open) : open[i].had \subseteq open'[i].had
      /\ "text" \in open'[Len(open)].had /\ Path' = Path
  BY ReadText DEF Sound, Typed
<1>4. OnTheWay' BY <1>1, <1>2, <1>3 DEF Sound, OnTheWay, InSpec
<1>5. Alike(Place, Place') BY <1>2 DEF Alike, Rooms, Sound, OnTheWay, Ways
<1> QED BY <1>1, <1>2, <1>3, <1>4, <1>5

(* Where a text stands.                                                       *)
LEMMA TextFacts ==
    ASSUME Sound, Text
    PROVE  /\ open # <<>> /\ Len(open) > 1
           /\ parser.state \in DOMAIN Ways(parser.parent)
           /\ Path = Ways(parser.parent)[parser.state] /\ Place = parser.state
           /\ parser.state # "UNKNOWN"
<1>1. parser.state \in {"LAYOUT_MODE", "MONITOR_SPEC_CONNECTOR", "MONITOR_MODE_WIDTH",
                        "TRANSFORM_ROTATION", "STORE", "DBUS"}
  BY DEF Text
<1>2. parser.level = 0 /\ Place = parser.state BY <1>1, LevelIsZero DEF Sound
<1>3. Path = Ways(parser.parent)[parser.state] /\ parser.state \in DOMAIN Ways(parser.parent)
  BY <1>2 DEF Sound, OnTheWay
<1>4. Len(Path) > 1 BY <1>1, <1>3 DEF Ways
<1>5. Len(open) > 1 BY <1>4, PathIsNames DEF Sound, Typed
<1> QED BY <1>1, <1>2, <1>3, <1>5

(* A text that the document of the configuration does not show.               *)
LEMMA ReadsPlain ==
    ASSUME Sound, Text, parser.state \in {"LAYOUT_MODE", "MONITOR_MODE_WIDTH", "STORE", "DBUS"}
    PROVE  Goes
<1>1. PICK text \in Texts : parser' = Read(text) /\ doc' = Said(text) BY DEF Text
<1>2. /\ open # <<>> /\ Len(open) > 1 /\ Path = Ways(parser.parent)[parser.state]
      /\ Place = parser.state
  BY TextFacts
<1>3. doc' = doc
  <2>1. PICK n : n = Len(doc.logical) OBVIOUS
  <2> QED BY <1>1, <1>2, <2>1, SaidWhere
<1>4. CASE parser' = Error BY <1>4 DEF Goes, Ends, Error
<1>5. CASE parser' # Error
  <2>1. \/ parser' = [parser EXCEPT !.layoutValid = TRUE] \/ parser' = [parser EXCEPT !.mode = "mode"]
        \/ parser' = [parser EXCEPT !.pendingStore = text]
        \/ parser' = [parser EXCEPT !.dbus = text = "yes"]
    BY <1>1, <1>5 DEF Read
  <2>2. DOMAIN parser = DOMAIN NewParser("user") BY DEF Sound, Typed
  <2>3. /\ DOMAIN parser' = DOMAIN parser /\ parser'.state = parser.state
        /\ parser'.logical = parser.logical /\ parser'.disabled = parser.disabled
        /\ parser'.current = parser.current /\ parser'.turned = parser.turned
        /\ parser'.monitor = parser.monitor /\ parser'.spec = parser.spec
        /\ parser'.parent = parser.parent /\ parser'.level = parser.level /\ parser'.root = parser.root
        /\ parser'.mode \in {parser.mode, "mode"}
    <3>1. CASE parser' = [parser EXCEPT !.layoutValid = TRUE] BY <2>2, <3>1, FieldsOfParser
    <3>2. CASE parser' = [parser EXCEPT !.mode = "mode"] BY <2>2, <3>2, FieldsOfParser
    <3>3. CASE parser' = [parser EXCEPT !.pendingStore = text] BY <2>2, <3>3, FieldsOfParser
    <3>4. CASE parser' = [parser EXCEPT !.dbus = text = "yes"]
      <4>1. PICK b : b = (text = "yes") OBVIOUS
      <4>2. parser' = [parser EXCEPT !.dbus = b] BY <3>4, <4>1
      <4> QED BY <2>2, <4>2, FieldsOfParser
    <3> QED BY <2>1, <3>1, <3>2, <3>3, <3>4
  <2>4. SameContent BY <1>3, <2>3 DEF SameContent
  <2>5. /\ OnTheWay' /\ Place' = Place /\ Alike(Place, Place') /\ open' \in Seq(Frame)
        /\ \A i \in 1 .. Len(open) : open[i].had \subseteq open'[i].had
    BY <1>2, <2>3, Stays DEF Text
  <2>6. \A i \in 3 .. 4 : i <= Len(open) /\ i <= Len(open') => open[i].had \subseteq open'[i].had
    <3>1. \A i \in 3 .. 4 : i <= Len(open) => i \in 1 .. Len(open) BY DEF Sound, Typed
    <3> QED BY <2>5, <3>1
  <2>7. /\ parser'.monitor \in [spec : Specs \cup {Null}, mode : {"mode", Null}]
        /\ parser'.mode \in {"mode", Null, Blank}
        /\ parser'.root \in Lenient \cup {Null} /\ parser'.level \in 0 .. 2
        /\ (parser'.level > 0) <=> (parser'.state = "UNKNOWN")
        /\ (parser'.level > 0) <=> (parser'.root # Null)
    BY <2>3 DEF Sound, Typed
  <2>8. Typed' /\ TransformOnce' /\ SpecOnce' /\ SaysTheSame'
    BY <2>3, <2>4, <2>5, <2>6, <2>7, Move DEF Sound
  <2>9. ConnectorOnce' BY <2>3 DEF ConnectorOnce
  <2> QED BY <2>5, <2>8, <2>9 DEF Goes, Sound
<1> QED BY <1>4, <1>5

(* What the last logical monitor of the document is told, the parser keeps.   *)
LEMMA ReadsRotation ==
    ASSUME Sound, Text, parser.state = "TRANSFORM_ROTATION"
    PROVE  Goes
<1>1. PICK text \in Texts : parser' = Read(text) /\ doc' = Said(text) BY DEF Text
<1>2. /\ open # <<>> /\ Len(open) > 1 /\ Path = Ways(parser.parent)[parser.state]
      /\ Place = parser.state
  BY TextFacts
<1>3. /\ DOMAIN parser' = DOMAIN parser /\ parser'.state = parser.state
      /\ parser'.logical = parser.logical /\ parser'.disabled = parser.disabled
      /\ parser'.current = parser.current /\ parser'.turned = TRUE
      /\ parser'.monitor = parser.monitor /\ parser'.spec = parser.spec
      /\ parser'.parent = parser.parent /\ parser'.level = parser.level /\ parser'.root = parser.root
      /\ parser'.mode = parser.mode
  <2>1. DOMAIN parser = DOMAIN NewParser("user") BY DEF Sound, Typed
  <2>2. parser' = [parser EXCEPT !.turned = TRUE] BY <1>1 DEF Read
  <2> QED BY <2>1, <2>2, FieldsOfParser
<1>4. /\ OnTheWay' /\ Place' = Place /\ Alike(Place, Place') /\ open' \in Seq(Frame)
      /\ \A i \in 1 .. Len(open) : open[i].had \subseteq open'[i].had
  BY <1>2, <1>3, Stays DEF Text
<1>5. /\ InConfiguration /\ InTransform /\ InLogical /\ ~InSpec /\ ~InMonitor
      /\ InConfiguration' /\ InTransform' /\ InLogical' /\ ~InSpec' /\ ~InMonitor'
  BY <1>2, <1>4 DEF InConfiguration, InTransform, InLogical, InSpec, InMonitor
<1>6. /\ doc.logical = Append(parser.logical, [parser.current EXCEPT !.turned = parser.turned])
      /\ doc.disabled = parser.disabled
  BY <1>5 DEF Sound, SaysTheSame, Current
<1>7. /\ parser.current \in LogicalMonitor /\ parser.turned \in BOOLEAN
      /\ parser.logical \in Seq(LogicalMonitor)
      /\ doc \in [logical : Seq(LogicalMonitor), disabled : Seq(Specs)]
  BY DEF Sound, Typed
<1> DEFINE v == [parser.current EXCEPT !.turned = parser.turned]
           u == [parser.current EXCEPT !.turned = TRUE]
           n == Len(parser.logical) + 1
<1>8. v \in LogicalMonitor /\ u \in LogicalMonitor /\ u = [v EXCEPT !.turned = TRUE]
  BY <1>7 DEF LogicalMonitor
<1>9. Len(doc.logical) = n /\ doc.logical[n] = v
  BY <1>6, <1>7, <1>8, AppendProperties
<1>10. doc' = [doc EXCEPT !.logical[n].turned = TRUE]
  <2> HIDE DEF n
  <2>1. n = Len(doc.logical) BY <1>9
  <2> QED BY <1>1, <1>2, <2>1, SaidWhere
<1>11. doc' = [doc EXCEPT !.logical = [doc.logical EXCEPT ![n] = u]]
  <2> HIDE DEF n, u, v
  <2>1. doc' = [doc EXCEPT !.logical = [doc.logical EXCEPT ![n] = [doc.logical[n] EXCEPT !.turned = TRUE]]]
    BY <1>10
  <2> QED BY <1>8, <1>9, <2>1
<1>12. [doc.logical EXCEPT ![n] = u] = Append(parser.logical, u)
  <2>1. /\ doc.logical = Append(parser.logical, v) /\ n = Len(doc.logical)
        /\ parser.logical \in Seq(LogicalMonitor)
    BY <1>6, <1>7, <1>9
  <2> HIDE DEF u, v, n
  <2>2. v \in LogicalMonitor /\ u \in LogicalMonitor BY <1>8
  <2>3. PICK l, w, a, b, k, t :
          /\ l = parser.logical /\ w = doc.logical /\ a = v /\ b = u /\ k = n
          /\ t = [w EXCEPT ![k] = b]
    OBVIOUS
  <2>4. /\ l \in Seq(LogicalMonitor) /\ a \in LogicalMonitor /\ b \in LogicalMonitor
        /\ w = Append(l, a) /\ k = Len(w) /\ t = [w EXCEPT ![k] = b]
    BY ONLY <2>1, <2>2, <2>3
  <2>5. t = Append(l, b) BY ONLY <2>4, ChangedLast
  <2> QED BY ONLY <2>3, <2>5
<1>13. /\ doc'.logical = Append(parser.logical, u) /\ doc'.disabled = doc.disabled
       /\ doc' \in [logical : Seq(LogicalMonitor), disabled : Seq(Specs)]
  <2> HIDE DEF u, n
  <2>1. PICK l \in Seq(LogicalMonitor) : l = Append(parser.logical, u)
    BY <1>7, <1>8, AppendProperties
  <2>2. doc' = [doc EXCEPT !.logical = l] BY <1>11, <1>12, <2>1
  <2> QED BY <1>7, <2>1, <2>2
<1>14. Current' = u BY <1>3, <1>5 DEF Current
<1>15. SaysTheSame'
  <2> HIDE DEF u
  <2> QED BY <1>3, <1>5, <1>6, <1>13, <1>14 DEF SaysTheSame
<1>16. Typed' BY <1>3, <1>4, <1>5, <1>13 DEF Sound, Typed
<1>17. open[3].had \subseteq open'[3].had
  <2>1. Len(open) >= 3 /\ Len(open) \in Nat BY <1>5, Deep DEF Sound, Typed
  <2> QED BY <1>4, <2>1
<1>18. TransformOnce' BY <1>3, <1>5, <1>17 DEF Sound, TransformOnce
<1>19. SpecOnce' /\ ConnectorOnce' BY <1>3, <1>5 DEF SpecOnce, ConnectorOnce, Sound
<1> QED BY <1>4, <1>15, <1>16, <1>18, <1>19 DEF Goes, Sound

(* The text of a monitorspec in a monitor.                                    *)
LEMMA ReadsLitSpec ==
    ASSUME NamedSpecs, Sound, Text, parser.state = "MONITOR_SPEC_CONNECTOR", parser.parent # "DISABLED"
    PROVE  Goes
<1>1. PICK text \in Specs : parser' = Read(text) /\ doc' = Said(text) BY DEF Text, Texts
<1>2. /\ open # <<>> /\ Len(open) > 1 /\ Path = Ways(parser.parent)[parser.state]
      /\ Place = parser.state
  BY TextFacts
<1>3. /\ DOMAIN parser' = DOMAIN parser /\ parser'.state = parser.state
      /\ parser'.logical = parser.logical /\ parser'.disabled = parser.disabled
      /\ parser'.current = parser.current /\ parser'.turned = parser.turned
      /\ parser'.monitor = parser.monitor /\ parser'.spec = text
      /\ parser'.parent = parser.parent /\ parser'.level = parser.level /\ parser'.root = parser.root
      /\ parser'.mode = parser.mode
  <2>1. DOMAIN parser = DOMAIN NewParser("user") BY DEF Sound, Typed
  <2>2. parser' = [parser EXCEPT !.spec = text] BY <1>1 DEF Read
  <2> QED BY <2>1, <2>2, FieldsOfParser
<1>4. /\ OnTheWay' /\ Place' = Place /\ Alike(Place, Place') /\ open' \in Seq(Frame)
      /\ Len(open') = Len(open)
      /\ \A i \in 1 .. Len(open) : open[i].had \subseteq open'[i].had
      /\ "text" \in open'[Len(open)].had
  BY <1>2, <1>3, Stays DEF Text
<1>5. /\ InConfiguration /\ InLogical /\ InSpec /\ ~InTransform /\ ~InMonitor
      /\ InConfiguration' /\ InLogical' /\ InSpec' /\ ~InTransform' /\ ~InMonitor'
      /\ ~InDisabled'
  <2>1. InSpec BY <1>2 DEF InSpec
  <2>2. parser.parent = "MONITOR" BY <2>1 DEF Sound, OnTheWay
  <2> QED BY <1>2, <1>3, <1>4, <2>2
        DEF InConfiguration, InTransform, InLogical, InSpec, InMonitor, InDisabled
<1>6. text # Blank /\ text # Null BY DEF NamedSpecs
<1>7. parser.spec = Blank BY <1>2 DEF Sound, ConnectorOnce, Text
<1>8. doc.logical = Append(parser.logical, parser.current) /\ doc.disabled = parser.disabled
  BY <1>5, <1>7 DEF Sound, SaysTheSame, Current
<1>9. /\ parser.current \in LogicalMonitor /\ parser.logical \in Seq(LogicalMonitor)
      /\ doc \in [logical : Seq(LogicalMonitor), disabled : Seq(Specs)]
  BY DEF Sound, Typed
<1> DEFINE v == parser.current
           u == [parser.current EXCEPT !.monitors = Append(@, text)]
           n == Len(doc.logical)
<1>10. u \in LogicalMonitor
  <2>1. parser.current.monitors \in Seq(Specs) BY <1>9 DEF LogicalMonitor
  <2>2. PICK m \in Seq(Specs) : m = Append(parser.current.monitors, text)
    BY <2>1, AppendProperties
  <2>3. u = [parser.current EXCEPT !.monitors = m] BY <2>2
  <2> QED BY <1>9, <2>2, <2>3 DEF LogicalMonitor
<1>11. doc.logical[n] = v
  <2>1. Len(doc.logical) = Len(parser.logical) + 1 BY <1>8, <1>9, AppendProperties
  <2> QED BY <1>8, <1>9, <2>1, AppendProperties
<1>12. doc' = [doc EXCEPT !.logical = [doc.logical EXCEPT ![n] = u]]
  <2>1. doc' = [doc EXCEPT !.logical[n].monitors = Append(@, text)]
    <3> HIDE DEF n, u, v
    <3>1. n = Len(doc.logical) BY DEF n
    <3> QED BY <1>1, <1>2, <3>1, SaidWhere
  <2> HIDE DEF n
  <2>2. doc' = [doc EXCEPT !.logical = [doc.logical EXCEPT ![n] =
                 [doc.logical[n] EXCEPT !.monitors = Append(@, text)]]]
    BY <2>1
  <2> QED BY <1>11, <2>2
<1>13. [doc.logical EXCEPT ![n] = u] = Append(parser.logical, u)
  <2>1. /\ doc.logical = Append(parser.logical, v) /\ n = Len(doc.logical)
        /\ parser.logical \in Seq(LogicalMonitor) /\ v \in LogicalMonitor /\ u \in LogicalMonitor
    BY <1>8, <1>9, <1>10
  <2> HIDE DEF u, v, n
  <2>2. PICK l, w, a, b, k, t :
          /\ l = parser.logical /\ w = doc.logical /\ a = v /\ b = u /\ k = n
          /\ t = [w EXCEPT ![k] = b]
    OBVIOUS
  <2>3. /\ l \in Seq(LogicalMonitor) /\ a \in LogicalMonitor /\ b \in LogicalMonitor
        /\ w = Append(l, a) /\ k = Len(w) /\ t = [w EXCEPT ![k] = b]
    BY ONLY <2>1, <2>2
  <2>4. t = Append(l, b) BY ONLY <2>3, ChangedLast
  <2> QED BY ONLY <2>2, <2>4
<1>14. /\ doc'.logical = Append(parser.logical, u) /\ doc'.disabled = doc.disabled
       /\ doc' \in [logical : Seq(LogicalMonitor), disabled : Seq(Specs)]
  <2> HIDE DEF u, n
  <2>1. PICK l \in Seq(LogicalMonitor) : l = Append(parser.logical, u)
    BY <1>9, <1>10, AppendProperties
  <2>2. doc' = [doc EXCEPT !.logical = l] BY <1>12, <1>13, <2>1
  <2> QED BY <1>9, <2>1, <2>2
<1>15. Current' = u BY <1>3, <1>5, <1>6 DEF Current
<1>16. SaysTheSame'
  <2> HIDE DEF u
  <2> QED BY <1>3, <1>5, <1>8, <1>14, <1>15 DEF SaysTheSame
<1>17. Typed' BY <1>3, <1>4, <1>5, <1>6, <1>14 DEF Sound, Typed
<1>18. open[3].had \subseteq open'[3].had /\ open[4].had \subseteq open'[4].had
  <2>1. Len(open) >= 4 /\ Len(open) \in Nat BY <1>5, Deep DEF Sound, Typed
  <2> QED BY <1>4, <2>1
<1>19. TransformOnce' /\ SpecOnce'
  BY <1>3, <1>5, <1>18 DEF Sound, TransformOnce, SpecOnce
<1>20. ConnectorOnce'
  <2>1. Len(open) - 1 \in 1 .. Len(open) BY <1>2 DEF Sound, Typed
  <2>2. open[Len(open) - 1].had \subseteq open'[Len(open) - 1].had BY <1>4, <2>1
  <2>3. "connector" \in open[Len(open) - 1].had BY DEF Sound, ConnectorOnce
  <2> QED BY <1>3, <1>4, <2>2, <2>3 DEF ConnectorOnce, Last
<1> QED BY <1>4, <1>16, <1>17, <1>19, <1>20 DEF Goes, Sound

(* The text of a monitorspec in a disabled element.                           *)
LEMMA ReadsDarkSpec ==
    ASSUME NamedSpecs, Sound, Text, parser.state = "MONITOR_SPEC_CONNECTOR", parser.parent = "DISABLED"
    PROVE  Goes
<1>1. PICK text \in Specs : parser' = Read(text) /\ doc' = Said(text) BY DEF Text, Texts
<1>2. /\ open # <<>> /\ Len(open) > 1 /\ Path = Ways(parser.parent)[parser.state]
      /\ Place = parser.state
  BY TextFacts
<1>3. /\ DOMAIN parser' = DOMAIN parser /\ parser'.state = parser.state
      /\ parser'.logical = parser.logical /\ parser'.disabled = parser.disabled
      /\ parser'.current = parser.current /\ parser'.turned = parser.turned
      /\ parser'.monitor = parser.monitor /\ parser'.spec = text
      /\ parser'.parent = parser.parent /\ parser'.level = parser.level /\ parser'.root = parser.root
      /\ parser'.mode = parser.mode
  <2>1. DOMAIN parser = DOMAIN NewParser("user") BY DEF Sound, Typed
  <2>2. parser' = [parser EXCEPT !.spec = text] BY <1>1 DEF Read
  <2> QED BY <2>1, <2>2, FieldsOfParser
<1>4. /\ OnTheWay' /\ Place' = Place /\ Alike(Place, Place') /\ open' \in Seq(Frame)
      /\ Len(open') = Len(open)
      /\ \A i \in 1 .. Len(open) : open[i].had \subseteq open'[i].had
      /\ "text" \in open'[Len(open)].had
  BY <1>2, <1>3, Stays DEF Text
<1>5. /\ InConfiguration /\ ~InLogical /\ InSpec /\ ~InTransform /\ ~InMonitor /\ InDisabled
      /\ InConfiguration' /\ ~InLogical' /\ InSpec' /\ ~InTransform' /\ ~InMonitor' /\ InDisabled'
  BY <1>2, <1>3, <1>4
    DEF InConfiguration, InTransform, InLogical, InSpec, InMonitor, InDisabled
<1>6. text # Blank /\ text # Null BY DEF NamedSpecs
<1>7. parser.spec = Blank BY <1>2 DEF Sound, ConnectorOnce, Text
<1>8. doc.logical = parser.logical /\ doc.disabled = parser.disabled
  BY <1>5, <1>7 DEF Sound, SaysTheSame
<1>9. /\ parser.disabled \in Seq(Specs)
      /\ doc \in [logical : Seq(LogicalMonitor), disabled : Seq(Specs)]
  BY DEF Sound, Typed
<1>10. doc' = [doc EXCEPT !.disabled = Append(@, text)]
  <2>1. PICK n : n = Len(doc.logical) OBVIOUS
  <2> QED BY <1>1, <1>2, <2>1, SaidWhere
<1>11. /\ doc'.disabled = Append(parser.disabled, text) /\ doc'.logical = doc.logical
       /\ doc' \in [logical : Seq(LogicalMonitor), disabled : Seq(Specs)]
  <2>1. PICK l \in Seq(Specs) : l = Append(parser.disabled, text) BY <1>9, AppendProperties
  <2>2. doc' = [doc EXCEPT !.disabled = l] BY <1>8, <1>10, <2>1
  <2> QED BY <1>9, <2>1, <2>2
<1>12. SaysTheSame' BY <1>3, <1>5, <1>6, <1>8, <1>11 DEF SaysTheSame
<1>13. Typed' BY <1>3, <1>4, <1>5, <1>6, <1>11 DEF Sound, Typed
<1>14. TransformOnce' /\ SpecOnce' BY <1>3, <1>5 DEF Sound, TransformOnce, SpecOnce
<1>15. ConnectorOnce'
  <2>1. Len(open) - 1 \in 1 .. Len(open) BY <1>2 DEF Sound, Typed
  <2>2. open[Len(open) - 1].had \subseteq open'[Len(open) - 1].had BY <1>4, <2>1
  <2>3. "connector" \in open[Len(open) - 1].had BY DEF Sound, ConnectorOnce
  <2> QED BY <1>3, <1>4, <2>2, <2>3 DEF ConnectorOnce, Last
<1> QED BY <1>4, <1>12, <1>13, <1>14, <1>15 DEF Goes, Sound

(* handle_text, whatever the state is.                                        *)
LEMMA TextStep ==
    ASSUME NamedSpecs, Sound \/ (Typed /\ Doomed), Text
    PROVE  Goes
<1>1. CASE Sound
  <2>1. parser.state \in {"LAYOUT_MODE", "MONITOR_SPEC_CONNECTOR", "MONITOR_MODE_WIDTH",
                          "TRANSFORM_ROTATION", "STORE", "DBUS"}
    BY DEF Text
  <2> QED BY <1>1, <2>1, ReadsPlain, ReadsRotation, ReadsLitSpec, ReadsDarkSpec
<1>2. CASE Typed /\ Doomed
  <2>1. parser.state = "TRANSFORM_ROTATION" BY <1>2 DEF Text, Doomed
  <2>2. PICK text \in Texts : parser' = Read(text) /\ doc' = Said(text) BY DEF Text
  <2>3. doc' = doc BY <1>2, <2>1, <2>2, SaidNothing
  <2>4. DOMAIN parser = DOMAIN NewParser("user") BY <1>2 DEF Typed
  <2>5. /\ DOMAIN parser' = DOMAIN parser /\ parser'.state = parser.state
        /\ parser'.logical = parser.logical /\ parser'.disabled = parser.disabled
        /\ parser'.current = parser.current /\ parser'.turned = TRUE
        /\ parser'.monitor = parser.monitor /\ parser'.spec = parser.spec
        /\ parser'.level = parser.level /\ parser'.root = parser.root
        /\ parser'.mode = parser.mode
    <3>1. parser' = [parser EXCEPT !.turned = TRUE] BY <2>1, <2>2 DEF Read
    <3> QED BY <2>4, <3>1, FieldsOfParser
  <2>6. Len(open) > 1 /\ Len(open) \in Nat /\ open # <<>> /\ open[Len(open) - 1].name = "unknown"
    BY <1>2, <2>1 DEF Doomed, Typed
  <2>7. /\ open' \in Seq(Frame) /\ Len(open') = Len(open)
        /\ \A i \in 1 .. Len(open) : open'[i].name = open[i].name
    BY <1>2, <2>6, ReadText DEF Text, Typed
  <2>8. Doomed'
    <3>1. Len(open) - 1 \in 1 .. Len(open) BY <2>6
    <3> QED BY <2>1, <2>5, <2>6, <2>7, <3>1 DEF Doomed
  <2>9. Typed' BY <1>2, <2>1, <2>3, <2>5, <2>7 DEF Typed, InSpec, Place
  <2> QED BY <2>8, <2>9 DEF Goes
<1> QED BY <1>1, <1>2

(* The end of an element that leads to a place that is alike.                 *)
LEMMA LeavesAlike ==
    ASSUME Sound, parser.state \notin {"UNKNOWN", "INITIAL"}, open' = Front(open),
           parser'.state = Up(parser.parent)[parser.state],
           Alike(parser.state, Up(parser.parent)[parser.state]),
           DOMAIN parser' = DOMAIN parser, SameContent,
           parser'.level = parser.level, parser'.root = parser.root,
           parser'.monitor \in [spec : Specs \cup {Null}, mode : {"mode", Null}],
           parser'.mode \in {"mode", Null, Blank}
    PROVE  Sound'
<1>1. parser.level = 0 /\ parser.root = Null /\ Place = parser.state BY LevelIsZero DEF Sound
<1>2. parser'.parent = parser.parent BY DEF SameContent
<1>3. OnTheWay' /\ Place' = Up(parser.parent)[parser.state] /\ open # <<>>
  BY <1>2, LeavesPlace DEF Sound
<1>4. /\ open' \in Seq(Frame) /\ Len(open') = Len(open) - 1 /\ Len(open) \in Nat
      /\ \A i \in 1 .. Len(open) - 1 : open'[i] = open[i]
  BY <1>3, ClosedElement DEF Sound, Typed
<1>5. \A i \in 3 .. 4 : i <= Len(open) /\ i <= Len(open') => open[i].had \subseteq open'[i].had
  BY <1>4
<1>6. parser.state \in DOMAIN Up(parser.parent) /\ parser'.state # "UNKNOWN"
  BY <1>1 DEF Sound, OnTheWay, Ways, Up
<1>7. Typed' /\ TransformOnce' /\ SpecOnce' /\ SaysTheSame'
  <2>1. /\ parser'.root \in Lenient \cup {Null} /\ parser'.level \in 0 .. 2
        /\ (parser'.level > 0) <=> (parser'.state = "UNKNOWN")
        /\ (parser'.level > 0) <=> (parser'.root # Null)
    BY <1>1, <1>6
  <2> QED BY <1>1, <1>3, <1>4, <1>5, <2>1, Move DEF Sound
<1>8. ConnectorOnce'
  <2>1. /\ parser'.state # "MONITOR_SPEC_CONNECTOR"
        /\ parser'.state = "MONITOR_SPEC" => parser.state = "MONITOR_SPEC_CONNECTOR"
    BY <1>6 DEF Up
  <2> SUFFICES ASSUME parser.state = "MONITOR_SPEC_CONNECTOR" PROVE ConnectorOnce'
    BY <2>1 DEF ConnectorOnce
  <2>2. "connector" \in open[Len(open) - 1].had BY DEF Sound, ConnectorOnce
  <2>3. Len(open) >= 4 BY <1>1, Deep DEF Sound, InSpec
  <2>4. open'[Len(open')] = open[Len(open) - 1] BY <1>4, <2>3
  <2> QED BY <2>1, <2>2, <2>4 DEF ConnectorOnce, Last
<1> QED BY <1>3, <1>7, <1>8 DEF Sound

(* What every end of an element has in common, but that of an unknown one.    *)
LEMMA Leaving ==
    ASSUME Sound, NEW state, NEW p, Leaves(state, p), state \notin {"UNKNOWN", "INITIAL"},
           p.state = Up(parser.parent)[state], p.level = parser.level, p.root = parser.root,
           p.parent = parser.parent
    PROVE  /\ parser' = p /\ parser.state = state /\ Place = state /\ doc' = doc
           /\ OnTheWay' /\ Place' = Up(parser.parent)[state]
           /\ open' \in Seq(Frame) /\ Len(open') = Len(open) - 1 /\ Len(open) \in Nat
           /\ \A i \in 1 .. Len(open) - 1 : open'[i] = open[i]
           /\ parser.level = 0 /\ parser.root = Null
           /\ DOMAIN parser = DOMAIN NewParser("user")
<1>1. parser' = p /\ parser.state = state /\ doc' = doc /\ open' = Front(open) BY DEF Leaves
<1>2. parser.level = 0 /\ parser.root = Null /\ Place = parser.state
  BY <1>1, LevelIsZero DEF Sound
<1>3. OnTheWay' /\ Place' = Up(parser.parent)[parser.state] /\ open # <<>>
  BY <1>1, LeavesPlace DEF Sound
<1>4. /\ open' \in Seq(Frame) /\ Len(open') = Len(open) - 1 /\ Len(open) \in Nat
      /\ \A i \in 1 .. Len(open) - 1 : open'[i] = open[i]
  BY <1>1, <1>3, ClosedElement DEF Sound, Typed
<1> QED BY <1>1, <1>2, <1>3, <1>4 DEF Sound, Typed

(* handle_end_element where it only changes the state.                        *)
LEMMA EndPlainStep ==
    ASSUME Sound \/ (Typed /\ Doomed), EndPlain
    PROVE  Goes
<1> DEFINE p == [parser EXCEPT !.state = Parents[parser.state]]
<1>1. /\ parser.state \in DOMAIN Parents \ {"TRANSFORM"} /\ open # <<>>
      /\ parser' = p /\ open' = Front(open) /\ doc' = doc
  BY DEF EndPlain, Leaves
<1>2. DOMAIN parser = DOMAIN NewParser("user") BY DEF Sound, Typed
<1>3. /\ DOMAIN p = DOMAIN parser /\ p.state = Parents[parser.state]
      /\ p.logical = parser.logical /\ p.disabled = parser.disabled
      /\ p.current = parser.current /\ p.turned = parser.turned
      /\ p.monitor = parser.monitor /\ p.spec = parser.spec
      /\ p.parent = parser.parent /\ p.level = parser.level /\ p.root = parser.root
      /\ p.mode = parser.mode
  BY <1>2, FieldsOfParser
<1> HIDE DEF p
<1>4. CASE Sound
  <2>1. parser.state \notin {"UNKNOWN", "INITIAL"} BY <1>1 DEF Parents
  <2>2. Parents[parser.state] = Up(parser.parent)[parser.state] BY <1>1 DEF Parents, Up
  <2>3. Alike(parser.state, Parents[parser.state]) BY <1>1 DEF Parents, Alike, Rooms
  <2>4. SameContent BY <1>1, <1>3 DEF SameContent
  <2> QED BY <1>1, <1>3, <1>4, <2>1, <2>2, <2>3, <2>4, LeavesAlike DEF Goes, Sound, Typed
<1>5. CASE Typed /\ Doomed
  <2>1. parser.state = "TRANSFORM_ROTATION" /\ Len(open) > 1 /\ open[Len(open) - 1].name = "unknown"
    BY <1>1, <1>5 DEF Doomed
  <2>2. parser'.state = "TRANSFORM" BY <1>1, <1>3, <2>1 DEF Parents
  <2>3. /\ open' \in Seq(Frame) /\ Len(open') = Len(open) - 1 /\ Len(open) \in Nat
        /\ \A i \in 1 .. Len(open) - 1 : open'[i] = open[i]
    BY <1>1, <1>5, ClosedElement DEF Typed
  <2>4. open' # <<>> /\ Last(open').name = "unknown"
    <3>1. Len(open) - 1 \in 1 .. Len(open) - 1 BY <2>1, <2>3
    <3> QED BY <2>1, <2>3, <3>1 DEF Last
  <2>5. Typed' BY <1>1, <1>3, <1>5, <2>1, <2>2, <2>3 DEF Typed, InSpec, Place
  <2> QED BY <2>2, <2>4, <2>5 DEF Goes, Doomed, Name
<1> QED BY <1>4, <1>5

(* The end of a transform: the logical monitor is turned, the parser is not.  *)
LEMMA EndTransformStep ==
    ASSUME Sound \/ (Typed /\ Doomed), EndTransform
    PROVE  Goes
<1>1. Sound
  <2>1. parser.state = "TRANSFORM" /\ Name = "transform"
    BY DEF EndTransform, Leaves, AssertFails, Asserted
  <2> QED BY <2>1 DEF Doomed
<1> DEFINE p == [parser EXCEPT !.current.turned = parser.turned,
                               !.turned = FALSE, !.state = "LOGICAL_MONITOR"]
<1>2. DOMAIN parser = DOMAIN NewParser("user") BY <1>1 DEF Sound, Typed
<1>3. /\ DOMAIN p = DOMAIN parser /\ p.state = "LOGICAL_MONITOR"
      /\ p.logical = parser.logical /\ p.disabled = parser.disabled
      /\ p.current = [parser.current EXCEPT !.turned = parser.turned] /\ p.turned = FALSE
      /\ p.monitor = parser.monitor /\ p.spec = parser.spec
      /\ p.parent = parser.parent /\ p.level = parser.level /\ p.root = parser.root
      /\ p.mode = parser.mode
  BY <1>2, FieldsOfParser
<1>4. Leaves("TRANSFORM", p) BY DEF EndTransform
<1> HIDE DEF p
<1>5. "LOGICAL_MONITOR" = Up(parser.parent)["TRANSFORM"] BY DEF Up
<1>6. /\ parser' = p /\ Place = "TRANSFORM" /\ doc' = doc /\ OnTheWay'
      /\ Place' = "LOGICAL_MONITOR" /\ open' \in Seq(Frame) /\ Len(open') = Len(open) - 1
      /\ \A i \in 1 .. Len(open) - 1 : open'[i] = open[i]
      /\ parser.level = 0 /\ parser.root = Null /\ Len(open) \in Nat
  BY <1>1, <1>3, <1>4, <1>5, Leaving
<1>7. /\ InConfiguration /\ InLogical /\ InTransform /\ ~InSpec /\ ~InMonitor
      /\ InConfiguration' /\ InLogical' /\ ~InTransform' /\ ~InSpec' /\ ~InMonitor'
  BY <1>6 DEF InConfiguration, InLogical, InTransform, InSpec, InMonitor
<1>8. parser.current \in LogicalMonitor /\ parser.turned \in BOOLEAN BY <1>1 DEF Sound, Typed
<1>9. Current' = Current BY <1>3, <1>6, <1>7 DEF Current
<1>10. SaysTheSame' BY <1>1, <1>3, <1>6, <1>7, <1>9 DEF Sound, SaysTheSame
<1>11. p.current \in LogicalMonitor BY <1>3, <1>8 DEF LogicalMonitor
<1>12. Typed' BY <1>1, <1>3, <1>6, <1>7, <1>11 DEF Sound, Typed
<1>13. "transform" \in open[3].had /\ open'[3] = open[3]
  <2>1. "transform" \in open[3].had BY <1>1, <1>7 DEF Sound, TransformOnce
  <2>2. Len(open') >= 3 BY <1>6, <1>7, <1>3, DeepAfter
  <2> QED BY <1>6, <2>1, <2>2
<1>14. TransformOnce' BY <1>3, <1>6, <1>7, <1>13 DEF TransformOnce
<1>15. SpecOnce' /\ ConnectorOnce' BY <1>3, <1>6, <1>7 DEF SpecOnce, ConnectorOnce
<1> QED BY <1>6, <1>10, <1>12, <1>14, <1>15 DEF Goes, Sound

(* finish_monitor_spec in a monitor.                                          *)
LEMMA EndLitSpec ==
    ASSUME NamedSpecs, Sound, parser.parent # "DISABLED", parser.spec # Blank,
           Leaves("MONITOR_SPEC", FinishMonitorSpec)
    PROVE  Sound'
<1> DEFINE p == FinishMonitorSpec
<1>1. DOMAIN parser = DOMAIN NewParser("user") BY DEF Sound, Typed
<1>2. parser.state = "MONITOR_SPEC" BY DEF Leaves
<1>3. Place = "MONITOR_SPEC" /\ parser.parent = "MONITOR"
  <2>1. Place = "MONITOR_SPEC" BY <1>2 DEF Place
  <2> QED BY <2>1 DEF Sound, OnTheWay, InSpec
<1>4. /\ InConfiguration /\ InLogical /\ InSpec /\ ~InTransform /\ ~InMonitor /\ ~InDisabled
  BY <1>3 DEF InConfiguration, InLogical, InTransform, InSpec, InMonitor, InDisabled
<1>5. parser.spec \in Specs BY <1>4 DEF Sound, Typed
<1>6. /\ DOMAIN p = DOMAIN parser /\ p.state = "MONITOR"
      /\ p.logical = parser.logical /\ p.disabled = parser.disabled
      /\ p.current = parser.current /\ p.turned = parser.turned
      /\ p.monitor = [parser.monitor EXCEPT !.spec = parser.spec] /\ p.spec = Null
      /\ p.parent = parser.parent /\ p.level = parser.level /\ p.root = parser.root
      /\ p.mode = parser.mode
  BY <1>1, <1>3, FieldsOfParser DEF FinishMonitorSpec
<1> HIDE DEF p
<1>7. "MONITOR" = Up(parser.parent)["MONITOR_SPEC"] BY <1>3 DEF Up
<1>8. /\ parser' = p /\ doc' = doc /\ OnTheWay'
      /\ Place' = "MONITOR" /\ open' \in Seq(Frame) /\ Len(open') = Len(open) - 1
      /\ \A i \in 1 .. Len(open) - 1 : open'[i] = open[i]
      /\ parser.level = 0 /\ parser.root = Null /\ Len(open) \in Nat
  <2>1. Leaves("MONITOR_SPEC", p) BY DEF p
  <2> QED BY <1>6, <1>7, <2>1, Leaving
<1>9. /\ InConfiguration' /\ InLogical' /\ ~InTransform' /\ ~InSpec' /\ InMonitor'
  BY <1>8 DEF InConfiguration, InLogical, InTransform, InSpec, InMonitor
<1>10. /\ p.monitor \in [spec : Specs \cup {Null}, mode : {"mode", Null}]
       /\ p.monitor.spec = parser.spec /\ parser.spec # Null
  BY <1>5, <1>6 DEF Sound, Typed, NamedSpecs
<1>11. Current' = Current BY <1>4, <1>6, <1>8, <1>9, <1>10 DEF Current
<1>12. SaysTheSame' BY <1>4, <1>6, <1>8, <1>9, <1>11 DEF Sound, SaysTheSame
<1>13. Typed' BY <1>6, <1>8, <1>9, <1>10 DEF Sound, Typed
<1>14. open'[3] = open[3] /\ open'[4] = open[4]
  <2>1. Len(open') >= 4 BY <1>6, <1>8, <1>9, <1>13, DeepAfter DEF Typed
  <2> QED BY <1>8, <2>1
<1>15. TransformOnce' BY <1>4, <1>6, <1>8, <1>9, <1>14 DEF Sound, TransformOnce
<1>16. SpecOnce' BY <1>4, <1>9, <1>14 DEF Sound, SpecOnce
<1>17. ConnectorOnce' BY <1>6, <1>8 DEF ConnectorOnce
<1> QED BY <1>8, <1>12, <1>13, <1>15, <1>16, <1>17 DEF Sound

(* finish_monitor_spec in a disabled element.                                 *)
LEMMA EndDarkSpec ==
    ASSUME Sound, parser.parent = "DISABLED", parser.spec # Blank,
           Leaves("MONITOR_SPEC", FinishMonitorSpec)
    PROVE  Sound'
<1> DEFINE p == FinishMonitorSpec
<1>1. DOMAIN parser = DOMAIN NewParser("user") BY DEF Sound, Typed
<1>2. parser.state = "MONITOR_SPEC" BY DEF Leaves
<1>3. Place = "MONITOR_SPEC" BY <1>2 DEF Place
<1>4. /\ InConfiguration /\ ~InLogical /\ InSpec /\ InDisabled /\ ~InTransform /\ ~InMonitor
  BY <1>3 DEF InConfiguration, InLogical, InTransform, InSpec, InMonitor, InDisabled
<1>5. parser.spec \in Specs BY <1>4 DEF Sound, Typed
<1>6. /\ DOMAIN p = DOMAIN parser /\ p.state = "DISABLED"
      /\ p.logical = parser.logical /\ p.disabled = Append(parser.disabled, parser.spec)
      /\ p.current = parser.current /\ p.turned = parser.turned
      /\ p.monitor = parser.monitor /\ p.spec = Null
      /\ p.parent = parser.parent /\ p.level = parser.level /\ p.root = parser.root
      /\ p.mode = parser.mode
  BY <1>1, FieldsOfParser DEF FinishMonitorSpec
<1> HIDE DEF p
<1>7. "DISABLED" = Up(parser.parent)["MONITOR_SPEC"] BY DEF Up
<1>8. /\ parser' = p /\ doc' = doc /\ OnTheWay'
      /\ Place' = "DISABLED" /\ open' \in Seq(Frame) /\ Len(open') = Len(open) - 1
      /\ \A i \in 1 .. Len(open) - 1 : open'[i] = open[i]
      /\ parser.level = 0 /\ parser.root = Null /\ Len(open) \in Nat
  <2>1. Leaves("MONITOR_SPEC", p) BY DEF p
  <2> QED BY <1>6, <1>7, <2>1, Leaving
<1>9. /\ InConfiguration' /\ ~InLogical' /\ ~InTransform' /\ ~InSpec' /\ ~InMonitor'
  BY <1>8 DEF InConfiguration, InLogical, InTransform, InSpec, InMonitor, InDisabled
<1>10. p.disabled \in Seq(Specs)
  <2>1. parser.disabled \in Seq(Specs) BY DEF Sound, Typed
  <2> QED BY <1>5, <1>6, <2>1, AppendProperties
<1>11. SaysTheSame' BY <1>4, <1>6, <1>8, <1>9 DEF Sound, SaysTheSame
<1>12. Typed' BY <1>6, <1>8, <1>9, <1>10 DEF Sound, Typed
<1>13. TransformOnce' /\ SpecOnce' /\ ConnectorOnce'
  BY <1>4, <1>6, <1>8, <1>9 DEF Sound, TransformOnce, SpecOnce, ConnectorOnce
<1> QED BY <1>8, <1>11, <1>12, <1>13 DEF Sound

(* The end of a monitorspec.                                                  *)
LEMMA EndMonitorSpecStep ==
    ASSUME NamedSpecs, Sound \/ (Typed /\ Doomed), EndMonitorSpec
    PROVE  Goes
<1>1. Sound BY DEF EndMonitorSpec, Leaves, Doomed
<1>2. CASE parser.spec = Blank
  <2>1. parser' = Error BY <1>2 DEF EndMonitorSpec, Leaves
  <2> QED BY <2>1 DEF Goes, Ends, Error
<1>3. CASE parser.spec # Blank
  <2>1. Leaves("MONITOR_SPEC", FinishMonitorSpec) BY <1>3 DEF EndMonitorSpec
  <2> QED BY <1>1, <1>3, <2>1, EndLitSpec, EndDarkSpec DEF Goes
<1> QED BY <1>2, <1>3

(* The end of a mode.                                                         *)
LEMMA EndMonitorModeStep ==
    ASSUME Sound \/ (Typed /\ Doomed), EndMonitorMode
    PROVE  Goes
<1>1. Sound BY DEF EndMonitorMode, Leaves, Doomed
<1>2. CASE parser.mode = Blank
  <2>1. parser' = Error BY <1>2 DEF EndMonitorMode, Leaves
  <2> QED BY <2>1 DEF Goes, Ends, Error
<1>3. CASE parser.mode # Blank
  <2>1. /\ parser.state = "MONITOR_MODE" /\ open' = Front(open) /\ doc' = doc
        /\ parser' = [parser EXCEPT !.monitor.mode = parser.mode, !.mode = Null,
                                    !.state = "MONITOR"]
    BY <1>3 DEF EndMonitorMode, Leaves
  <2>2. DOMAIN parser = DOMAIN NewParser("user") BY <1>1 DEF Sound, Typed
  <2>3. /\ DOMAIN parser' = DOMAIN parser /\ parser'.state = "MONITOR"
        /\ parser'.logical = parser.logical /\ parser'.disabled = parser.disabled
        /\ parser'.current = parser.current /\ parser'.turned = parser.turned
        /\ parser'.monitor = [parser.monitor EXCEPT !.mode = parser.mode]
        /\ parser'.spec = parser.spec
        /\ parser'.parent = parser.parent /\ parser'.level = parser.level
        /\ parser'.root = parser.root /\ parser'.mode = Null
    BY <2>1, <2>2, FieldsOfParser
  <2>4. /\ parser'.monitor \in [spec : Specs \cup {Null}, mode : {"mode", Null}]
        /\ parser'.monitor.spec = parser.monitor.spec
    BY <1>1, <1>3, <2>3 DEF Sound, Typed
  <2>5. SameContent BY <2>1, <2>3, <2>4 DEF SameContent
  <2>6. "MONITOR" = Up(parser.parent)[parser.state] BY <2>1 DEF Up
  <2>7. Alike(parser.state, "MONITOR") BY <2>1 DEF Alike, Rooms
  <2>8. parser.state \notin {"UNKNOWN", "INITIAL"} BY <2>1
  <2> QED BY <1>1, <2>1, <2>3, <2>4, <2>5, <2>6, <2>7, <2>8, LeavesAlike DEF Goes
<1> QED BY <1>2, <1>3

(* The end of a monitor.                                                      *)
LEMMA EndMonitorStep ==
    ASSUME Sound \/ (Typed /\ Doomed), EndMonitor
    PROVE  Goes
<1>1. Sound BY DEF EndMonitor, Leaves, Doomed
<1>2. CASE Null \in {parser.monitor.spec, parser.monitor.mode}
  <2>1. parser' = Error BY <1>2 DEF EndMonitor, Leaves
  <2> QED BY <2>1 DEF Goes, Ends, Error
<1>3. CASE Null \notin {parser.monitor.spec, parser.monitor.mode}
  <2> DEFINE p == [parser EXCEPT !.current.monitors = Append(@, parser.monitor.spec),
                                 !.monitor = NewMonitor, !.state = "LOGICAL_MONITOR"]
  <2>1. DOMAIN parser = DOMAIN NewParser("user") BY <1>1 DEF Sound, Typed
  <2>2. /\ DOMAIN p = DOMAIN parser /\ p.state = "LOGICAL_MONITOR"
        /\ p.logical = parser.logical /\ p.disabled = parser.disabled
        /\ p.current = [parser.current EXCEPT !.monitors = Append(@, parser.monitor.spec)]
        /\ p.turned = parser.turned /\ p.monitor = NewMonitor /\ p.spec = parser.spec
        /\ p.parent = parser.parent /\ p.level = parser.level /\ p.root = parser.root
        /\ p.mode = parser.mode
    BY <2>1, FieldsOfParser
  <2>3. Leaves("MONITOR", p) BY <1>3 DEF EndMonitor
  <2> HIDE DEF p
  <2>4. "LOGICAL_MONITOR" = Up(parser.parent)["MONITOR"] BY DEF Up
  <2>5. /\ parser' = p /\ Place = "MONITOR" /\ doc' = doc /\ OnTheWay'
        /\ Place' = "LOGICAL_MONITOR" /\ open' \in Seq(Frame) /\ Len(open') = Len(open) - 1
        /\ \A i \in 1 .. Len(open) - 1 : open'[i] = open[i]
        /\ parser.level = 0 /\ parser.root = Null /\ Len(open) \in Nat
    BY <1>1, <2>2, <2>3, <2>4, Leaving
  <2>6. /\ InConfiguration /\ InLogical /\ ~InTransform /\ ~InSpec /\ InMonitor
        /\ InConfiguration' /\ InLogical' /\ ~InTransform' /\ ~InSpec' /\ ~InMonitor'
    BY <2>5 DEF InConfiguration, InLogical, InTransform, InSpec, InMonitor
  <2>7. parser.current \in LogicalMonitor /\ parser.monitor.spec \in Specs
    BY <1>1, <1>3 DEF Sound, Typed
  <2>8. Current' = Current BY <1>3, <2>2, <2>5, <2>6 DEF Current
  <2>9. SaysTheSame' BY <1>1, <2>2, <2>5, <2>6, <2>8 DEF Sound, SaysTheSame
  <2>10. p.current \in LogicalMonitor /\ p.current.turned = parser.current.turned
    <3>1. parser.current.monitors \in Seq(Specs) BY <2>7 DEF LogicalMonitor
    <3>2. PICK m \in Seq(Specs) : m = Append(parser.current.monitors, parser.monitor.spec)
      BY <2>7, <3>1, AppendProperties
    <3>3. p.current = [parser.current EXCEPT !.monitors = m] BY <2>2, <3>2
    <3> QED BY <2>7, <3>2, <3>3 DEF LogicalMonitor
  <2>11. NewMonitor \in [spec : Specs \cup {Null}, mode : {"mode", Null}] BY DEF NewMonitor
  <2>12. Typed' BY <1>1, <2>2, <2>5, <2>6, <2>10, <2>11 DEF Sound, Typed
  <2>13. open'[3] = open[3]
    <3>1. Len(open') >= 3 BY <2>2, <2>5, <2>6, DeepAfter
    <3> QED BY <2>5, <3>1
  <2>14. TransformOnce' BY <1>1, <2>2, <2>5, <2>6, <2>10, <2>13 DEF Sound, TransformOnce
  <2>15. SpecOnce' /\ ConnectorOnce' BY <2>2, <2>5, <2>6 DEF SpecOnce, ConnectorOnce
  <2> QED BY <2>5, <2>9, <2>12, <2>14, <2>15 DEF Goes, Sound
<1> QED BY <1>2, <1>3

(* The end of a logical monitor.                                              *)
LEMMA EndLogicalMonitorStep ==
    ASSUME Sound \/ (Typed /\ Doomed), EndLogicalMonitor
    PROVE  Goes
<1>1. Sound BY DEF EndLogicalMonitor, Leaves, Doomed
<1> DEFINE p == [parser EXCEPT !.logical = Append(@, parser.current), !.current = NewLogical,
                               !.state = "CONFIGURATION"]
<1>2. DOMAIN parser = DOMAIN NewParser("user") BY <1>1 DEF Sound, Typed
<1>3. /\ DOMAIN p = DOMAIN parser /\ p.state = "CONFIGURATION"
      /\ p.logical = Append(parser.logical, parser.current) /\ p.disabled = parser.disabled
      /\ p.current = NewLogical /\ p.turned = parser.turned
      /\ p.monitor = parser.monitor /\ p.spec = parser.spec
      /\ p.parent = parser.parent /\ p.level = parser.level /\ p.root = parser.root
      /\ p.mode = parser.mode
  BY <1>2, FieldsOfParser
<1>4. Leaves("LOGICAL_MONITOR", p) BY DEF EndLogicalMonitor
<1> HIDE DEF p
<1>5. "CONFIGURATION" = Up(parser.parent)["LOGICAL_MONITOR"] BY DEF Up
<1>6. /\ parser' = p /\ Place = "LOGICAL_MONITOR" /\ doc' = doc /\ OnTheWay'
      /\ Place' = "CONFIGURATION" /\ open' \in Seq(Frame)
      /\ parser.level = 0 /\ parser.root = Null
  BY <1>1, <1>3, <1>4, <1>5, Leaving
<1>7. /\ InConfiguration /\ InLogical /\ ~InTransform /\ ~InSpec /\ ~InMonitor
      /\ InConfiguration' /\ ~InLogical' /\ ~InTransform' /\ ~InSpec' /\ ~InMonitor'
  BY <1>6 DEF InConfiguration, InLogical, InTransform, InSpec, InMonitor
<1>8. Current = parser.current BY <1>7 DEF Current
<1>9. SaysTheSame' BY <1>1, <1>3, <1>6, <1>7, <1>8 DEF Sound, SaysTheSame
<1>10. p.logical \in Seq(LogicalMonitor) /\ NewLogical \in LogicalMonitor
  <2>1. parser.current \in LogicalMonitor /\ parser.logical \in Seq(LogicalMonitor)
    BY <1>1 DEF Sound, Typed
  <2>2. p.logical \in Seq(LogicalMonitor) BY <1>3, <2>1, AppendProperties
  <2> QED BY <2>2 DEF NewLogical, LogicalMonitor
<1>11. Typed' BY <1>1, <1>3, <1>6, <1>7, <1>10 DEF Sound, Typed
<1>12. TransformOnce' /\ SpecOnce' /\ ConnectorOnce'
  BY <1>1, <1>3, <1>6, <1>7 DEF Sound, TransformOnce, SpecOnce, ConnectorOnce
<1> QED BY <1>6, <1>9, <1>11, <1>12 DEF Goes, Sound

(* The end of a configuration: what is stored is what the file said.          *)
LEMMA EndConfigurationStep ==
    ASSUME Sound \/ (Typed /\ Doomed), EndConfiguration, last.config = last.doc
    PROVE  Goes /\ last'.config = last'.doc
<1>1. Sound BY DEF EndConfiguration, Leaves, Doomed
<1>2. PICK fits, empty :
        /\ Leaves("CONFIGURATION", IF empty THEN At("crashed")
                                   ELSE IF fits THEN Stored(parser) ELSE Error)
        /\ last' = IF fits /\ ~empty
                   THEN [config |-> [logical |-> parser.logical, disabled |-> parser.disabled],
                         doc |-> doc]
                   ELSE last
  BY DEF EndConfiguration
<1>3. CASE ~(fits /\ ~empty)
  <2>1. last' = last BY <1>2, <1>3
  <2>2. parser' = At("crashed") \/ parser' = Error BY <1>2, <1>3 DEF Leaves
  <2> QED BY <2>1, <2>2 DEF Goes, Ends, Error
<1>4. CASE fits /\ ~empty
  <2> DEFINE p == Stored(parser)
  <2>1. DOMAIN parser = DOMAIN NewParser("user") BY <1>1 DEF Sound, Typed
  <2>2. /\ DOMAIN p = DOMAIN parser /\ p.state = "MONITORS"
        /\ p.logical = <<>> /\ p.disabled = <<>>
        /\ p.current = parser.current /\ p.turned = parser.turned
        /\ p.monitor = parser.monitor /\ p.spec = parser.spec
        /\ p.parent = parser.parent /\ p.level = parser.level /\ p.root = parser.root
        /\ p.mode = parser.mode
    <3>1. PICK k, u : p = [parser EXCEPT !.logical = <<>>, !.disabled = <<>>, !.pending = k,
                                         !.update = u, !.state = "MONITORS"]
      BY DEF Stored
    <3> HIDE DEF p
    <3> QED BY <2>1, <3>1, FieldsOfParser
  <2>3. Leaves("CONFIGURATION", p) BY <1>2, <1>4
  <2> HIDE DEF p
  <2>4. "MONITORS" = Up(parser.parent)["CONFIGURATION"] BY DEF Up
  <2>5. /\ parser' = p /\ Place = "CONFIGURATION" /\ doc' = doc /\ OnTheWay'
        /\ Place' = "MONITORS" /\ open' \in Seq(Frame)
        /\ parser.level = 0 /\ parser.root = Null
    BY <1>1, <2>2, <2>3, <2>4, Leaving
  <2>6. /\ InConfiguration /\ ~InLogical /\ ~InTransform /\ ~InSpec /\ ~InMonitor
        /\ ~InConfiguration' /\ ~InLogical' /\ ~InTransform' /\ ~InSpec' /\ ~InMonitor'
    BY <2>5 DEF InConfiguration, InLogical, InTransform, InSpec, InMonitor, InDisabled
  <2>7. doc.logical = parser.logical /\ doc.disabled = parser.disabled
    BY <1>1, <2>6 DEF Sound, SaysTheSame
  <2>8. doc = [logical |-> parser.logical, disabled |-> parser.disabled]
    BY <1>1, <2>7 DEF Sound, Typed
  <2>9. last'.config = last'.doc
    <3>1. last' = [config |-> doc, doc |-> doc] BY <1>2, <1>4, <2>8
    <3> QED BY <3>1
  <2>10. SaysTheSame' BY <2>2, <2>5, <2>6 DEF SaysTheSame
  <2>11. Typed'
    <3>1. Typed BY <1>1 DEF Sound
    <3>2. <<>> \in Seq(LogicalMonitor) /\ <<>> \in Seq(Specs) OBVIOUS
    <3> QED BY ONLY <2>2, <2>5, <2>6, <3>1, <3>2 DEF Typed
  <2>12. TransformOnce' /\ SpecOnce' /\ ConnectorOnce'
    BY <1>1, <2>2, <2>5, <2>6 DEF Sound, TransformOnce, SpecOnce, ConnectorOnce
  <2> QED BY <2>5, <2>9, <2>10, <2>11, <2>12 DEF Goes, Sound
<1> QED BY <1>3, <1>4

(* An element of the policy ends.                                             *)
LEMMA EndPolicyStep ==
    ASSUME Sound \/ (Typed /\ Doomed), EndStore \/ EndStores \/ EndDbus
    PROVE  Goes
<1>1. Sound /\ parser.state \in {"STORE", "STORES", "DBUS"} /\ open' = Front(open) /\ doc' = doc
  BY DEF EndStore, EndStores, EndDbus, Leaves, Doomed
<1>2. CASE parser' = Error BY <1>2 DEF Goes, Ends, Error
<1>3. CASE parser' # Error
  <2>1. \/ parser.state = "STORE" /\
             parser' = [parser EXCEPT !.stores = Append(@, parser.pendingStore),
                                      !.pendingStore = Null, !.state = "STORES"]
        \/ parser.state = "STORES" /\ parser' = [parser EXCEPT !.stores = <<>>, !.state = "POLICY"]
        \/ parser.state = "DBUS" /\ parser' = [parser EXCEPT !.state = "POLICY"]
    BY <1>3 DEF EndStore, EndStores, EndDbus, Leaves
  <2>2. DOMAIN parser = DOMAIN NewParser("user") BY <1>1 DEF Sound, Typed
  <2>3. /\ DOMAIN parser' = DOMAIN parser /\ parser'.state = Up(parser.parent)[parser.state]
        /\ parser'.logical = parser.logical /\ parser'.disabled = parser.disabled
        /\ parser'.current = parser.current /\ parser'.turned = parser.turned
        /\ parser'.monitor = parser.monitor /\ parser'.spec = parser.spec
        /\ parser'.parent = parser.parent /\ parser'.level = parser.level
        /\ parser'.root = parser.root /\ parser'.mode = parser.mode
    <3>1. CASE parser.state = "STORE"
      <4>1. PICK l : parser' = [parser EXCEPT !.stores = l, !.pendingStore = Null,
                                              !.state = "STORES"]
        BY <2>1, <3>1
      <4> QED BY <2>2, <3>1, <4>1, FieldsOfParser DEF Up
    <3>2. CASE parser.state = "STORES"
      <4>1. parser' = [parser EXCEPT !.stores = <<>>, !.state = "POLICY"] BY <2>1, <3>2
      <4> QED BY ONLY <2>2, <3>2, <4>1, FieldsOfParser DEF Up
    <3>3. CASE parser.state = "DBUS"
      <4>1. parser' = [parser EXCEPT !.state = "POLICY"] BY <2>1, <3>3
      <4> QED BY ONLY <2>2, <3>3, <4>1, FieldsOfParser DEF Up
    <3> QED BY <1>1, <3>1, <3>2, <3>3
  <2>4. SameContent BY <1>1, <2>3 DEF SameContent
  <2>5. Alike(parser.state, Up(parser.parent)[parser.state]) BY <1>1 DEF Alike, Rooms, Up
  <2>6. parser.state \notin {"UNKNOWN", "INITIAL"} BY <1>1
  <2>7. /\ parser'.monitor \in [spec : Specs \cup {Null}, mode : {"mode", Null}]
        /\ parser'.mode \in {"mode", Null, Blank}
    BY <1>1, <2>3 DEF Sound, Typed
  <2> QED BY <1>1, <2>3, <2>4, <2>5, <2>6, <2>7, LeavesAlike DEF Goes
<1> QED BY <1>2, <1>3

(* handle_end_element, whatever the state is.                                 *)
LEMMA EndStep ==
    ASSUME NamedSpecs, Sound \/ (Typed /\ Doomed), EndElement, last.config = last.doc
    PROVE  Goes /\ last'.config = last'.doc
<1>1. CASE EndAborts BY <1>1 DEF EndAborts, Goes, Ends, Abort
<1>2. CASE EndPlain BY <1>2, EndPlainStep DEF EndPlain
<1>3. CASE EndTransform BY <1>3, EndTransformStep DEF EndTransform
<1>4. CASE EndMonitorSpec BY <1>4, EndMonitorSpecStep DEF EndMonitorSpec
<1>5. CASE EndMonitorMode BY <1>5, EndMonitorModeStep DEF EndMonitorMode
<1>6. CASE EndMonitor BY <1>6, EndMonitorStep DEF EndMonitor
<1>7. CASE EndLogicalMonitor BY <1>7, EndLogicalMonitorStep DEF EndLogicalMonitor
<1>8. CASE EndConfiguration BY <1>8, EndConfigurationStep
<1>9. CASE EndStore \/ EndStores \/ EndDbus
  BY <1>9, EndPolicyStep DEF EndStore, EndStores, EndDbus
<1>10. CASE EndUnknown
  <2>1. Sound BY <1>10 DEF EndUnknown, Leaves, Doomed
  <2>2. last' = last BY <1>10 DEF EndUnknown
  <2> QED BY <1>10, <2>1, <2>2, LeavesUnknown DEF EndUnknown, Leaves, Goes
<1> QED BY <1>1, <1>2, <1>3, <1>4, <1>5, <1>6, <1>7, <1>8, <1>9, <1>10 DEF EndElement

(* A parser that begins has read nothing, and the file has said nothing.      *)
LEMMA BeginsSound ==
    ASSUME open = <<>>, NEW f, parser = NewParser(f), doc = Nothing
    PROVE  Sound
<1>1. open \in Seq(Frame) /\ Len(open) = 0 OBVIOUS
<1>2. Path = <<>>
  <2>1. Path \in Seq(Elements) /\ Len(Path) = 0 BY <1>1, PathIsNames
  <2> QED BY ONLY <2>1, EmptySeq
<1>3. Place = "INITIAL" /\ parser.level = 0 BY DEF Place, NewParser
<1>4. /\ ~InLogical /\ ~InSpec /\ ~InMonitor /\ ~InTransform /\ ~InConfiguration
  BY <1>3 DEF InConfiguration, InLogical, InTransform, InSpec, InMonitor, InDisabled
<1>5. OnTheWay BY <1>2, <1>3, <1>4 DEF OnTheWay, Ways
<1>6. Typed BY <1>1, <1>4 DEF Typed, NewParser, NewLogical, NewMonitor, LogicalMonitor, Nothing
<1>7. TransformOnce /\ SpecOnce /\ ConnectorOnce /\ SaysTheSame
  BY <1>4 DEF NewParser, TransformOnce, SpecOnce, ConnectorOnce, SaysTheSame
<1> QED BY <1>5, <1>6, <1>7 DEF Sound

(* The same for the file that is read next.                                   *)
LEMMA BeginsAgain ==
    ASSUME open' = <<>>, NEW f, parser' = NewParser(f), doc' = Nothing
    PROVE  Sound'
<1>1. open' \in Seq(Frame) /\ Len(open') = 0 OBVIOUS
<1>2. Path' = <<>>
  <2>1. Path' \in Seq(Elements) /\ Len(Path') = 0 BY <1>1, NamesOf DEF Path
  <2> QED BY ONLY <2>1, EmptySeq
<1>3. Place' = "INITIAL" /\ parser'.level = 0 BY DEF Place, NewParser
<1>4. /\ ~InLogical' /\ ~InSpec' /\ ~InMonitor' /\ ~InTransform' /\ ~InConfiguration'
  BY <1>3 DEF InConfiguration, InLogical, InTransform, InSpec, InMonitor, InDisabled
<1>5. OnTheWay' BY <1>2, <1>3, <1>4 DEF OnTheWay, Ways
<1>6. Typed' BY <1>1, <1>4 DEF Typed, NewParser, NewLogical, NewMonitor, LogicalMonitor, Nothing
<1>7. TransformOnce' /\ SpecOnce' /\ ConnectorOnce' /\ SaysTheSame'
  BY <1>4 DEF NewParser, TransformOnce, SpecOnce, ConnectorOnce, SaysTheSame
<1> QED BY <1>5, <1>6, <1>7 DEF Sound

(* The store keeps a policy, and stores in it only with has_stores_policy.    *)
LEMMA PolicyKept ==
    ASSUME DOMAIN policy = DOMAIN NoPolicy, policy.hasStores \/ policy.stores = <<>>, Next
    PROVE  DOMAIN policy' = DOMAIN NoPolicy /\ (policy'.hasStores \/ policy'.stores = <<>>)
<1>1. DOMAIN NoPolicy = {"hasStores", "stores", "hasDbus", "dbus"} BY DEF NoPolicy
<1>2. \/ policy' = policy
      \/ policy' = [policy EXCEPT !.hasStores = TRUE, !.stores = parser.stores]
      \/ policy' = [policy EXCEPT !.hasDbus = TRUE, !.dbus = parser.dbus]
  <2>1. CASE EndElement
    BY <2>1 DEF EndElement, EndAborts, EndPlain, EndTransform, EndMonitorSpec, EndMonitorMode,
        EndMonitor, EndLogicalMonitor, EndConfiguration, EndStore, EndStores, EndDbus, EndUnknown
  <2>2. CASE ~EndElement BY <2>2 DEF Next, StartElement, Text, Malformed, EndOfFile, ReadFile
  <2> QED BY <2>1, <2>2
<1>3. CASE policy' = policy BY <1>3
<1>4. CASE policy' = [policy EXCEPT !.hasStores = TRUE, !.stores = parser.stores]
  BY <1>1, <1>4
<1>5. CASE policy' = [policy EXCEPT !.hasDbus = TRUE, !.dbus = parser.dbus]
  BY <1>1, <1>5
<1> QED BY <1>2, <1>3, <1>4, <1>5

(* The type invariant after a step.                                           *)
LEMMA TypeOKAfter ==
    ASSUME Goes, policy'.hasStores \/ policy'.stores = <<>>
    PROVE  TypeOK' /\ (parser'.state \in Ends \/ (Typed' /\ Doomed') \/ Sound')
<1>1. CASE \E end \in Ends : parser' = At(end)
  <2>1. PICK end \in Ends : parser' = At(end) BY <1>1
  <2>2. /\ parser'.state = end /\ parser'.level = 0 /\ parser'.root = Null
        /\ parser'.disabled = <<>>
    BY <2>1 DEF At, NewParser
  <2>3. \A spec \in ToSet(parser'.disabled) : spec \in Specs BY <2>2 DEF ToSet
  <2> QED BY <2>2, <2>3 DEF TypeOK
<1>2. CASE (Typed' /\ Doomed') \/ Sound'
  <2>1. Typed' BY <1>2 DEF Sound
  <2>2. parser'.state \in DOMAIN Children \cup DOMAIN Parents \cup
          {"UNKNOWN", "STORE", "DBUS", "MONITOR_MODE", "MONITOR_SPEC"}
    <3>1. CASE Doomed' BY <3>1 DEF Doomed, Children, Parents
    <3>2. CASE Sound' BY <3>2 DEF Sound, OnTheWay, Place, Ways, Children, Parents
    <3> QED BY <1>2, <3>1, <3>2
  <2>3. \A spec \in ToSet(parser'.disabled) : spec \in Specs BY <2>1 DEF Typed, ToSet
  <2>4. parser'.level > 0 <=> parser'.root # Null BY <2>1 DEF Typed
  <2> QED BY <1>2, <2>2, <2>3, <2>4 DEF TypeOK
<1> QED BY <1>1, <1>2 DEF Goes

(* The invariant holds at first ...                                           *)
LEMMA InvStart == ASSUME Init PROVE Inv
<1>1. Sound BY BeginsSound DEF Init
<1>2. Typed BY <1>1 DEF Sound
<1>3. parser.state = "INITIAL" /\ policy = NoPolicy /\ last = NoConfig
  BY DEF Init, NewParser
<1>4. \A spec \in ToSet(parser.disabled) : spec \in Specs BY <1>2 DEF Typed, ToSet
<1>5. (parser.level > 0) <=> (parser.root # Null) BY <1>2 DEF Typed
<1>6. parser.state \in DOMAIN Children BY <1>3 DEF Children
<1>7. policy.hasStores \/ policy.stores = <<>> BY <1>3 DEF NoPolicy
<1>8. TypeOK BY <1>4, <1>5, <1>6, <1>7 DEF TypeOK
<1>9. last.config = last.doc BY <1>3 DEF NoConfig
<1> QED BY <1>1, <1>3, <1>8, <1>9 DEF Inv

(* ... is kept by every step ...                                              *)
LEMMA InvStep == ASSUME NamedSpecs, Inv, Next PROVE Inv'
<1>1. DOMAIN policy' = DOMAIN NoPolicy /\ (policy'.hasStores \/ policy'.stores = <<>>)
  BY PolicyKept DEF Inv, TypeOK
<1>2. Goes /\ last'.config = last'.doc
  <2>1. CASE ReadFile
    <3>1. open' = <<>> /\ parser' = NewParser(Files[file + 1]) /\ doc' = Nothing /\ last' = NoConfig
      BY <2>1 DEF ReadFile
    <3>2. Sound' BY <3>1, BeginsAgain
    <3> QED BY <3>1, <3>2 DEF Goes, NoConfig
  <2>2. CASE ~ReadFile
    <3>1. parser.state \notin Ends
      <4>1. CASE EndElement
        <5>1. parser.state \in DOMAIN Asserted \cup DOMAIN Parents \cup {"DBUS", "UNKNOWN"}
          BY <4>1 DEF EndElement, EndAborts, AssertFails, EndPlain, EndTransform, EndMonitorSpec,
              EndMonitorMode, EndMonitor, EndLogicalMonitor, EndConfiguration, EndStore, EndStores,
              EndDbus, EndUnknown, Leaves, Asserted
        <5> QED BY <5>1 DEF Asserted, Parents, Ends
      <4>2. CASE ~EndElement
        BY <2>2, <4>2 DEF Next, StartElement, Text, Malformed, EndOfFile, Ends
      <4> QED BY <4>1, <4>2
    <3>2. Sound \/ (Typed /\ Doomed) BY <3>1 DEF Inv
    <3>3. last.config = last.doc BY DEF Inv
    <3>4. CASE \E e \in Elements : StartElement(e)
      <4>1. PICK e \in Elements : StartElement(e) BY <3>4
      <4>2. last' = last BY <4>1 DEF StartElement
      <4> QED BY <3>2, <3>3, <4>1, <4>2, StartStep
    <3>5. CASE Text BY <3>2, <3>3, <3>5, TextStep DEF Text
    <3>6. CASE EndElement BY <3>2, <3>3, <3>6, EndStep
    <3>7. CASE Malformed \/ EndOfFile
      <4>1. parser' = Error \/ parser' = At("done") BY <3>7 DEF Malformed, EndOfFile
      <4>2. last' = NoConfig BY <3>7 DEF Malformed, EndOfFile
      <4> QED BY <4>1, <4>2 DEF Goes, Ends, Error, NoConfig
    <3> QED BY <2>2, <3>4, <3>5, <3>6, <3>7 DEF Next
  <2> QED BY <2>1, <2>2
<1>3. TypeOK' /\ (parser'.state \in Ends \/ (Typed' /\ Doomed') \/ Sound')
  BY <1>1, <1>2, TypeOKAfter
<1> QED BY <1>1, <1>2, <1>3 DEF Inv

(* ... and by a step of another part.                                         *)
LEMMA InvStutter == ASSUME Inv, UNCHANGED vars PROVE Inv'
<1>1. /\ open' = open /\ parser' = parser /\ policy' = policy /\ doc' = doc /\ last' = last
  BY DEF vars
<1>2. TypeOK' BY <1>1 DEF Inv, TypeOK
<1>3. /\ Path' = Path /\ Place' = Place BY <1>1 DEF Path, Place
<1>4. /\ (InSpec' <=> InSpec) /\ (InMonitor' <=> InMonitor)
      /\ (InTransform' <=> InTransform) /\ (InLogical' <=> InLogical)
      /\ (InDisabled' <=> InDisabled) /\ (InConfiguration' <=> InConfiguration)
  BY <1>1, <1>3 DEF InConfiguration, InLogical, InTransform, InSpec, InMonitor, InDisabled
<1>5. Typed => Typed' BY <1>1, <1>4 DEF Typed
<1>6. Doomed => Doomed' BY <1>1 DEF Doomed, Name
<1>7. OnTheWay => OnTheWay' BY <1>1, <1>3, <1>4 DEF OnTheWay
<1>8. Current' = Current BY <1>1, <1>4 DEF Current
<1>9. SaysTheSame => SaysTheSame' BY <1>1, <1>4, <1>8 DEF SaysTheSame
<1>10. TransformOnce => TransformOnce' BY <1>1, <1>4 DEF TransformOnce
<1>11. SpecOnce => SpecOnce' BY <1>1, <1>4 DEF SpecOnce
<1>12. ConnectorOnce => ConnectorOnce' BY <1>1 DEF ConnectorOnce
<1>13. Sound => Sound' BY <1>5, <1>7, <1>9, <1>10, <1>11, <1>12 DEF Sound
<1> QED BY <1>1, <1>2, <1>5, <1>6, <1>13 DEF Inv

-----------------------------------------------------------------------------
(* The policies, and that only a file of the system sets one.              *)

LEMMA PolicyStart == ASSUME Init PROVE OnlySystemInPolicy
  BY FieldsOfParser DEF Init, OnlySystemInPolicy, NewParser, NoPolicy, Null

(* handle_start_element: a policy element of another file is an error.     *)
LEMMA PolicyAfterStart ==
    ASSUME OnlySystemInPolicy, NEW e \in Elements, StartElement(e)
    PROVE  OnlySystemInPolicy'
<1> DEFINE bad == {"STORES", "STORE", "DBUS"}
<1>1. policy' = policy /\ DOMAIN parser = DOMAIN NewParser("user")
  BY DEF StartElement, OnlySystemInPolicy
<1>2. CASE parser' = Error
  BY <1>1, <1>2, FieldsOfParser DEF OnlySystemInPolicy, Error, At, NewParser, Null
<1>3. CASE parser' \in {parser, [parser EXCEPT !.level = @ + 1]}
  BY <1>1, <1>3, FieldsOfParser DEF OnlySystemInPolicy
<1>4. CASE parser' = Unknown(e) /\ parser.state # "UNKNOWN"
  BY <1>1, <1>4, FieldsOfParser DEF OnlySystemInPolicy, Unknown
<1>5. CASE parser' = Entered(e) /\ Known(e) /\ ~(parser.state = "POLICY" /\ parser.flags # "system")
  <2>1. /\ DOMAIN parser' = DOMAIN parser /\ parser'.flags = parser.flags
        /\ parser'.root = parser.root /\ parser'.state = Children[parser.state][e]
        /\ parser'.parent \in {parser.parent, parser.state}
    BY <1>1, <1>5, FieldsOfParser DEF Entered
  <2>2. Children[parser.state][e] \in bad => parser.state \in {"POLICY", "STORES"}
    BY <1>5 DEF Known, Children
  <2> QED BY <1>1, <1>5, <2>1, <2>2 DEF OnlySystemInPolicy
<1> QED BY <1>2, <1>3, <1>4, <1>5 DEF StartElement

(* handle_end_element: a policy is set at the end of an element that only  *)
(* a file of the system gets to, and once.                                 *)
LEMMA PolicyAfterEnd ==
    ASSUME OnlySystemInPolicy, EndElement
    PROVE  OnlySystemInPolicy' /\ KeepsPolicy
<1>1. /\ DOMAIN parser = DOMAIN NewParser("user") /\ DOMAIN policy = DOMAIN NoPolicy
  BY DEF OnlySystemInPolicy
<1>2. DOMAIN NoPolicy = {"hasStores", "stores", "hasDbus", "dbus"} BY DEF NoPolicy
<1>3. ASSUME NEW end, parser' = At(end), end \in Ends, policy' = policy
      PROVE  OnlySystemInPolicy' /\ KeepsPolicy
  BY <1>1, <1>3, FieldsOfParser DEF OnlySystemInPolicy, KeepsPolicy, At, NewParser, Null, Ends
<1>4. ASSUME policy' = policy, DOMAIN parser' = DOMAIN parser, parser'.flags = parser.flags,
             parser'.root \in {parser.root, Null}, parser'.parent = parser.parent,
             parser'.state \in {parser.parent, parser.root, "STORES", "UNKNOWN"}
                                \cup {"LOGICAL_MONITOR", "CONFIGURATION", "MONITORS", "MONITOR",
                                      "TRANSFORM", "MONITOR_SPEC", "MONITOR_MODE", "INITIAL"},
             parser'.state = "STORES" => parser.state = "STORE"
      PROVE  OnlySystemInPolicy' /\ KeepsPolicy
  BY <1>1, <1>4 DEF OnlySystemInPolicy, KeepsPolicy, Null
<1>5. CASE EndAborts
  BY <1>3, <1>5 DEF EndAborts, Abort, Ends
<1>6. CASE EndPlain
  BY <1>1, <1>4, <1>6, FieldsOfParser DEF EndPlain, Leaves, Parents
<1>7. CASE EndTransform
  BY <1>1, <1>4, <1>7, FieldsOfParser DEF EndTransform, Leaves
<1>8. CASE EndMonitorSpec
  <2>1. policy' = policy /\ (parser' = Error \/ parser' = FinishMonitorSpec)
    BY <1>8 DEF EndMonitorSpec, Leaves
  <2>2. CASE parser' = FinishMonitorSpec
    <3>1. /\ DOMAIN parser' = DOMAIN parser /\ parser'.flags = parser.flags
          /\ parser'.root = parser.root /\ parser'.parent = parser.parent
          /\ parser'.state = parser.parent
      BY <1>1, <2>2, FieldsOfParser DEF FinishMonitorSpec
    <3> QED BY <1>1, <2>1, <3>1 DEF OnlySystemInPolicy, KeepsPolicy
  <2> QED BY <1>3, <2>1, <2>2 DEF Error, Ends
<1>9. CASE EndMonitorMode
  BY <1>1, <1>3, <1>4, <1>9, FieldsOfParser DEF EndMonitorMode, Leaves, Error, Ends
<1>10. CASE EndMonitor
  BY <1>1, <1>3, <1>4, <1>10, FieldsOfParser DEF EndMonitor, Leaves, Error, Ends
<1>11. CASE EndLogicalMonitor
  BY <1>1, <1>4, <1>11, FieldsOfParser DEF EndLogicalMonitor, Leaves
<1>12. CASE EndConfiguration
  <2>1. policy' = policy /\ parser' \in {At("crashed"), Stored(parser), Error}
    BY <1>12 DEF EndConfiguration, Leaves
  <2>2. CASE parser' = Stored(parser)
    BY <1>1, <1>4, <2>1, <2>2, FieldsOfParser DEF Stored
  <2> QED BY <1>3, <2>1, <2>2 DEF Error, Ends
<1>13. CASE EndStore
  BY <1>1, <1>3, <1>4, <1>13, FieldsOfParser DEF EndStore, Leaves, Error, Ends
<1>14. CASE EndStores
  <2>1. parser.state = "STORES" /\ parser' = [parser EXCEPT !.stores = <<>>, !.state = "POLICY"]
    BY <1>14 DEF EndStores, Leaves
  <2>2. parser.flags = "system" BY <2>1 DEF OnlySystemInPolicy
  <2>3. DOMAIN parser' = DOMAIN parser /\ parser'.flags = parser.flags
    BY <1>1, <2>1, FieldsOfParser
  <2>4. policy' = policy \/ (~policy.hasStores
                             /\ policy' = [policy EXCEPT !.hasStores = TRUE, !.stores = parser.stores])
    BY <1>14 DEF EndStores
  <2>5. /\ DOMAIN policy' = DOMAIN policy
        /\ policy.hasStores => policy'.stores = policy.stores
        /\ policy.hasDbus => policy'.dbus = policy.dbus
    BY <1>1, <1>2, <2>4
  <2> QED BY <1>1, <2>2, <2>3, <2>5 DEF OnlySystemInPolicy, KeepsPolicy
<1>15. CASE EndDbus
  <2>1. parser.state \in {"STORES", "DBUS"} BY <1>15 DEF EndDbus, Leaves
  <2>2. parser.flags = "system" BY <2>1 DEF OnlySystemInPolicy
  <2>3. DOMAIN parser' = DOMAIN parser /\ parser'.flags = parser.flags
    BY <1>1, <1>15, FieldsOfParser DEF EndDbus, Leaves
  <2>4. /\ DOMAIN policy' = DOMAIN policy
        /\ policy.hasStores => policy'.stores = policy.stores
        /\ policy.hasDbus => policy'.dbus = policy.dbus
    BY <1>1, <1>2, <1>15 DEF EndDbus
  <2> QED BY <1>1, <2>2, <2>3, <2>4 DEF OnlySystemInPolicy, KeepsPolicy
<1>16. CASE EndUnknown
  <2>1. /\ policy' = policy /\ parser.state = "UNKNOWN"
        /\ \/ parser' = [parser EXCEPT !.level = @ - 1]
           \/ parser' = [parser EXCEPT !.level = 0, !.state = parser.root, !.root = Null]
    BY <1>16 DEF EndUnknown, Leaves
  <2>2. /\ DOMAIN parser' = DOMAIN parser /\ parser'.flags = parser.flags
        /\ parser'.root \in {parser.root, Null} /\ parser'.parent = parser.parent
        /\ parser'.state \in {parser.root, "UNKNOWN"}
    BY <1>1, <2>1, FieldsOfParser
  <2> QED BY <1>1, <2>1, <2>2 DEF OnlySystemInPolicy, KeepsPolicy, Null
<1> QED BY <1>5, <1>6, <1>7, <1>8, <1>9, <1>10, <1>11, <1>12, <1>13, <1>14, <1>15, <1>16
      DEF EndElement

(* Every step: what the policies rest on stays, and so does a policy.      *)
LEMMA PolicyStep ==
    ASSUME OnlySystemInPolicy, Next
    PROVE  OnlySystemInPolicy' /\ KeepsPolicy
<1>1. /\ DOMAIN parser = DOMAIN NewParser("user") /\ DOMAIN policy = DOMAIN NoPolicy
  BY DEF OnlySystemInPolicy
<1>2. CASE \E e \in Elements : StartElement(e)
  <2>1. PICK e \in Elements : StartElement(e) BY <1>2
  <2>2. policy' = policy BY <2>1 DEF StartElement
  <2> QED BY <2>1, <2>2, PolicyAfterStart DEF KeepsPolicy
<1>3. CASE Text
  <2>1. PICK text \in Texts : parser' = Read(text) /\ policy' = policy BY <1>3 DEF Text
  <2>2. CASE parser' = Error
    BY <1>1, <2>1, <2>2, FieldsOfParser DEF OnlySystemInPolicy, KeepsPolicy, Error, At, NewParser, Null
  <2>3. CASE parser' # Error
    <3>1. /\ DOMAIN parser' = DOMAIN parser /\ parser'.flags = parser.flags /\ parser'.state = parser.state
          /\ parser'.root = parser.root /\ parser'.parent = parser.parent
      BY <1>1, <1>3, <2>1, <2>3, FieldsOfParser DEF Text, Read
    <3> QED BY <1>1, <2>1, <3>1 DEF OnlySystemInPolicy, KeepsPolicy
  <2> QED BY <2>2, <2>3
<1>4. CASE EndElement BY <1>4, PolicyAfterEnd
<1>5. CASE Malformed \/ EndOfFile
  <2>1. policy' = policy /\ (parser' = At("error") \/ parser' = At("done"))
    BY <1>5 DEF Malformed, EndOfFile, Error
  <2> QED BY <1>1, <2>1, FieldsOfParser DEF OnlySystemInPolicy, KeepsPolicy, At, NewParser, Null
<1>6. CASE ReadFile
  <2>1. policy' = policy /\ parser' = NewParser(Files[file + 1]) BY <1>6 DEF ReadFile
  <2> QED BY <1>1, <2>1, FieldsOfParser DEF OnlySystemInPolicy, KeepsPolicy, NewParser, Null
<1> QED BY <1>2, <1>3, <1>4, <1>5, <1>6 DEF Next
=============================================================================
