----------------------------- MODULE WireProofs -----------------------------
(***************************************************************************)
(* Proofs about Wire: the client and the server stay in step, and what the *)
(* client keeps of an answer fits where it puts it, for every number of    *)
(* calls, every length of the lists and files, and every way the kernel    *)
(* cuts what they write.                                                   *)
(***************************************************************************)
EXTENDS Wire, FiniteSetTheorems, SequenceTheorems, TLAPS

----------------------------------------------------------------------------
(***************************************************************************)
(* Fields, fields with a value, and tokens.                                *)
(***************************************************************************)
Kinds == {"hdr", "int", "str", "text", "bytes", "file", "eof"}
Names ==
    {"access", "ack", "amode", "clients", "command", "comment", "contents", "count",
     "createhost", "dbn_len", "dev", "dic_no", "eisuu", "enablef", "end", "entry",
     "env", "env_name", "errno", "exist", "fid", "flag", "fuzoku", "fuzokugo", "fzk",
     "gosuu", "hfid", "hindo", "hinsi", "hinsi_name", "hinsi_table", "hlocalf", "hname",
     "host", "hpasswd", "hrw", "hyoka", "ima", "inode", "int_hindo", "int_ima", "jiri",
     "jiriend", "jisho", "jishomax", "kaikakko", "kana", "kangovect", "kanji",
     "kanji_sum", "kigou", "len", "loaded", "localf", "mode", "n", "name", "new",
     "nice", "nsho", "old", "passwd", "path", "ref_count", "reading", "rev", "rw", "sbn",
     "sbn_cnt", "sbncnt", "sd", "serial", "sho_sum", "size", "start", "stat", "status",
     "status_bkwd", "suuji", "time", "toji_kakko", "type", "user", "vec", "vec1",
     "vec2", "version", "which", "words", "yomi"}

Field == [k : Kinds, f : Names]
Value == Int \cup CommandNames
Filled == [k : Kinds, f : Names, v : Int]
AnyToken == [call : Nat, k : Kinds, f : Names, v : Value]

----------------------------------------------------------------------------
(***************************************************************************)
(* The answers to a command; the last turn of a transfer is a status.      *)
(***************************************************************************)
Statuses == {Server!put4("status", 0), Server!put4("status", 1), Server!error_ret("status")}
Answers(c) == IF c \in Transfers THEN Statuses ELSE {course.gives : course \in Server!Table[c]}

(***************************************************************************)
(* What js_disconnect reads of a refusal is shorter than the refusal, and  *)
(* it takes the status sent twice for the error number.                    *)
(***************************************************************************)
ReadOf(c, g) == IF c = "JS_DISCONNECT" /\ g[1].v = -1 THEN 2 ELSE Len(g)
Fits(c, put, field) == Is(put, field) \/ (c = "JS_DISCONNECT" /\ field = INT("errno"))

\* The values of the first k fields, and the tokens of the others.
Values(g, k) == [i \in 1 .. k |-> g[i].v]
Left(n, g, k) == [i \in 1 .. Len(g) - k |-> Token(n, g[k + i])]

(***************************************************************************)
(* A js_* function that has read the first fields of an answer wants the   *)
(* next one as what it is, stops when there is none, and then still takes  *)
(* each of them for what it is.                                            *)
(***************************************************************************)
Agrees(c, g) ==
    /\ ReadOf(c, g) \in 1 .. Len(g)
    /\ \A k \in 0 .. ReadOf(c, g) - 1 :
         /\ Len(Reads(c, Values(g, k))) > k
         /\ Fits(c, g[k + 1], Reads(c, Values(g, k))[k + 1])
    /\ Len(Reads(c, Values(g, ReadOf(c, g)))) = ReadOf(c, g)
    /\ \A i \in 1 .. ReadOf(c, g) : Fits(c, g[i], Reads(c, Values(g, ReadOf(c, g)))[i])

----------------------------------------------------------------------------
(***************************************************************************)
(* The sequences they are made of.                                         *)
(***************************************************************************)
LEMMA SameTokens ==
    ASSUME NEW s \in Seq(AnyToken), NEW t \in Seq(AnyToken), Len(s) = Len(t),
           \A i \in 1 .. Len(s) : s[i] = t[i]
    PROVE  s = t
  BY SeqEqual

\* Sequences of the same length with the same members are the same.
LEMMA SameValues ==
    ASSUME NEW s \in Seq(Int), NEW t \in Seq(Int), Len(s) = Len(t),
           \A i \in 1 .. Len(s) : s[i] = t[i]
    PROVE  s = t
  BY SeqEqual

\* Puts fills every field in, with 0, and changes no other thing of it.
LEMMA PutsKeep ==
    ASSUME NEW s \in Seq(Field)
    PROVE  /\ Server!Puts(s) \in Seq(Filled) /\ Len(Server!Puts(s)) = Len(s)
           /\ \A i \in 1 .. Len(s) : /\ Server!Puts(s)[i] \in Filled
                                     /\ Is(Server!Puts(s)[i], s[i])
                                     /\ Server!Puts(s)[i].v = 0
<1>1. \A i \in 1 .. Len(s) : s[i] \in Field
  OBVIOUS
<1>2. Server!Puts(s) = [i \in 1 .. Len(s) |-> [k |-> s[i].k, f |-> s[i].f, v |-> 0]]
  BY DEF Server!Puts, Server!Put
<1>3. \A i \in 1 .. Len(s) : [k |-> s[i].k, f |-> s[i].f, v |-> 0] \in Filled
  BY <1>1 DEF Field, Filled
<1> QED
  BY <1>1, <1>2, <1>3 DEF Is, Field

\* A filled field on the wire is a token that keeps what it was made of.
LEMMA TokenTyped ==
    ASSUME NEW n \in Nat, NEW put \in Filled
    PROVE  /\ Token(n, put) \in AnyToken /\ Token(n, put).call = n
           /\ Token(n, put).k = put.k /\ Token(n, put).f = put.f /\ Token(n, put).v = put.v
  BY DEF Token, Filled, AnyToken, Value

\* What a call writes is one token for each field, in their order.
LEMMA OfKeeps ==
    ASSUME NEW n \in Nat, NEW g \in Seq(Filled)
    PROVE  /\ Of(n, g) \in Seq(AnyToken) /\ Len(Of(n, g)) = Len(g)
           /\ \A i \in 1 .. Len(g) : Of(n, g)[i] = Token(n, g[i])
<1>1. \A i \in 1 .. Len(g) : g[i] \in Filled
  OBVIOUS
<1>2. Of(n, g) = [i \in 1 .. Len(g) |-> Token(n, g[i])]
  BY DEF Of
<1>3. \A i \in 1 .. Len(g) : Token(n, g[i]) \in AnyToken
  BY <1>1, TokenTyped
<1> QED
  BY <1>2, <1>3

\* The values read so far, and what reading one more field does to them.
LEMMA ValuesKeep ==
    ASSUME NEW g \in Seq(Filled), NEW k \in 0 .. Len(g)
    PROVE  /\ Values(g, k) \in Seq(Int) /\ Len(Values(g, k)) = k
           /\ \A i \in 1 .. k : Values(g, k)[i] = g[i].v
           /\ Values(g, 0) = <<>>
           /\ k < Len(g) => Append(Values(g, k), g[k + 1].v) = Values(g, k + 1)
<1>1. \A i \in 1 .. Len(g) : g[i].v \in Int
  <2>1. \A i \in 1 .. Len(g) : g[i] \in Filled
    OBVIOUS
  <2>2. \A x \in Filled : x.v \in Int
    BY DEF Filled
  <2> QED
    BY <2>1, <2>2
<1>2. /\ Values(g, k) \in Seq(Int) /\ Len(Values(g, k)) = k
      /\ \A i \in 1 .. k : Values(g, k)[i] = g[i].v
  BY <1>1 DEF Values
<1>3. Values(g, 0) = <<>>
  BY DEF Values
<1>4. ASSUME k < Len(g)
      PROVE  Append(Values(g, k), g[k + 1].v) = Values(g, k + 1)
  <2>1. /\ Values(g, k + 1) \in Seq(Int) /\ Len(Values(g, k + 1)) = k + 1
        /\ \A i \in 1 .. k + 1 : Values(g, k + 1)[i] = g[i].v
    BY <1>1, <1>4 DEF Values
  <2>2. /\ Append(Values(g, k), g[k + 1].v) \in Seq(Int)
        /\ Len(Append(Values(g, k), g[k + 1].v)) = k + 1
        /\ \A i \in 1 .. k + 1 : Append(Values(g, k), g[k + 1].v)[i] = g[i].v
    BY <1>1, <1>2, <1>4
  <2> QED
    BY <2>1, <2>2, SameValues
<1> QED
  BY <1>2, <1>3, <1>4

\* What is left to read after k fields, and what reading the next one leaves.
LEMMA LeftKeeps ==
    ASSUME NEW n \in Nat, NEW g \in Seq(Filled), NEW k \in 0 .. Len(g)
    PROVE  /\ Left(n, g, k) \in Seq(AnyToken) /\ Len(Left(n, g, k)) = Len(g) - k
           /\ \A i \in 1 .. Len(g) - k : Left(n, g, k)[i] = Token(n, g[k + i])
           /\ Left(n, g, 0) = Of(n, g)
           /\ k < Len(g) => /\ Left(n, g, k) # <<>>
                            /\ Head(Left(n, g, k)) = Token(n, g[k + 1])
                            /\ Tail(Left(n, g, k)) = Left(n, g, k + 1)
           /\ k = Len(g) => Left(n, g, k) = <<>>
<1>1. \A i \in 1 .. Len(g) : Token(n, g[i]) \in AnyToken
  BY TokenTyped
<1>2. ASSUME NEW j \in 0 .. Len(g)
      PROVE  /\ Left(n, g, j) \in Seq(AnyToken) /\ Len(Left(n, g, j)) = Len(g) - j
             /\ \A i \in 1 .. Len(g) - j : Left(n, g, j)[i] = Token(n, g[j + i])
  BY <1>1 DEF Left
<1>3. Left(n, g, 0) = Of(n, g)
  BY <1>2, OfKeeps, SameTokens
<1>4. ASSUME k < Len(g)
      PROVE  /\ Left(n, g, k) # <<>>
             /\ Head(Left(n, g, k)) = Token(n, g[k + 1])
             /\ Tail(Left(n, g, k)) = Left(n, g, k + 1)
  <2> DEFINE rest == Left(n, g, k)
             next == Left(n, g, k + 1)
  <2>1. /\ rest \in Seq(AnyToken) /\ Len(rest) = Len(g) - k
        /\ \A i \in 1 .. Len(g) - k : rest[i] = Token(n, g[k + i])
    BY <1>2
  <2>2. /\ next \in Seq(AnyToken) /\ Len(next) = Len(g) - (k + 1)
        /\ \A i \in 1 .. Len(g) - (k + 1) : next[i] = Token(n, g[(k + 1) + i])
    <3>1. k + 1 \in 0 .. Len(g)
      BY <1>4
    <3> QED
      BY <1>2, <3>1
  <2> HIDE DEF rest, next
  <2>3. rest # <<>> /\ Head(rest) = Token(n, g[k + 1])
    BY <1>4, <2>1
  <2>4. /\ Tail(rest) \in Seq(AnyToken)
        /\ Len(Tail(rest)) = Len(g) - (k + 1)
        /\ \A i \in 1 .. Len(g) - (k + 1) : Tail(rest)[i] = rest[i + 1]
    BY <1>4, <2>3, <2>1
  <2>5. \A i \in 1 .. Len(g) - (k + 1) : i + 1 \in 1 .. Len(g) - k /\ k + (i + 1) = (k + 1) + i
    BY <1>4
  <2>6. \A i \in 1 .. Len(Tail(rest)) : Tail(rest)[i] = next[i]
    BY <2>4, <2>1, <2>2, <2>5
  <2>7. Tail(rest) = next
    BY <2>4, <2>2, <2>6, SameTokens
  <2> QED
    BY <2>3, <2>7 DEF rest, next
<1>5. k = Len(g) => Left(n, g, k) = <<>>
  BY <1>2
<1> QED
  BY <1>2, <1>3, <1>4, <1>5

(***************************************************************************)
(* Buffers: what is taken from one end and added to the other.             *)
(***************************************************************************)
LEMMA Joined ==
    ASSUME NEW s \in Seq(AnyToken), NEW t \in Seq(AnyToken)
    PROVE  /\ s \o t \in Seq(AnyToken) /\ <<>> \o t = t /\ s \o <<>> = s
           /\ s \o t = <<>> <=> s = <<>> /\ t = <<>>
           /\ \A u \in Seq(AnyToken) : (s \o t) \o u = s \o (t \o u)
           /\ <<>> \in Seq(AnyToken)
<1>1. s \o t \in Seq(AnyToken)
  BY ConcatProperties
<1>2. <<>> \o t = t /\ s \o <<>> = s
  BY ConcatEmptySeq
<1>3. s \o t = <<>> <=> s = <<>> /\ t = <<>>
  BY ConcatEqualIffEmpty
<1>4. \A u \in Seq(AnyToken) : (s \o t) \o u = s \o (t \o u)
  BY ConcatAssociative
<1>5. <<>> \in Seq(AnyToken)
  OBVIOUS
<1> QED
  BY <1>1, <1>2, <1>3, <1>4, <1>5

\* The first token of a sequence put together from one and the rest.
LEMMA FirstOf ==
    ASSUME NEW x \in AnyToken, NEW s \in Seq(AnyToken)
    PROVE  /\ <<x>> \o s \in Seq(AnyToken) /\ <<x>> \o s # <<>>
           /\ Head(<<x>> \o s) = x /\ Tail(<<x>> \o s) = s
           /\ <<x>> \in Seq(AnyToken)
<1>1. <<x>> \in Seq(AnyToken) /\ Len(<<x>>) = 1 /\ <<x>>[1] = x
  OBVIOUS
<1>2. /\ <<x>> \o s \in Seq(AnyToken) /\ Len(<<x>> \o s) = 1 + Len(s)
      /\ \A i \in 1 .. 1 + Len(s) : (<<x>> \o s)[i] = IF i <= 1 THEN <<x>>[i] ELSE s[i - 1]
  BY <1>1, ConcatProperties
<1> DEFINE c == <<x>> \o s
<1>3. /\ c \in Seq(AnyToken) /\ Len(c) = 1 + Len(s) /\ c[1] = x
      /\ \A i \in 1 .. Len(s) : c[i + 1] = s[i]
  BY <1>1, <1>2
<1> HIDE DEF c
<1>4. c # <<>> /\ Head(c) = x
  BY <1>3
<1>5. Tail(c) \in Seq(AnyToken) /\ Len(Tail(c)) = Len(s) /\ \A i \in 1 .. Len(s) : Tail(c)[i] = c[i + 1]
  BY <1>3, <1>4
<1>6. Tail(c) = s
  BY <1>3, <1>5, SameTokens
<1> QED
  BY <1>1, <1>3, <1>4, <1>6 DEF c

\* Reading from two buffers in a row reads from the first while it has any.
LEMMA ReadsFirst ==
    ASSUME NEW s \in Seq(AnyToken), NEW t \in Seq(AnyToken), s # <<>>
    PROVE  /\ s \o t # <<>> /\ Head(s \o t) = Head(s) /\ Tail(s \o t) = Tail(s) \o t
           /\ Tail(s) \in Seq(AnyToken) /\ Head(s) \in AnyToken
<1>1. Tail(s) \in Seq(AnyToken) /\ Head(s) \in AnyToken /\ s = <<Head(s)>> \o Tail(s)
  <2>1. Tail(s) \in Seq(AnyToken) /\ Head(s) \in AnyToken
    OBVIOUS
  <2>2. Len(s) \in 1 .. Len(s) /\ 1 \in 1 .. Len(s)
    OBVIOUS
  <2>3. SubSeq(s, 1, Len(s)) = <<s[1]>> \o SubSeq(s, 2, Len(s))
    BY <2>2, SubSeqRecursiveFirst
  <2>4. SubSeq(s, 1, Len(s)) = s /\ Tail(s) = SubSeq(s, 2, Len(s))
    BY SubSeqFull, TailIsSubSeq
  <2> QED
    BY <2>1, <2>3, <2>4
<1>2. <<Head(s)>> \in Seq(AnyToken)
  BY <1>1
<1>3. s \o t = <<Head(s)>> \o (Tail(s) \o t)
  BY <1>1, <1>2, ConcatAssociative
<1>4. Tail(s) \o t \in Seq(AnyToken)
  BY <1>1, Joined
<1> QED
  BY <1>1, <1>3, <1>4, FirstOf

\* recv takes some of the bytes and leaves the rest, in their order.
LEMMA RecvKeeps ==
    ASSUME NEW s \in Seq(AnyToken), NEW k \in 1 .. Len(s)
    PROVE  /\ Taken(s, k) \in Seq(AnyToken) /\ Rest(s, k) \in Seq(AnyToken)
           /\ Taken(s, k) # <<>> /\ Taken(s, k) \o Rest(s, k) = s
<1>1. Len(s) \in Nat /\ \A i \in 1 .. Len(s) : s[i] \in AnyToken
  OBVIOUS
<1>2. Taken(s, k) \in Seq(AnyToken) /\ Len(Taken(s, k)) = k
  BY <1>1, SubSeqProperties DEF Taken
<1>3. Rest(s, k) \in Seq(AnyToken)
  BY <1>1, SubSeqProperties DEF Rest
<1>4. SubSeq(s, 1, k) \o SubSeq(s, k + 1, Len(s)) = SubSeq(s, 1, Len(s))
  <2>1. 1 \in 1 .. Len(s) + 1 /\ k \in 1 - 1 .. Len(s) /\ Len(s) \in k .. Len(s)
    BY <1>1
  <2> QED
    BY <2>1, ConcatAdjacentSubSeq
<1>5. SubSeq(s, 1, Len(s)) = s
  BY SubSeqFull
<1>6. Taken(s, k) # <<>>
  BY <1>2
<1>7. Taken(s, k) \o Rest(s, k) = s
  BY <1>4, <1>5 DEF Taken, Rest
<1> QED
  BY <1>2, <1>3, <1>6, <1>7

(***************************************************************************)
(* Requests, answers and the contents of files, and what is left of them   *)
(* when their first token has been read.                                   *)
(***************************************************************************)
LEMMA FirstAsked ==
    ASSUME NEW n \in Nat, NEW fields \in Seq(Field)
    PROVE  /\ Asks(n, fields) \in Seq(AnyToken) /\ Len(Asks(n, fields)) = Len(fields)
           /\ fields = <<>> <=> Asks(n, fields) = <<>>
           /\ fields # <<>> =>
                /\ Asks(n, fields) # <<>> /\ Tail(fields) \in Seq(Field)
                /\ Tail(Asks(n, fields)) = Asks(n, Tail(fields))
                /\ Head(Asks(n, fields)).call = n
                /\ Is(Head(Asks(n, fields)), fields[1])
<1>1. ASSUME NEW s \in Seq(Field)
      PROVE  /\ Asks(n, s) \in Seq(AnyToken) /\ Len(Asks(n, s)) = Len(s)
             /\ \A i \in 1 .. Len(s) : /\ Asks(n, s)[i] = Token(n, Server!Put(s[i], 0))
                                       /\ Is(Asks(n, s)[i], s[i]) /\ Asks(n, s)[i].call = n
  <2>1. /\ Server!Puts(s) \in Seq(Filled) /\ Len(Server!Puts(s)) = Len(s)
        /\ \A i \in 1 .. Len(s) : Is(Server!Puts(s)[i], s[i]) /\ Server!Puts(s)[i] \in Filled
    BY PutsKeep
  <2>2. /\ Asks(n, s) \in Seq(AnyToken) /\ Len(Asks(n, s)) = Len(s)
        /\ \A i \in 1 .. Len(s) : Asks(n, s)[i] = Token(n, Server!Puts(s)[i])
    BY <2>1, OfKeeps DEF Asks
  <2>3. \A i \in 1 .. Len(s) : Server!Puts(s)[i] = Server!Put(s[i], 0)
    BY DEF Server!Puts
  <2>4. ASSUME NEW i \in 1 .. Len(s)
        PROVE  Is(Asks(n, s)[i], s[i]) /\ Asks(n, s)[i].call = n
    BY <2>1, <2>2, TokenTyped DEF Is
  <2> QED
    BY <2>2, <2>3, <2>4
<1>2. ASSUME fields # <<>>
      PROVE  /\ Asks(n, fields) # <<>> /\ Tail(fields) \in Seq(Field)
             /\ Tail(Asks(n, fields)) = Asks(n, Tail(fields))
             /\ Head(Asks(n, fields)).call = n
             /\ Is(Head(Asks(n, fields)), fields[1])
  <2> DEFINE a == Asks(n, fields)
             b == Asks(n, Tail(fields))
  <2>1. /\ Tail(fields) \in Seq(Field) /\ Len(Tail(fields)) = Len(fields) - 1
        /\ \A i \in 1 .. Len(fields) - 1 : Tail(fields)[i] = fields[i + 1]
        /\ Len(fields) \in Nat /\ Len(fields) # 0
    BY <1>2
  <2>2. /\ a \in Seq(AnyToken) /\ Len(a) = Len(fields)
        /\ \A i \in 1 .. Len(fields) : /\ a[i] = Token(n, Server!Put(fields[i], 0))
                                       /\ Is(a[i], fields[i]) /\ a[i].call = n
    BY <1>1
  <2>3. /\ b \in Seq(AnyToken) /\ Len(b) = Len(fields) - 1
        /\ \A i \in 1 .. Len(fields) - 1 : b[i] = Token(n, Server!Put(Tail(fields)[i], 0))
    BY <1>1, <2>1
  <2> HIDE DEF a, b
  <2>4. a # <<>> /\ Head(a) = a[1]
    BY <2>1, <2>2
  <2>5. /\ Tail(a) \in Seq(AnyToken) /\ Len(Tail(a)) = Len(fields) - 1
        /\ \A i \in 1 .. Len(fields) - 1 : Tail(a)[i] = a[i + 1]
    BY <2>1, <2>2, <2>4
  <2>6. \A i \in 1 .. Len(fields) - 1 : Tail(a)[i] = b[i]
    BY <2>1, <2>2, <2>3, <2>5
  <2>7. Tail(a) = b
    BY <2>3, <2>5, <2>6, SameTokens
  <2> QED
    BY <2>1, <2>2, <2>4, <2>7 DEF a, b
<1> QED
  BY <1>1, <1>2

\* put4_cur puts one integer.
LEMMA PutTyped ==
    ASSUME NEW f \in Names, NEW v \in Int
    PROVE  /\ [k |-> "int", f |-> f, v |-> v] \in Filled
           /\ Server!put4(f, v) = <<[k |-> "int", f |-> f, v |-> v]>>
<1>1. [k |-> "int", f |-> f, v |-> v] \in Filled
  BY DEF Filled, Kinds
<1> QED
  BY <1>1 DEF Server!put4, Server!Put, Server!INT

\* The pieces of a file and the mark of its end are tokens.
LEMMA PieceTyped ==
    ASSUME NEW n \in Nat
    PROVE  /\ Piece(n, "file", 0) \in AnyToken /\ Piece(n, "file", 1) \in AnyToken
           /\ Piece(n, "eof", 0) \in AnyToken
<1>1. 0 \in Value /\ 1 \in Value
  BY DEF Value
<1>2. "contents" \in Names
  BY DEF Names
<1> QED
  BY <1>1, <1>2 DEF Piece, AnyToken, Kinds

\* An integer on its way.
IntToken(n, f, v) == [call |-> n, k |-> "int", f |-> f, v |-> v]

\* The first token of an answer that begins with an integer.
LEMMA FirstGiven ==
    ASSUME NEW n \in Nat, NEW f \in Names, NEW v \in Int, NEW r \in Seq(Filled)
    PROVE  /\ Of(n, Server!put4(f, v) \o r) \in Seq(AnyToken)
           /\ Of(n, Server!put4(f, v) \o r) # <<>>
           /\ Head(Of(n, Server!put4(f, v) \o r)) = IntToken(n, f, v)
           /\ Tail(Of(n, Server!put4(f, v) \o r)) = Of(n, r)
<1> DEFINE p == [k |-> "int", f |-> f, v |-> v]
           g == Server!put4(f, v) \o r
<1>1. Server!put4(f, v) = <<p>> /\ p \in Filled
  BY PutTyped
<1>2. <<p>> \in Seq(Filled) /\ Len(<<p>>) = 1 /\ <<p>>[1] = p
  BY <1>1
<1>3. /\ g \in Seq(Filled) /\ Len(g) = 1 + Len(r)
      /\ \A i \in 1 .. 1 + Len(r) : g[i] = IF i <= 1 THEN <<p>>[i] ELSE r[i - 1]
  BY <1>1, <1>2, ConcatProperties
<1>4. /\ Of(n, r) \in Seq(AnyToken) /\ Len(Of(n, r)) = Len(r)
      /\ \A i \in 1 .. Len(r) : Of(n, r)[i] = Token(n, r[i])
  BY OfKeeps
<1>5. /\ Of(n, g) \in Seq(AnyToken) /\ Len(Of(n, g)) = 1 + Len(r)
      /\ \A i \in 1 .. 1 + Len(r) : Of(n, g)[i] = Token(n, g[i])
  <2> HIDE DEF g
  <2> QED
    BY <1>3, OfKeeps
<1>6. g[1] = p /\ \A i \in 1 .. Len(r) : g[i + 1] = r[i]
  BY <1>2, <1>3
<1> HIDE DEF g
<1>7. Of(n, g) # <<>> /\ Head(Of(n, g)) = Token(n, p)
  BY <1>5, <1>6
<1>8. /\ Tail(Of(n, g)) \in Seq(AnyToken) /\ Len(Tail(Of(n, g))) = Len(r)
      /\ \A i \in 1 .. Len(r) : Tail(Of(n, g))[i] = Of(n, g)[i + 1]
  BY <1>5, <1>7
<1>9. \A i \in 1 .. Len(r) : Tail(Of(n, g))[i] = Of(n, r)[i]
  BY <1>4, <1>5, <1>6, <1>8
<1>10. Tail(Of(n, g)) = Of(n, r)
  BY <1>4, <1>8, <1>9, SameTokens
<1> QED
  BY <1>1, <1>2, <1>3, <1>5, <1>7, <1>10 DEF g, Token, IntToken

\* The first token of a file on its way: a piece of it, or its end.
LEMMA FirstOfStream ==
    ASSUME NEW n \in Nat, NEW len \in Nat, NEW rest \in Seq(AnyToken)
    PROVE  /\ FileStream(n, len) \in Seq(AnyToken) /\ FileStream(n, len) \o rest # <<>>
           /\ len > 0 =>
                /\ Head(FileStream(n, len) \o rest)
                     = Piece(n, "file", IF len = 1 THEN 1 ELSE 0)
                /\ Tail(FileStream(n, len) \o rest) = FileStream(n, len - 1) \o rest
           /\ len = 0 =>
                /\ Head(FileStream(n, len) \o rest) = Piece(n, "eof", 0)
                /\ Tail(FileStream(n, len) \o rest) = rest
<1> DEFINE end == <<Piece(n, "eof", 0)>>
<1>1. /\ Piece(n, "file", 0) \in AnyToken /\ Piece(n, "file", 1) \in AnyToken
      /\ Piece(n, "eof", 0) \in AnyToken
  BY PieceTyped
<1>2. end \in Seq(AnyToken) /\ <<>> \in Seq(AnyToken)
  BY <1>1
<1>3. ASSUME NEW m \in Nat
      PROVE  /\ Contents(n, m) \in Seq(AnyToken) /\ Len(Contents(n, m)) = m
             /\ \A i \in 1 .. m : Contents(n, m)[i] = Piece(n, "file", IF i = m THEN 1 ELSE 0)
  BY <1>1 DEF Contents
<1>4. FileStream(n, len) \in Seq(AnyToken)
  BY <1>2, <1>3, Joined DEF FileStream
<1>5. CASE len > 0
  <2> DEFINE a == Contents(n, len)
             b == Contents(n, len - 1)
  <2>1. /\ a \in Seq(AnyToken) /\ Len(a) = len
        /\ \A i \in 1 .. len : a[i] = Piece(n, "file", IF i = len THEN 1 ELSE 0)
    BY <1>3
  <2>2. /\ b \in Seq(AnyToken) /\ Len(b) = len - 1
        /\ \A i \in 1 .. len - 1 : b[i] = Piece(n, "file", IF i = len - 1 THEN 1 ELSE 0)
    BY <1>3, <1>5
  <2> HIDE DEF a, b
  <2>3. a # <<>> /\ Head(a) = Piece(n, "file", IF len = 1 THEN 1 ELSE 0)
    BY <1>5, <2>1
  <2>4. /\ Tail(a) \in Seq(AnyToken) /\ Len(Tail(a)) = len - 1
        /\ \A i \in 1 .. len - 1 : Tail(a)[i] = a[i + 1]
    BY <1>5, <2>1, <2>3
  <2>5. \A i \in 1 .. len - 1 : Tail(a)[i] = b[i]
    BY <1>5, <2>1, <2>2, <2>4
  <2>6. Tail(a) = b
    BY <2>2, <2>4, <2>5, SameTokens
  <2>7. FileStream(n, len) = a \o end /\ FileStream(n, len - 1) = b \o end
    BY DEF FileStream, a, b
  <2> HIDE DEF end
  <2>8. a \o end # <<>> /\ Head(a \o end) = Head(a) /\ Tail(a \o end) = b \o end
    BY <1>2, <2>1, <2>3, <2>6, ReadsFirst
  <2>9. FileStream(n, len) # <<>> /\ Head(FileStream(n, len)) = Head(a)
        /\ Tail(FileStream(n, len)) = FileStream(n, len - 1)
    BY <2>7, <2>8
  <2>10. /\ FileStream(n, len) \o rest # <<>>
         /\ Head(FileStream(n, len) \o rest) = Head(a)
         /\ Tail(FileStream(n, len) \o rest) = FileStream(n, len - 1) \o rest
    <3> DEFINE s == FileStream(n, len)
    <3>1. s \in Seq(AnyToken) /\ s # <<>> /\ Tail(s) = FileStream(n, len - 1)
      BY <1>4, <2>9
    <3> HIDE DEF s
    <3>2. s \o rest # <<>> /\ Head(s \o rest) = Head(s) /\ Tail(s \o rest) = Tail(s) \o rest
      BY <3>1, ReadsFirst
    <3> QED
      BY <2>9, <3>1, <3>2 DEF s
  <2> QED
    <3>1. len # 0
      BY <1>5
    <3>2. Head(FileStream(n, len) \o rest) = Piece(n, "file", IF len = 1 THEN 1 ELSE 0)
      BY <2>3, <2>10
    <3> QED
      BY <1>4, <2>10, <3>1, <3>2
<1>6. CASE len = 0
  <2>1. Contents(n, len) = <<>>
    BY <1>3, <1>6
  <2>2. FileStream(n, len) = end
    BY <1>2, <2>1, Joined DEF FileStream
  <2>3. /\ end \o rest # <<>> /\ Head(end \o rest) = Piece(n, "eof", 0)
        /\ Tail(end \o rest) = rest
    BY <1>1, FirstOf
  <2> HIDE DEF end
  <2> QED
    BY <1>4, <1>6, <2>2, <2>3
<1> QED
  <2>1. len > 0 \/ len = 0
    OBVIOUS
  <2> HIDE DEF end
  <2> QED
    BY <1>5, <1>6, <2>1

----------------------------------------------------------------------------
(***************************************************************************)
(* An answer and the fields it is read as.                                 *)
(***************************************************************************)
Matches(g, fields) ==
    /\ g \in Seq(Filled) /\ fields \in Seq(Field) /\ Len(fields) = Len(g)
    /\ \A i \in 1 .. Len(g) : Is(g[i], fields[i])

\* An integer is read as the integer it is.
LEMMA PutMatches ==
    ASSUME NEW f \in Names, NEW v \in Int
    PROVE  /\ Matches(Server!put4(f, v), <<INT(f)>>)
           /\ Len(Server!put4(f, v)) = 1 /\ Server!put4(f, v)[1].v = v
           /\ Len(<<INT(f)>>) = 1 /\ <<INT(f)>>[1] = INT(f)
<1> DEFINE p == [k |-> "int", f |-> f, v |-> v]
           d == INT(f)
<1>1. Server!put4(f, v) = <<p>> /\ p \in Filled /\ Is(p, d) /\ p.v = v
  BY PutTyped DEF Is, INT
<1>2. d \in Field
  BY DEF INT, Field, Kinds
<1> HIDE DEF p, d
<1>3. <<p>> \in Seq(Filled) /\ Len(<<p>>) = 1 /\ <<p>>[1] = p
  BY <1>1
<1>4. <<d>> \in Seq(Field) /\ Len(<<d>>) = 1 /\ <<d>>[1] = d
  BY <1>2
<1>5. \A i \in 1 .. 1 : Is(<<p>>[i], <<d>>[i])
  BY <1>1, <1>3, <1>4
<1>6. Matches(<<p>>, <<d>>)
  BY <1>3, <1>4, <1>5 DEF Matches
<1> QED
  BY <1>1, <1>3, <1>4, <1>6 DEF d

\* Fields that are filled in are read as what they are.
LEMMA PutsMatch ==
    ASSUME NEW s \in Seq(Field)
    PROVE  Matches(Server!Puts(s), s)
  BY PutsKeep DEF Matches

\* Answers read as they are given stay so when one follows the other.
LEMMA MatchJoined ==
    ASSUME NEW g, NEW h, NEW s, NEW t, Matches(g, s), Matches(h, t)
    PROVE  /\ Matches(g \o h, s \o t) /\ Len(g \o h) = Len(g) + Len(h)
           /\ \A i \in 1 .. Len(g) : (g \o h)[i] = g[i] /\ (s \o t)[i] = s[i]
           /\ \A i \in 1 .. Len(h) : (g \o h)[Len(g) + i] = h[i] /\ (s \o t)[Len(g) + i] = t[i]
<1>1. /\ g \in Seq(Filled) /\ h \in Seq(Filled) /\ s \in Seq(Field) /\ t \in Seq(Field)
      /\ Len(s) = Len(g) /\ Len(t) = Len(h) /\ Len(g) \in Nat /\ Len(h) \in Nat
      /\ \A i \in 1 .. Len(g) : Is(g[i], s[i])
      /\ \A i \in 1 .. Len(h) : Is(h[i], t[i])
  BY DEF Matches
<1>2. /\ g \o h \in Seq(Filled) /\ Len(g \o h) = Len(g) + Len(h)
      /\ \A i \in 1 .. Len(g) + Len(h) :
            (g \o h)[i] = IF i <= Len(g) THEN g[i] ELSE h[i - Len(g)]
  BY <1>1, ConcatProperties
<1>3. /\ s \o t \in Seq(Field) /\ Len(s \o t) = Len(s) + Len(t)
      /\ \A i \in 1 .. Len(s) + Len(t) :
            (s \o t)[i] = IF i <= Len(s) THEN s[i] ELSE t[i - Len(s)]
  BY <1>1, ConcatProperties
<1>4. \A i \in 1 .. Len(g) : (g \o h)[i] = g[i] /\ (s \o t)[i] = s[i]
  BY <1>1, <1>2, <1>3
<1>5. ASSUME NEW i \in 1 .. Len(h)
      PROVE  (g \o h)[Len(g) + i] = h[i] /\ (s \o t)[Len(g) + i] = t[i]
  <2>1. Len(g) + i \in 1 .. Len(g) + Len(h) /\ ~(Len(g) + i <= Len(g)) /\ (Len(g) + i) - Len(g) = i
    BY <1>1
  <2> QED
    BY <1>1, <1>2, <1>3, <2>1
<1>6. ASSUME NEW i \in 1 .. Len(g) + Len(h)
      PROVE  Is((g \o h)[i], (s \o t)[i])
  <2>1. CASE i <= Len(g)
    BY <1>1, <1>4, <2>1
  <2>2. CASE ~(i <= Len(g))
    <3>1. i - Len(g) \in 1 .. Len(h)
      BY <1>1, <2>2
    <3>2. Is(h[i - Len(g)], t[i - Len(g)])
      BY <1>1, <3>1
    <3> QED
      BY <1>1, <1>2, <1>3, <2>2, <3>2
  <2> QED
    BY <2>1, <2>2
<1>7. Matches(g \o h, s \o t)
  BY <1>1, <1>2, <1>3, <1>6 DEF Matches
<1> QED
  BY <1>2, <1>4, <1>5, <1>7

(***************************************************************************)
(* What a js_* function reads, in general.                                 *)
(*                                                                         *)
(* If the fields of the answer are known once the first m values have been *)
(* read, and before that as far as the function has come, they agree.      *)
(***************************************************************************)
LEMMA KnownAfter ==
    ASSUME NEW c, c # "JS_DISCONNECT", NEW g, NEW fields, Matches(g, fields),
           NEW m \in 1 .. Len(g),
           \A k \in 0 .. m - 1 : /\ Len(Reads(c, Values(g, k))) > k
                                 /\ Reads(c, Values(g, k))[k + 1] = fields[k + 1],
           \A k \in m .. Len(g) : Reads(c, Values(g, k)) = fields
    PROVE  Agrees(c, g)
<1>1. /\ ReadOf(c, g) = Len(g) /\ Len(g) \in Nat /\ Len(g) > 0 /\ Len(fields) = Len(g)
      /\ \A i \in 1 .. Len(g) : Is(g[i], fields[i])
  BY DEF ReadOf, Matches
<1>2. ASSUME NEW k \in 0 .. Len(g) - 1
      PROVE  /\ Len(Reads(c, Values(g, k))) > k
             /\ Fits(c, g[k + 1], Reads(c, Values(g, k))[k + 1])
  <2>1. k + 1 \in 1 .. Len(g) /\ Is(g[k + 1], fields[k + 1])
    BY <1>1
  <2>2. k \in 0 .. m - 1 \/ k \in m .. Len(g)
    BY <1>1
  <2>3. Len(Reads(c, Values(g, k))) > k /\ Reads(c, Values(g, k))[k + 1] = fields[k + 1]
    BY <1>1, <2>2
  <2> QED
    BY <2>1, <2>3 DEF Fits
<1>3. Reads(c, Values(g, Len(g))) = fields
  BY <1>1
<1>4. \A i \in 1 .. Len(g) : Fits(c, g[i], Reads(c, Values(g, Len(g)))[i])
  BY <1>1, <1>3 DEF Fits
<1> QED
  BY <1>1, <1>2, <1>3, <1>4 DEF Agrees

\* All fields are known once the first value is.
LEMMA KnownFromFirst ==
    ASSUME NEW c, c # "JS_DISCONNECT", NEW g, NEW fields, Matches(g, fields), Len(g) > 0,
           Len(Reads(c, <<>>)) > 0, Reads(c, <<>>)[1] = fields[1],
           \A a \in Seq(Int) : Len(a) > 0 /\ a[1] = g[1].v => Reads(c, a) = fields
    PROVE  Agrees(c, g)
<1>1. g \in Seq(Filled) /\ Len(g) \in Nat /\ 1 \in 1 .. Len(g)
  BY DEF Matches
<1>2. \A k \in 0 .. 1 - 1 : /\ Len(Reads(c, Values(g, k))) > k
                            /\ Reads(c, Values(g, k))[k + 1] = fields[k + 1]
  BY <1>1, ValuesKeep
<1>3. ASSUME NEW k \in 1 .. Len(g)
      PROVE  Reads(c, Values(g, k)) = fields
  <2>1. k \in 0 .. Len(g) /\ 1 \in 1 .. k
    BY <1>1
  <2>2. Values(g, k) \in Seq(Int) /\ Len(Values(g, k)) > 0 /\ Values(g, k)[1] = g[1].v
    BY <1>1, <2>1, ValuesKeep
  <2> QED
    BY <2>2
<1> QED
  BY <1>1, <1>2, <1>3, KnownAfter

(***************************************************************************)
(* One field, or a field that tells a refusal from what follows.           *)
(***************************************************************************)
LEMMA OneFieldAgrees ==
    ASSUME NEW c, c # "JS_DISCONNECT", NEW f \in Names, NEW v \in Int,
           \A a \in Seq(Int) : Reads(c, a) = <<INT(f)>>
    PROVE  Agrees(c, Server!put4(f, v))
<1> DEFINE g == Server!put4(f, v)
           fields == <<INT(f)>>
<1>1. Matches(g, fields) /\ Len(g) > 0 /\ Len(fields) > 0
  BY PutMatches
<1>2. <<>> \in Seq(Int)
  OBVIOUS
<1>3. Reads(c, <<>>) = fields
  BY <1>2
<1> HIDE DEF g, fields
<1>4. Len(Reads(c, <<>>)) > 0 /\ Reads(c, <<>>)[1] = fields[1]
  BY <1>1, <1>3
<1>5. \A a \in Seq(Int) : Reads(c, a) = fields
  BY DEF fields
<1> QED
  BY <1>1, <1>4, <1>5, KnownFromFirst DEF g

\* if (x == -1) return get4com: what is read before and after the first value.
LEMMA CheckedReads ==
    ASSUME NEW a \in Seq(Int), NEW f, NEW rest
    PROVE  /\ Len(a) = 0 => Client!checked(a, f, rest) = <<INT(f)>> \o rest
           /\ Len(a) > 0 /\ a[1] # -1 => Client!checked(a, f, rest) = <<INT(f)>> \o rest
           /\ Len(a) > 0 /\ a[1] = -1 => Client!checked(a, f, rest) = <<INT(f)>> \o <<INT("errno")>>
  BY DEF Client!checked, Client!Val, Client!INT, INT

\* The field that comes first.
LEMMA FirstField ==
    ASSUME NEW f \in Names, NEW rest \in Seq(Field)
    PROVE  Len(<<INT(f)>> \o rest) > 0 /\ (<<INT(f)>> \o rest)[1] = INT(f)
<1>1. 0 \in Int
  OBVIOUS
<1>2. <<INT(f)>> \in Seq(Field) /\ Len(<<INT(f)>>) = 1 /\ <<INT(f)>>[1] = INT(f)
  BY <1>1, PutMatches DEF Matches
<1> DEFINE s == <<INT(f)>>
<1>3. s \in Seq(Field) /\ Len(s) = 1 /\ s[1] = INT(f)
  BY <1>2
<1> HIDE DEF s
<1>4. /\ Len(s \o rest) = Len(s) + Len(rest)
      /\ \A i \in 1 .. Len(s) + Len(rest) :
            (s \o rest)[i] = IF i <= Len(s) THEN s[i] ELSE rest[i - Len(s)]
  BY <1>3, ConcatProperties
<1>5. Len(rest) \in Nat
  OBVIOUS
<1>6. Len(s \o rest) > 0 /\ (s \o rest)[1] = s[1]
  BY <1>3, <1>4, <1>5
<1> QED
  BY <1>3, <1>6 DEF s

\* A refusal is two fields.
LEMMA RefusalAgrees ==
    ASSUME NEW c, c # "JS_DISCONNECT", NEW f \in Names,
           Len(Reads(c, <<>>)) > 0, Reads(c, <<>>)[1] = INT(f),
           \A a \in Seq(Int) :
              Len(a) > 0 /\ a[1] = -1 => Reads(c, a) = <<INT(f)>> \o <<INT("errno")>>
    PROVE  Server!error_ret(f) \in Seq(Filled) /\ Agrees(c, Server!error_ret(f))
<1> DEFINE g == Server!error_ret(f)
           fields == <<INT(f)>> \o <<INT("errno")>>
           first == Server!put4(f, -1)
           second == Server!put4("errno", 1)
<1>1. "errno" \in Names /\ -1 \in Int /\ 1 \in Int
  BY DEF Names
<1>2. /\ Matches(first, <<INT(f)>>) /\ Len(first) = 1 /\ first[1].v = -1
      /\ Matches(second, <<INT("errno")>>) /\ Len(second) = 1
      /\ <<INT("errno")>> \in Seq(Field)
  BY <1>1, PutMatches DEF Matches
<1> HIDE DEF first, second
<1>3. /\ Matches(first \o second, fields) /\ Len(first \o second) = 2
      /\ (first \o second)[1] = first[1]
  <2> DEFINE s == <<INT(f)>>
             t == <<INT("errno")>>
  <2>1. Matches(first, s) /\ Matches(second, t)
    BY <1>2
  <2> HIDE DEF s, t
  <2>2. /\ Matches(first \o second, s \o t) /\ Len(first \o second) = Len(first) + Len(second)
        /\ \A i \in 1 .. Len(first) : (first \o second)[i] = first[i]
    BY <2>1, MatchJoined
  <2> QED
    BY <1>2, <2>2 DEF s, t
<1>4. g = first \o second
  BY DEF Server!error_ret, first, second
<1>5. Matches(g, fields) /\ Len(g) > 0 /\ g[1].v = -1 /\ fields[1] = INT(f)
  BY <1>2, <1>3, <1>4, FirstField
<1>6. \A a \in Seq(Int) : Len(a) > 0 /\ a[1] = g[1].v => Reads(c, a) = fields
  BY <1>5
<1> HIDE DEF g, fields
<1>7. Len(Reads(c, <<>>)) > 0 /\ Reads(c, <<>>)[1] = fields[1]
  BY <1>5
<1>8. Agrees(c, g)
  BY <1>5, <1>6, <1>7, KnownFromFirst
<1> QED
  BY <1>5, <1>8 DEF g, Matches

\* What follows the value of a command that was executed.
LEMMA AcceptedAgrees ==
    ASSUME NEW c, c # "JS_DISCONNECT", NEW f \in Names, NEW v \in Int, NEW r, NEW rest,
           Matches(r, rest),
           Len(Reads(c, <<>>)) > 0, Reads(c, <<>>)[1] = INT(f),
           \A a \in Seq(Int) : Len(a) > 0 /\ a[1] = v => Reads(c, a) = <<INT(f)>> \o rest
    PROVE  Server!put4(f, v) \o r \in Seq(Filled) /\ Agrees(c, Server!put4(f, v) \o r)
<1> DEFINE g == Server!put4(f, v) \o r
           fields == <<INT(f)>> \o rest
           first == Server!put4(f, v)
<1>1. Matches(first, <<INT(f)>>) /\ Len(first) = 1 /\ first[1].v = v
  BY PutMatches
<1> HIDE DEF first
<1>2. Matches(first \o r, fields) /\ Len(first \o r) > 0 /\ (first \o r)[1] = first[1]
  <2>1. r \in Seq(Filled) /\ Len(r) \in Nat
    BY DEF Matches
  <2> QED
    BY <1>1, <2>1, MatchJoined
<1>3. Matches(g, fields) /\ Len(g) > 0 /\ g[1].v = v
  BY <1>1, <1>2 DEF first
<1>4. fields[1] = INT(f)
  BY FirstField DEF Matches
<1> HIDE DEF g
<1>5. \A a \in Seq(Int) : Len(a) > 0 /\ a[1] = g[1].v => Reads(c, a) = fields
  BY <1>3
<1> HIDE DEF fields
<1>6. Len(Reads(c, <<>>)) > 0 /\ Reads(c, <<>>)[1] = fields[1]
  BY <1>4
<1>7. Agrees(c, g)
  BY <1>3, <1>5, <1>6, KnownFromFirst
<1> QED
  BY <1>3, <1>7 DEF g, Matches

(***************************************************************************)
(* A command is right if the server takes what the client asks, and in     *)
(* every course gives what the client reads.  FirstRead is where the       *)
(* client waits for the first answer.                                      *)
(***************************************************************************)
Asked(c) ==
    CASE c = "JS_FILE_SEND" -> <<INT("env")>> \o FileUniq
      [] c = "JS_FILE_RECEIVE" -> Ints(<<"env", "fid">>)
      [] OTHER -> Client!Js(c, <<>>).asks
FirstRead(c) ==
    CASE c = "JS_FILE_SEND" -> "loaded"
      [] c = "JS_FILE_RECEIVE" -> "name"
      [] OTHER -> "answer"

Right(c) ==
    /\ Asked(c) \in Seq(Field)
    /\ \A course \in Server!Table[c] :
         course.takes = Asked(c) /\ course.gives \in Seq(Filled) /\ Agrees(c, course.gives)

\* A refusal agrees with a checked read, and so does every other first value.
LEMMA CheckedAgrees ==
    ASSUME NEW c, c # "JS_DISCONNECT", NEW f \in Names, NEW rest \in Seq(Field),
           \A a \in Seq(Int) : Reads(c, a) = Client!checked(a, f, rest)
    PROVE  /\ Server!error_ret(f) \in Seq(Filled) /\ Agrees(c, Server!error_ret(f))
           /\ \A v \in Int \ {-1} : \A r : Matches(r, rest) =>
                /\ Server!put4(f, v) \o r \in Seq(Filled)
                /\ Agrees(c, Server!put4(f, v) \o r)
<1>1. Len(Reads(c, <<>>)) > 0 /\ Reads(c, <<>>)[1] = INT(f)
  <2>1. <<>> \in Seq(Int) /\ Len(<<>>) = 0
    OBVIOUS
  <2>2. Reads(c, <<>>) = <<INT(f)>> \o rest
    BY <2>1, CheckedReads
  <2> QED
    BY <2>2, FirstField
<1>2. Server!error_ret(f) \in Seq(Filled) /\ Agrees(c, Server!error_ret(f))
  <2>1. \A a \in Seq(Int) :
          Len(a) > 0 /\ a[1] = -1 => Reads(c, a) = <<INT(f)>> \o <<INT("errno")>>
    BY CheckedReads
  <2> QED
    BY <1>1, <2>1, RefusalAgrees
<1>3. ASSUME NEW v \in Int \ {-1}, NEW r, Matches(r, rest)
      PROVE  Server!put4(f, v) \o r \in Seq(Filled) /\ Agrees(c, Server!put4(f, v) \o r)
  <2>1. \A a \in Seq(Int) : Len(a) > 0 /\ a[1] = v => Reads(c, a) = <<INT(f)>> \o rest
    BY <1>3, CheckedReads
  <2> QED
    BY <1>1, <1>3, <2>1, AcceptedAgrees
<1> QED
  BY <1>2, <1>3

(***************************************************************************)
(* Commands that are executed or refused.                                  *)
(***************************************************************************)
IsEither(c, takes, f, rest) ==
    /\ c \in CommandNames \ Transfers /\ f \in Names
    /\ takes \in Seq(Field) /\ rest \in Seq(Field)
    /\ Server!Table[c] \subseteq Server!Either(takes, f, rest)
    /\ \A a : Client!Js(c, a) = Client!Call(takes, Client!checked(a, f, rest))

\* The pattern of a command that is executed or refused makes it right.
LEMMA EitherRight ==
    ASSUME NEW c, c # "JS_DISCONNECT", NEW takes, NEW f, NEW rest, IsEither(c, takes, f, rest)
    PROVE  Right(c)
<1>1. /\ c \in CommandNames \ Transfers /\ f \in Names
      /\ takes \in Seq(Field) /\ rest \in Seq(Field)
      /\ Server!Table[c] \subseteq Server!Either(takes, f, rest)
      /\ Asked(c) = takes
  BY DEF IsEither, Asked, Transfers, Client!Call
<1>2. \A a \in Seq(Int) : Reads(c, a) = Client!checked(a, f, rest)
  BY <1>1 DEF Reads, IsEither, Client!Call
<1>3. \A course \in Server!Table[c] :
        /\ course.takes = takes
        /\ course.gives \in {Server!error_ret(f), Server!put4(f, 0) \o Server!Puts(rest)}
  BY <1>1 DEF Server!Either, Server!Courses
<1>4. Matches(Server!Puts(rest), rest) /\ 0 \in Int \ {-1}
  BY <1>1, PutsMatch
<1>5. Server!error_ret(f) \in Seq(Filled) /\ Agrees(c, Server!error_ret(f))
  BY <1>1, <1>2, CheckedAgrees
<1>6. /\ Server!put4(f, 0) \o Server!Puts(rest) \in Seq(Filled)
      /\ Agrees(c, Server!put4(f, 0) \o Server!Puts(rest))
  BY <1>1, <1>2, <1>4, CheckedAgrees
<1> QED
  BY <1>1, <1>3, <1>5, <1>6 DEF Right

\* The commands of that pattern.
LEMMA EitherCommands ==
    \A c \in {"JS_OPEN", "JS_PARAM_SET", "JS_MKDIR", "JS_HINDO_FILE_CREATE",
            "JS_DIC_FILE_CREATE", "JS_FILE_DISCARD", "JS_FILE_REMOVE",
            "JS_FILE_COMMENT_SET", "JS_FILE_PASSWORD_SET", "JS_DIC_DELETE", "JS_DIC_USE",
            "JS_FUZOKUGO_SET", "JS_WORD_ADD", "JS_WORD_DELETE", "JS_WORD_COMMENT_SET",
            "JS_HINDO_SET", "JS_HINSI_TABLE_SET", "JS_CONNECT", "JS_FILE_INFO",
            "JS_HINDO_FILE_CREATE_CLIENT", "JS_FILE_READ", "JS_FILE_WRITE", "JS_DIC_ADD",
            "JS_FUZOKUGO_GET", "JS_DIC_INFO", "JS_HINSI_NUMBER", "JS_PARAM_GET", "JS_CLOSE"} : Right(c)
<1> USE DEF IsEither, CommandNames, Transfers, Field, Kinds, Names,
            Server!Table, Server!Done, Server!envhandle, Client!Js, Client!env_head, Client!status,
            INT, Str, Text, Bytes, Ints, Params, FileUniq, Server!INT, Server!Str, Server!Text,
            Server!Bytes, Server!Ints, Server!Params, Server!FileUniq, Client!INT, Client!Str,
            Client!Text, Client!Bytes, Client!Ints, Client!Params, Client!FileUniq
<1>1. IsEither("JS_OPEN", <<INT("version"), Str("host"), Str("user")>>, "status", <<>>)
  BY DEF Server!js_open, Client!js_open_lang
<1>2. IsEither("JS_PARAM_SET", <<INT("env")>> \o Params, "status", <<>>)
  BY DEF Server!js_param_set, Client!js_param_set
<1>3. IsEither("JS_MKDIR", <<INT("env")>> \o <<Str("path")>>, "status", <<>>)
  BY DEF Server!js_mkdir, Client!js_mkdir
<1>4. IsEither("JS_HINDO_FILE_CREATE", <<INT("env")>> \o <<INT("fid"), Str("path"), Text("comment"), Str("hpasswd")>>,
               "status", <<>>)
  BY DEF Server!js_hindo_file_create, Client!js_hindo_file_create
<1>5. IsEither("JS_DIC_FILE_CREATE", <<INT("env")>> \o <<Str("path"), Text("comment"), Str("passwd"), Str("hpasswd"), INT("type")>>,
               "status", <<>>)
  BY DEF Server!js_dic_file_create, Client!js_dic_file_create
<1>6. IsEither("JS_FILE_DISCARD", <<INT("env")>> \o <<INT("fid")>>, "status", <<>>)
  BY DEF Server!js_file_discard, Client!js_file_discard
<1>7. IsEither("JS_FILE_REMOVE", <<Str("path"), Str("passwd")>>, "status", <<>>)
  BY DEF Server!js_file_remove, Client!js_file_remove
<1>8. IsEither("JS_FILE_COMMENT_SET", <<INT("env")>> \o <<INT("fid"), Text("comment")>>,
               "status", <<>>)
  BY DEF Server!js_file_comment_set, Client!js_file_comment_set
<1>9. IsEither("JS_FILE_PASSWORD_SET", <<INT("env")>> \o <<INT("fid"), INT("which"), Str("old"), Str("new")>>,
               "status", <<>>)
  BY DEF Server!js_file_password_set, Client!js_file_password_set
<1>10. IsEither("JS_DIC_DELETE", <<INT("env")>> \o <<INT("dic_no")>>, "status", <<>>)
  BY DEF Server!js_dic_delete, Client!js_dic_delete
<1>11. IsEither("JS_DIC_USE", <<INT("env")>> \o <<INT("dic_no"), INT("enablef")>>, "status", <<>>)
  BY DEF Server!js_dic_use, Client!js_dic_use
<1>12. IsEither("JS_FUZOKUGO_SET", <<INT("env")>> \o <<INT("fid")>>, "status", <<>>)
  BY DEF Server!js_fuzokugo_set, Client!js_fuzokugo_set
<1>13. IsEither("JS_WORD_ADD", <<INT("env")>> \o <<INT("dic_no"), Text("yomi"), Text("kanji"), Text("comment"), INT("hinsi"), INT("hindo")>>,
               "status", <<>>)
  BY DEF Server!js_word_add, Client!js_word_add
<1>14. IsEither("JS_WORD_DELETE", <<INT("env")>> \o Ints(<<"dic_no", "entry">>), "status", <<>>)
  BY DEF Server!js_word_delete, Client!js_word_delete
<1>15. IsEither("JS_WORD_COMMENT_SET", <<INT("env")>> \o <<INT("dic_no"), INT("entry"), Text("comment")>>,
               "status", <<>>)
  BY DEF Server!js_word_comment_set, Client!js_word_comment_set
<1>16. IsEither("JS_HINDO_SET", <<INT("env")>> \o Ints(<<"dic_no", "entry", "ima", "hindo">>),
               "status", <<>>)
  BY DEF Server!js_hindo_set, Client!js_hindo_set
<1>17. IsEither("JS_HINSI_TABLE_SET", <<INT("env")>> \o <<INT("dic_no"), Text("hinsi_table")>>,
               "status", <<>>)
  BY DEF Server!js_hinsi_table_set, Client!js_hinsi_table_set
<1>18. IsEither("JS_CONNECT", <<Str("env_name")>>, "env", <<>>)
  BY DEF Server!js_connect, Client!js_connect_lang
<1>19. IsEither("JS_FILE_INFO", <<INT("env")>> \o <<INT("fid")>>,
               "status", <<Str("name")>> \o Ints(<<"localf", "ref_count", "type">>))
  BY DEF Server!js_file_info, Client!js_file_info
<1>20. IsEither("JS_HINDO_FILE_CREATE_CLIENT", <<INT("env")>> \o <<INT("fid")>>,
               "status", <<INT("serial")>> \o FileUniq)
  BY DEF Server!js_hindo_file_create_client, Client!js_hindo_file_create_client
<1>21. IsEither("JS_FILE_READ", <<INT("env")>> \o <<Str("path")>>, "fid", <<>>)
  BY DEF Server!js_file_read, Client!js_file_read
<1>22. IsEither("JS_FILE_WRITE", <<INT("env")>> \o <<INT("fid"), Str("path")>>, "fid", <<>>)
  BY DEF Server!js_file_write, Client!js_file_write
<1>23. IsEither("JS_DIC_ADD", <<INT("env")>> \o (Ints(<<"fid", "hfid", "nice", "rw", "hrw">>)
                             \o <<Str("passwd"), Str("hpasswd"), INT("rev")>>), "dic_no", <<>>)
  BY DEF Server!js_dic_add, Client!js_dic_add
<1>24. IsEither("JS_FUZOKUGO_GET", <<INT("env")>> \o <<>>, "fid", <<>>)
  BY DEF Server!js_fuzokugo_get, Client!js_fuzokugo_get
<1>25. IsEither("JS_DIC_INFO", <<INT("env")>> \o <<INT("dic_no")>>, "status", Client!get_dic_info)
  BY DEF Server!js_dic_info, Client!js_dic_info, Client!get_dic_info, Server!put_dic_info
<1>26. IsEither("JS_HINSI_NUMBER", <<Text("hinsi_name")>>, "hinsi", <<>>)
  BY DEF Server!js_hinsi_number, Client!js_hinsi_number
<1>27. IsEither("JS_PARAM_GET", <<INT("env")>> \o <<>>, "status", Params)
  BY DEF Server!js_param_get, Client!js_param_get, Server!Either, Server!Courses
<1>28. IsEither("JS_CLOSE", <<>>, "status", <<>>)
  BY DEF Server!js_close, Client!js_close, Server!Either, Server!Courses, Server!Puts
<1> HIDE DEF IsEither, CommandNames, Transfers, Field, Kinds, Names,
            Server!Table, Server!Done, Server!envhandle, Client!Js, Client!env_head, Client!status,
            INT, Str, Text, Bytes, Ints, Params, FileUniq, Server!INT, Server!Str, Server!Text,
            Server!Bytes, Server!Ints, Server!Params, Server!FileUniq, Client!INT, Client!Str,
            Client!Text, Client!Bytes, Client!Ints, Client!Params, Client!FileUniq
<1>29. \A c, takes, f, rest : IsEither(c, takes, f, rest) /\ c # "JS_DISCONNECT" => Right(c)
  BY EitherRight
<1> QED
  BY <1>1, <1>2, <1>3, <1>4, <1>5, <1>6, <1>7, <1>8, <1>9, <1>10, <1>11, <1>12, <1>13,
     <1>14, <1>15, <1>16, <1>17, <1>18, <1>19, <1>20, <1>21, <1>22, <1>23, <1>24, <1>25, <1>26,
     <1>27, <1>28, <1>29

(***************************************************************************)
(* Commands answered by one number.                                        *)
(***************************************************************************)
IsOne(c, takes, f) ==
    /\ c \in CommandNames \ Transfers /\ f \in Names /\ takes \in Seq(Field)
    /\ \A course \in Server!Table[c] :
         course.takes = takes /\ \E v \in Int : course.gives = Server!put4(f, v)
    /\ \A a : Client!Js(c, a) = Client!Call(takes, <<INT(f)>>)

\* The pattern of a command answered by one number makes it right.
LEMMA OneRight ==
    ASSUME NEW c, c # "JS_DISCONNECT", NEW takes, NEW f, IsOne(c, takes, f)
    PROVE  Right(c)
<1>1. /\ c \in CommandNames \ Transfers /\ f \in Names /\ takes \in Seq(Field)
      /\ Asked(c) = takes
  BY DEF IsOne, Asked, Transfers, Client!Call
<1>2. \A a \in Seq(Int) : Reads(c, a) = <<INT(f)>>
  BY <1>1 DEF Reads, IsOne, Client!Call
<1>3. ASSUME NEW course \in Server!Table[c]
      PROVE  /\ course.takes = takes /\ course.gives \in Seq(Filled)
             /\ Agrees(c, course.gives)
  <2>1. PICK v \in Int : course.takes = takes /\ course.gives = Server!put4(f, v)
    BY DEF IsOne
  <2>2. Server!put4(f, v) \in Seq(Filled)
    BY <1>1, PutMatches DEF Matches
  <2>3. Agrees(c, Server!put4(f, v))
    BY <1>1, <1>2, OneFieldAgrees
  <2> QED
    BY <2>1, <2>2, <2>3
<1> QED
  BY <1>1, <1>3 DEF Right

\* The commands of that pattern.
LEMMA OneFieldCommands ==
    \A c \in {"JS_VERSION", "JS_KILL", "JS_ENV_EXIST", "JS_ENV_STICKY", "JS_ENV_UN_STICKY",
              "JS_ACCESS", "JS_FILE_STAT", "JS_FILE_LOADED", "JS_FILE_LOADED_LOCAL"} : Right(c)
<1> USE DEF IsOne, CommandNames, Transfers, Field, Kinds, Names, Server!Table, Server!Courses,
            Server!envhandle, Client!Js, Client!env_head, INT, Str, Bytes, Ints, FileUniq,
            Server!INT, Server!Str, Server!Bytes, Server!Ints, Server!FileUniq,
            Client!INT, Client!Str, Client!Bytes, Client!Ints, Client!FileUniq
<1>1. IsOne("JS_VERSION", <<>>, "version")
  BY DEF Server!js_version, Client!js_version
<1>2. IsOne("JS_KILL", <<>>, "clients")
  BY DEF Server!js_kill, Client!js_kill
<1>3. IsOne("JS_ENV_EXIST", <<Str("env_name")>>, "exist")
  BY DEF Server!js_env_exist, Client!js_env_exist
<1>4. IsOne("JS_ENV_STICKY", <<INT("env")>> \o <<>>, "status")
  BY DEF Server!js_env_sticky, Client!js_env_sticky
<1>5. IsOne("JS_ENV_UN_STICKY", <<INT("env")>> \o <<>>, "status")
  BY DEF Server!js_env_un_sticky, Client!js_env_un_sticky
<1>6. IsOne("JS_ACCESS", <<INT("env")>> \o <<INT("amode"), Str("path")>>, "access")
  BY DEF Server!js_access, Client!js_access
<1>7. IsOne("JS_FILE_STAT", <<INT("env")>> \o <<Str("path")>>, "stat")
  BY DEF Server!js_file_stat, Client!js_file_stat
<1>8. IsOne("JS_FILE_LOADED", <<Str("path")>>, "loaded")
  BY DEF Server!js_file_loaded, Client!js_file_loaded
<1>9. IsOne("JS_FILE_LOADED_LOCAL", FileUniq, "loaded")
  <2>1. FileUniq \in Seq(Field)
    OBVIOUS
  <2>2. /\ "JS_FILE_LOADED_LOCAL" \in CommandNames \ Transfers /\ "loaded" \in Names
        /\ \A course \in Server!Table["JS_FILE_LOADED_LOCAL"] :
             course.takes = FileUniq /\ \E v \in Int : course.gives = Server!put4("loaded", v)
    BY DEF Server!js_file_loaded_local
  <2>3. \A a : Client!Js("JS_FILE_LOADED_LOCAL", a) = Client!Call(FileUniq, <<INT("loaded")>>)
    BY DEF Client!js_file_loaded_local
  <2> QED
    BY <2>1, <2>2, <2>3
<1> HIDE DEF IsOne, CommandNames, Transfers, Field, Kinds, Names, Server!Table, Server!Courses,
            Server!envhandle, Client!Js, Client!env_head, INT, Str, Bytes, Ints, FileUniq,
            Server!INT, Server!Str, Server!Bytes, Server!Ints, Server!FileUniq,
            Client!INT, Client!Str, Client!Bytes, Client!Ints, Client!FileUniq
<1>10. \A c, takes, f : IsOne(c, takes, f) /\ c # "JS_DISCONNECT" => Right(c)
  BY OneRight
<1> QED
  BY <1>1, <1>2, <1>3, <1>4, <1>5, <1>6, <1>7, <1>8, <1>9, <1>10

(***************************************************************************)
(* Lists.                                                                  *)
(***************************************************************************)
LEMMA TimesMatch ==
    ASSUME NEW n \in Nat, NEW g, NEW fields, Matches(g, fields), Len(g) > 0
    PROVE  /\ Matches(Server!Times(n, g), Client!Times(n, fields))
           /\ Len(Server!Times(n, g)) = n * Len(g)
           /\ \A i \in 1 .. n * Len(g) :
                /\ 1 + ((i - 1) % Len(g)) \in 1 .. Len(g)
                /\ Server!Times(n, g)[i] = g[1 + ((i - 1) % Len(g))]
                /\ Client!Times(n, fields)[i] = fields[1 + ((i - 1) % Len(g))]
<1> DEFINE L == Len(g)
<1>1. /\ L \in Nat \ {0} /\ Len(fields) = L /\ Len(g) = L
      /\ \A i \in 1 .. L : g[i] \in Filled /\ fields[i] \in Field /\ Is(g[i], fields[i])
  BY DEF Matches
<1>2. /\ Server!Times(n, g) = [i \in 1 .. n * L |-> g[1 + ((i - 1) % L)]]
      /\ Client!Times(n, fields) = [i \in 1 .. n * L |-> fields[1 + ((i - 1) % L)]]
  BY <1>1 DEF Server!Times, Client!Times
<1> HIDE DEF L
<1>3. n * L \in Nat
  BY <1>1
<1>4. \A i \in 1 .. n * L : 1 + ((i - 1) % L) \in 1 .. L
  BY <1>1, <1>3
<1> DEFINE m == n * L
           at(i) == 1 + ((i - 1) % L)
<1>5. /\ m \in Nat /\ \A i \in 1 .. m : at(i) \in 1 .. L
      /\ Server!Times(n, g) = [i \in 1 .. m |-> g[at(i)]]
      /\ Client!Times(n, fields) = [i \in 1 .. m |-> fields[at(i)]]
  BY <1>2, <1>3, <1>4
<1> HIDE DEF m, at
<1>6. /\ Server!Times(n, g) \in Seq(Filled) /\ Len(Server!Times(n, g)) = m
      /\ \A i \in 1 .. m : Server!Times(n, g)[i] = g[at(i)]
  BY <1>1, <1>5
<1>7. /\ Client!Times(n, fields) \in Seq(Field) /\ Len(Client!Times(n, fields)) = m
      /\ \A i \in 1 .. m : Client!Times(n, fields)[i] = fields[at(i)]
  BY <1>1, <1>5
<1>8. \A i \in 1 .. m : Is(Server!Times(n, g)[i], Client!Times(n, fields)[i])
  BY <1>1, <1>5, <1>6, <1>7
<1>9. Matches(Server!Times(n, g), Client!Times(n, fields))
  BY <1>6, <1>7, <1>8 DEF Matches
<1> QED
  BY <1>1, <1>5, <1>6, <1>7, <1>9 DEF m, at

\* The fields of n items are fields, the same on both sides.
LEMMA TimesTyped ==
    ASSUME NEW n \in Nat, NEW s \in Seq(Field), Len(s) > 0
    PROVE  /\ Client!Times(n, s) \in Seq(Field) /\ Server!Times(n, s) = Client!Times(n, s)
           /\ Len(Client!Times(n, s)) = n * Len(s)
<1>1. Matches(Server!Puts(s), s) /\ Len(Server!Puts(s)) = Len(s)
  BY PutsMatch, PutsKeep
<1>2. /\ Matches(Server!Times(n, Server!Puts(s)), Client!Times(n, s))
      /\ Len(Server!Times(n, Server!Puts(s))) = n * Len(s)
  BY <1>1, TimesMatch
<1>3. Server!Times(n, s) = Client!Times(n, s)
  BY DEF Server!Times, Client!Times
<1> QED
  BY <1>2, <1>3 DEF Matches

\* The first value of an answer, 0 before it has been read.
LEMMA Values1 ==
    /\ <<>> \in Seq(Int) /\ Len(<<>>) = 0 /\ Client!Val(<<>>, 1) = 0
    /\ \A a \in Seq(Int) : Len(a) > 0 => Client!Val(a, 1) = a[1]
  BY DEF Client!Val

\* The list that the count announces.
LEMMA ListAgrees ==
    ASSUME NEW c, c # "JS_DISCONNECT", NEW item \in Seq(Field), Len(item) > 0, NEW n \in Nat,
           \/ \A a \in Seq(Int) : Reads(c, a) = Client!counted(a, item)
           \/ \A a \in Seq(Int) :
                Reads(c, a) = Client!checked(a, "count", Client!Times(Client!Val(a, 1), item))
    PROVE  LET g == Server!put4("count", n) \o Server!Puts(Server!Times(n, item))
           IN  g \in Seq(Filled) /\ Agrees(c, g)
<1>1. "count" \in Names
  BY DEF Names
<1> DEFINE rest == Client!Times(n, item)
           r == Server!Puts(Server!Times(n, item))
<1>2. Matches(r, rest)
  BY TimesTyped, PutsMatch
<1>3. ASSUME NEW a \in Seq(Int), Client!Val(a, 1) # -1
      PROVE  Reads(c, a) = <<INT("count")>> \o Client!Times(Client!Val(a, 1), item)
  <2>1. Client!counted(a, item) = <<INT("count")>> \o Client!Times(Client!Val(a, 1), item)
    BY DEF Client!counted, Client!INT, INT
  <2>2. Client!checked(a, "count", Client!Times(Client!Val(a, 1), item))
          = <<INT("count")>> \o Client!Times(Client!Val(a, 1), item)
    BY <1>3 DEF Client!checked, Client!INT, INT
  <2> QED
    BY <2>1, <2>2
<1>4. Len(Reads(c, <<>>)) > 0 /\ Reads(c, <<>>)[1] = INT("count")
  <2>1. <<>> \in Seq(Int) /\ Client!Val(<<>>, 1) = 0
    BY Values1
  <2>2. Client!Times(0, item) \in Seq(Field)
    BY TimesTyped
  <2>3. Reads(c, <<>>) = <<INT("count")>> \o Client!Times(0, item)
    <3>1. Client!Val(<<>>, 1) # -1
      BY <2>1
    <3> QED
      BY <1>3, <2>1, <3>1
  <2> QED
    BY <1>1, <2>2, <2>3, FirstField
<1>5. \A a \in Seq(Int) : Len(a) > 0 /\ a[1] = n => Reads(c, a) = <<INT("count")>> \o rest
  BY <1>3, Values1
<1> HIDE DEF r, rest
<1>6. /\ Server!put4("count", n) \o r \in Seq(Filled)
      /\ Agrees(c, Server!put4("count", n) \o r)
  BY <1>1, <1>2, <1>4, <1>5, AcceptedAgrees
<1> QED
  BY <1>6 DEF r

IsList(c, takes, item) ==
    /\ c \in CommandNames \ Transfers /\ takes \in Seq(Field)
    /\ item \in Seq(Field) /\ Len(item) > 0
    /\ \/ /\ Server!Table[c] = Server!Listed(takes, item)
          /\ \A a : Client!Js(c, a) = Client!Call(takes, Client!counted(a, item))
       \/ /\ Server!Table[c] \subseteq
               Server!Listed(takes, item) \cup Server!Courses(takes, {Server!error_ret("count")})
          /\ \A a : Client!Js(c, a)
                      = Client!Call(takes, Client!checked(a, "count",
                                                          Client!Times(Client!Val(a, 1), item)))

\* The pattern of a command answered by a list makes it right.
LEMMA ListRight ==
    ASSUME NEW c, c # "JS_DISCONNECT", NEW takes, NEW item, IsList(c, takes, item)
    PROVE  Right(c)
<1>1. /\ c \in CommandNames \ Transfers /\ takes \in Seq(Field)
      /\ item \in Seq(Field) /\ Len(item) > 0 /\ Asked(c) = takes
  BY DEF IsList, Asked, Transfers, Client!Call
<1>2. ASSUME NEW course \in Server!Listed(takes, item)
      PROVE  /\ course.takes = takes
             /\ \E n \in Nat :
                  course.gives = Server!put4("count", n) \o Server!Puts(Server!Times(n, item))
  <2>1. MaxItems \in Nat
    BY BoundsAssumption
  <2>2. PICK n \in 0 .. MaxItems :
          course = [takes |-> takes,
                    gives |-> Server!put4("count", n) \o Server!Puts(Server!Times(n, item))]
    BY DEF Server!Listed, Server!Courses
  <2> QED
    BY <2>1, <2>2
<1>3. \/ \A a \in Seq(Int) : Reads(c, a) = Client!counted(a, item)
      \/ \A a \in Seq(Int) :
           Reads(c, a) = Client!checked(a, "count", Client!Times(Client!Val(a, 1), item))
  BY <1>1 DEF IsList, Reads, Client!Call
<1>4. ASSUME NEW course \in Server!Listed(takes, item)
      PROVE  /\ course.takes = takes /\ course.gives \in Seq(Filled)
             /\ Agrees(c, course.gives)
  <2>1. PICK n \in Nat :
          course.gives = Server!put4("count", n) \o Server!Puts(Server!Times(n, item))
    BY <1>2
  <2>2. /\ Server!put4("count", n) \o Server!Puts(Server!Times(n, item)) \in Seq(Filled)
        /\ Agrees(c, Server!put4("count", n) \o Server!Puts(Server!Times(n, item)))
    BY <1>1, <1>3, ListAgrees
  <2> QED
    BY <1>2, <2>1, <2>2
<1>5. CASE Server!Table[c] = Server!Listed(takes, item)
  BY <1>1, <1>4, <1>5 DEF Right
<1>6. CASE Server!Table[c] # Server!Listed(takes, item)
  <2>1. Server!Table[c] \subseteq
          Server!Listed(takes, item) \cup Server!Courses(takes, {Server!error_ret("count")})
    BY <1>6 DEF IsList
  <2>2. \A a \in Seq(Int) :
          Reads(c, a) = Client!checked(a, "count", Client!Times(Client!Val(a, 1), item))
    BY <1>1, <1>6 DEF IsList, Reads, Client!Call
  <2>3. ASSUME NEW course \in Server!Courses(takes, {Server!error_ret("count")})
        PROVE  course.takes = takes /\ course.gives = Server!error_ret("count")
    BY DEF Server!Courses
  <2>4. Server!error_ret("count") \in Seq(Filled) /\ Agrees(c, Server!error_ret("count"))
    <3>1. <<>> \in Seq(Int) /\ Client!Val(<<>>, 1) = 0
      BY Values1
    <3>2. Client!Times(0, item) \in Seq(Field) /\ "count" \in Names
      BY <1>1, TimesTyped DEF Names
    <3>3. Reads(c, <<>>) = <<INT("count")>> \o Client!Times(0, item)
      <4>1. Len(<<>>) = 0 /\ Reads(c, <<>>) = Client!checked(<<>>, "count", Client!Times(0, item))
        BY <2>2, <3>1
      <4> QED
        BY <3>1, <4>1, CheckedReads
    <3>4. Len(Reads(c, <<>>)) > 0 /\ Reads(c, <<>>)[1] = INT("count")
      BY <3>2, <3>3, FirstField
    <3>5. \A a \in Seq(Int) :
            Len(a) > 0 /\ a[1] = -1 => Reads(c, a) = <<INT("count")>> \o <<INT("errno")>>
      BY <2>2, CheckedReads
    <3> QED
      BY <3>2, <3>4, <3>5, RefusalAgrees
  <2> QED
    BY <1>1, <1>4, <2>1, <2>3, <2>4 DEF Right
<1> QED
  BY <1>5, <1>6

\* The commands of that pattern.
LEMMA ListCommands ==
    \A c \in {"JS_FILE_LIST_ALL", "JS_FILE_LIST", "JS_DIC_LIST_ALL", "JS_DIC_LIST",
              "JS_HINSI_DICTS"} : Right(c)
<1> USE DEF IsList, CommandNames, Transfers, Field, Kinds, Names, Server!Table,
            Server!envhandle, Client!Js, Client!env_head, INT, Str, Text, Ints,
            Server!INT, Server!Str, Server!Text, Server!Ints,
            Client!INT, Client!Str, Client!Text, Client!Ints
<1>1. IsList("JS_FILE_LIST_ALL", <<>>, Server!FileItem)
  BY DEF Server!js_file_list_all, Client!js_file_list_all, Server!FileItem, Client!rcv_file_list
<1>2. IsList("JS_FILE_LIST", <<INT("env")>> \o <<>>, Server!FileItem)
  BY DEF Server!js_file_list, Client!js_file_list, Server!FileItem, Client!rcv_file_list
<1>3. IsList("JS_DIC_LIST_ALL", <<>>, Server!put_dic_info)
  BY DEF Server!js_dic_list_all, Client!js_dic_list_all, Server!put_dic_info, Client!get_dic_info
<1>4. IsList("JS_DIC_LIST", <<INT("env")>> \o <<>>, Server!put_dic_info)
  BY DEF Server!js_dic_list, Client!js_dic_list, Server!put_dic_info, Client!get_dic_info
<1>5. IsList("JS_HINSI_DICTS", <<INT("env")>> \o <<INT("hinsi")>>, <<INT("dic_no")>>)
  BY DEF Server!js_hinsi_dicts, Client!js_hinsi_dicts
<1> HIDE DEF IsList, CommandNames, Transfers, Field, Kinds, Names, Server!Table,
            Server!envhandle, Client!Js, Client!env_head, INT, Str, Text, Ints,
            Server!INT, Server!Str, Server!Text, Server!Ints,
            Client!INT, Client!Str, Client!Text, Client!Ints
<1>6. \A c, takes, item : IsList(c, takes, item) /\ c # "JS_DISCONNECT" => Right(c)
  BY ListRight
<1> QED
  BY <1>1, <1>2, <1>3, <1>4, <1>5, <1>6

(***************************************************************************)
(* Users and environments, each with what it holds.                        *)
(***************************************************************************)
LEMMA HolderCommands == Right("JS_WHO") /\ Right("JS_ENV_LIST")
<1> DEFINE Of1(n, f) == Client!Times(n, <<INT(f)>>)
           user == <<INT("sd"), Str("user"), Str("host")>> \o Of1(MaxEnvOfClient, "env")
           head == <<INT("env"), Str("env_name"), INT("ref_count"), INT("fid"), INT("jishomax")>>
           entry == head \o Of1(MaxJishoOfEnv, "dic_no") \o Of1(MaxFileOfEnv, "fid")
<1>1. MaxEnvOfClient \in Nat /\ MaxJishoOfEnv \in Nat /\ MaxFileOfEnv \in Nat
  BY BoundsAssumption
<1>2. \A n \in Nat, f \in {"env", "dic_no", "fid"} :
        /\ Of1(n, f) \in Seq(Field) /\ Server!Times(n, <<Server!INT(f)>>) = Of1(n, f)
        /\ Client!Times(n, <<Client!INT(f)>>) = Of1(n, f)
  <2> SUFFICES ASSUME NEW n \in Nat, NEW f \in {"env", "dic_no", "fid"}
               PROVE  /\ Of1(n, f) \in Seq(Field) /\ Server!Times(n, <<Server!INT(f)>>) = Of1(n, f)
                      /\ Client!Times(n, <<Client!INT(f)>>) = Of1(n, f)
    OBVIOUS
  <2>1. f \in Names /\ 0 \in Int
    BY DEF Names
  <2>2. <<INT(f)>> \in Seq(Field) /\ Len(<<INT(f)>>) = 1
    BY <2>1, PutMatches DEF Matches
  <2>3. Server!INT(f) = INT(f) /\ Client!INT(f) = INT(f)
    BY DEF Server!INT, Client!INT, INT
  <2> DEFINE s == <<INT(f)>>
  <2>4. s \in Seq(Field) /\ Len(s) > 0
    BY <2>2
  <2> HIDE DEF s, Of1
  <2>5. Client!Times(n, s) \in Seq(Field) /\ Server!Times(n, s) = Client!Times(n, s)
    BY <2>4, TimesTyped
  <2> QED
    BY <2>3, <2>5 DEF s, Of1
<1>3. /\ <<INT("sd"), Str("user"), Str("host")>> \in Seq(Field)
      /\ Len(<<INT("sd"), Str("user"), Str("host")>>) = 3
      /\ head \in Seq(Field) /\ Len(head) = 5
  BY DEF INT, Str, Field, Kinds, Names
<1>4. IsList("JS_WHO", <<>>, user)
  <2>1. /\ Of1(MaxEnvOfClient, "env") \in Seq(Field)
        /\ Server!Times(MaxEnvOfClient, <<Server!INT("env")>>) = Of1(MaxEnvOfClient, "env")
        /\ Client!Times(MaxEnvOfClient, <<Client!INT("env")>>) = Of1(MaxEnvOfClient, "env")
    BY <1>1, <1>2
  <2>2. Server!Table["JS_WHO"] = Server!Listed(<<>>, user)
    BY <2>1 DEF Server!Table, Server!js_who, Server!INT, Server!Str, INT, Str
  <2>3. \A a : Client!Js("JS_WHO", a)
                 = Client!Call(<<>>, Client!checked(a, "count", Client!Times(Client!Val(a, 1), user)))
    BY <2>1 DEF Client!Js, Client!js_who, Client!INT, Client!Str, INT, Str
  <2>4. user \in Seq(Field) /\ Len(user) > 0
    BY <1>3, <2>1, ConcatProperties
  <2>5. "JS_WHO" \in CommandNames \ Transfers /\ <<>> \in Seq(Field)
    BY DEF CommandNames, Transfers, Server!Table
  <2> HIDE DEF user
  <2> QED
    BY <2>2, <2>3, <2>4, <2>5 DEF IsList
<1>5. IsList("JS_ENV_LIST", <<>>, entry)
  <2>1. /\ Of1(MaxJishoOfEnv, "dic_no") \in Seq(Field)
        /\ Server!Times(MaxJishoOfEnv, <<Server!INT("dic_no")>>) = Of1(MaxJishoOfEnv, "dic_no")
        /\ Client!Times(MaxJishoOfEnv, <<Client!INT("dic_no")>>) = Of1(MaxJishoOfEnv, "dic_no")
        /\ Of1(MaxFileOfEnv, "fid") \in Seq(Field)
        /\ Server!Times(MaxFileOfEnv, <<Server!INT("fid")>>) = Of1(MaxFileOfEnv, "fid")
        /\ Client!Times(MaxFileOfEnv, <<Client!INT("fid")>>) = Of1(MaxFileOfEnv, "fid")
    BY <1>1, <1>2
  <2>2. Server!Table["JS_ENV_LIST"] = Server!Listed(<<>>, entry)
    BY <2>1 DEF Server!Table, Server!js_env_list, Server!INT, Server!Str, INT, Str
  <2>3. \A a : Client!Js("JS_ENV_LIST", a)
                 = Client!Call(<<>>, Client!checked(a, "count", Client!Times(Client!Val(a, 1), entry)))
    BY <2>1 DEF Client!Js, Client!js_env_list, Client!INT, Client!Str, INT, Str
  <2>4. entry \in Seq(Field) /\ Len(entry) > 0
    <3>1. head \o Of1(MaxJishoOfEnv, "dic_no") \in Seq(Field)
          /\ Len(head \o Of1(MaxJishoOfEnv, "dic_no")) > 0
      BY <1>3, <2>1, ConcatProperties
    <3> QED
      BY <2>1, <3>1, ConcatProperties
  <2>5. "JS_ENV_LIST" \in CommandNames \ Transfers /\ <<>> \in Seq(Field)
    BY DEF CommandNames, Transfers, Server!Table
  <2> HIDE DEF entry
  <2> QED
    BY <2>2, <2>3, <2>4, <2>5 DEF IsList
<1> HIDE DEF user, entry
<1> QED
  BY <1>4, <1>5, ListRight

(***************************************************************************)
(* Names of word classes.                                                  *)
(***************************************************************************)
LEMMA TextMatches ==
    ASSUME NEW f \in Names, NEW v \in Int
    PROVE  /\ Matches(<<Server!Put(Server!Text(f), v)>>, <<Text(f)>>)
           /\ Len(<<Server!Put(Server!Text(f), v)>>) = 1
<1> DEFINE p == Server!Put(Server!Text(f), v)
           d == Text(f)
<1>1. p \in Filled /\ d \in Field /\ Is(p, d)
  BY DEF Server!Put, Server!Text, Text, Is, Filled, Field, Kinds
<1> HIDE DEF p, d
<1>2. /\ <<p>> \in Seq(Filled) /\ <<d>> \in Seq(Field) /\ Len(<<p>>) = 1 /\ Len(<<d>>) = 1
      /\ <<p>>[1] = p /\ <<d>>[1] = d
  BY <1>1
<1>3. \A i \in 1 .. Len(<<p>>) : Is(<<p>>[i], <<d>>[i])
  BY <1>1, <1>2
<1>4. Matches(<<p>>, <<d>>) /\ Len(<<p>>) = 1
  BY <1>2, <1>3 DEF Matches
<1> QED
  BY <1>4 DEF p, d

\* js_hinsi_name: the name of one class.
LEMMA HinsiName == Right("JS_HINSI_NAME")
<1> DEFINE c == "JS_HINSI_NAME"
           rest == <<Text("hinsi_name")>>
           r == <<Server!Put(Server!Text("hinsi_name"), 2)>>
<1>1. /\ c \in CommandNames \ Transfers /\ "size" \in Names /\ "hinsi_name" \in Names
      /\ c # "JS_DISCONNECT"
  BY DEF CommandNames, Transfers, Server!Table, Names
<1>2. Matches(r, rest) /\ rest \in Seq(Field)
  BY <1>1, TextMatches DEF Matches
<1>3. \A a : Client!Js(c, a) = Client!Call(<<INT("hinsi")>>, Client!checked(a, "size", rest))
  BY DEF Client!Js, Client!js_hinsi_name, Client!INT, Client!Text, INT, Text
<1>4. <<INT("hinsi")>> \in Seq(Field)
  BY DEF INT, Field, Kinds, Names
<1>5. \A course \in Server!Table[c] :
        /\ course.takes = <<INT("hinsi")>>
        /\ course.gives \in {Server!error_ret("size"), Server!put4("size", 2) \o r}
  BY DEF Server!Table, Server!js_hinsi_name, Server!Courses, Server!INT, INT
<1> HIDE DEF r, rest
<1>6. \A a \in Seq(Int) : Reads(c, a) = Client!checked(a, "size", rest)
  BY <1>1, <1>3 DEF Reads, Client!Call
<1>7. Asked(c) = <<INT("hinsi")>>
  BY <1>3 DEF Asked, Client!Call
<1> HIDE DEF c
<1>8. /\ Server!error_ret("size") \in Seq(Filled) /\ Agrees(c, Server!error_ret("size"))
      /\ Server!put4("size", 2) \o r \in Seq(Filled) /\ Agrees(c, Server!put4("size", 2) \o r)
  BY <1>1, <1>2, <1>6, CheckedAgrees
<1>9. Right(c)
  BY <1>4, <1>5, <1>7, <1>8 DEF Right
<1> QED
  BY <1>9 DEF c


(***************************************************************************)
(* What follows the first value depends on it.                             *)
(***************************************************************************)
LEMMA CountAgrees ==
    ASSUME NEW c, c # "JS_DISCONNECT", NEW f \in Names, NEW rest, rest[0] \in Seq(Field),
           \A a \in Seq(Int) : Reads(c, a) = Client!checked(a, f, rest[Client!Val(a, 1)])
    PROVE  /\ Server!error_ret(f) \in Seq(Filled) /\ Agrees(c, Server!error_ret(f))
           /\ \A v \in Int \ {-1} : \A r : Matches(r, rest[v]) =>
                /\ Server!put4(f, v) \o r \in Seq(Filled)
                /\ Agrees(c, Server!put4(f, v) \o r)
<1>1. Len(Reads(c, <<>>)) > 0 /\ Reads(c, <<>>)[1] = INT(f)
  <2>1. <<>> \in Seq(Int) /\ Len(<<>>) = 0 /\ Client!Val(<<>>, 1) = 0
    BY Values1
  <2>2. Reads(c, <<>>) = Client!checked(<<>>, f, rest[0])
    BY <2>1
  <2>3. Reads(c, <<>>) = <<INT(f)>> \o rest[0]
    BY <2>1, <2>2, CheckedReads
  <2> QED
    BY <2>3, FirstField
<1>2. Server!error_ret(f) \in Seq(Filled) /\ Agrees(c, Server!error_ret(f))
  <2>1. \A a \in Seq(Int) :
          Len(a) > 0 /\ a[1] = -1 => Reads(c, a) = <<INT(f)>> \o <<INT("errno")>>
    BY CheckedReads
  <2> QED
    BY <1>1, <2>1, RefusalAgrees
<1>3. ASSUME NEW v \in Int \ {-1}, NEW r, Matches(r, rest[v])
      PROVE  Server!put4(f, v) \o r \in Seq(Filled) /\ Agrees(c, Server!put4(f, v) \o r)
  <2>1. ASSUME NEW a \in Seq(Int), Len(a) > 0, a[1] = v
        PROVE  Reads(c, a) = <<INT(f)>> \o rest[v]
    <3>1. Client!Val(a, 1) = v
      BY <2>1, Values1
    <3>2. Reads(c, a) = Client!checked(a, f, rest[v])
      BY <3>1
    <3> QED
      BY <2>1, <3>2, CheckedReads
  <2> QED
    BY <1>1, <1>3, <2>1, AcceptedAgrees
<1> QED
  BY <1>2, <1>3

\* The order in which answers are put together does not matter.
LEMMA Regrouped ==
    ASSUME NEW a \in Seq(Filled), NEW b \in Seq(Filled), NEW d \in Seq(Filled)
    PROVE  (a \o b) \o d = a \o (b \o d)
  BY ConcatAssociative

\* The names that js_hinsi_list gives are n times the same.
LEMMA NamesAre ==
    ASSUME NEW n \in Nat
    PROVE  [i \in 1 .. n |-> Server!Put(Server!Text("hinsi_name"), 1)]
             = Server!Times(n, <<Server!Put(Server!Text("hinsi_name"), 1)>>)
<1> DEFINE text == <<Server!Put(Server!Text("hinsi_name"), 1)>>
<1>1. Len(text) = 1 /\ text[1] = Server!Put(Server!Text("hinsi_name"), 1)
  OBVIOUS
<1>2. \A i \in 1 .. n : 1 + ((i - 1) % 1) = 1
  OBVIOUS
<1>3. Server!Times(n, text) = [i \in 1 .. n * 1 |-> text[1 + ((i - 1) % 1)]]
  BY <1>1 DEF Server!Times
<1>4. n * 1 = n
  OBVIOUS
<1> HIDE DEF text
<1>5. Server!Times(n, text) = [i \in 1 .. n |-> text[1]]
  BY <1>2, <1>3, <1>4
<1> QED
  BY <1>1, <1>5 DEF text

\* js_hinsi_list: the names under a node.
LEMMA HinsiList == Right("JS_HINSI_LIST")
<1> DEFINE c == "JS_HINSI_LIST"
           takes == <<INT("env")>> \o <<INT("dic_no"), Text("hinsi_name")>>
           rest == [v \in Int |-> <<INT("size")>> \o Client!Times(v, <<Text("hinsi_name")>>)]
           texts(n) == [i \in 1 .. n |-> Server!Put(Server!Text("hinsi_name"), 1)]
<1>1. /\ c \in CommandNames \ Transfers /\ {"count", "size", "hinsi_name"} \subseteq Names
      /\ c # "JS_DISCONNECT"
  BY DEF CommandNames, Transfers, Server!Table, Names
<1>2. \A a \in Seq(Int) : Reads(c, a) = Client!checked(a, "count", rest[Client!Val(a, 1)])
  <2>1. SUFFICES ASSUME NEW a \in Seq(Int)
                 PROVE  Reads(c, a) = Client!checked(a, "count", rest[Client!Val(a, 1)])
    OBVIOUS
  <2>2. Client!Val(a, 1) \in Int
    BY DEF Client!Val
  <2>3. Reads(c, a) = Client!checked(a, "count",
           <<INT("size")>> \o Client!Times(Client!Val(a, 1), <<Text("hinsi_name")>>))
    BY DEF Reads, Transfers, Client!Js, Client!js_hinsi_list, Client!Call,
           Client!INT, Client!Text, INT, Text
  <2> QED
    BY <2>2, <2>3
<1>3. takes \in Seq(Field) /\ Asked(c) = takes
  BY DEF Asked, Client!Js, Client!js_hinsi_list, Client!Call, Client!env_head, Client!INT,
         Client!Text, INT, Text, Field, Kinds, Names
<1>4. \A course \in Server!Table[c] :
        /\ course.takes = takes
        /\ \/ course.gives = Server!error_ret("count")
           \/ \E n \in Nat :
                course.gives = (Server!put4("count", n) \o Server!put4("size", 2 * n)) \o texts(n)
  <2>1. MaxItems \in Nat
    BY BoundsAssumption
  <2>2. Server!Table[c] = Server!js_hinsi_list
    BY DEF Server!Table
  <2>3. Server!envhandle(<<Server!INT("dic_no"), Server!Text("hinsi_name")>>) = takes
    BY DEF Server!envhandle, Server!INT, Server!Text, INT, Text
  <2> HIDE DEF takes, c
  <2> DEFINE given(n) == Server!put4("count", n) \o Server!put4("size", 2 * n) \o texts(n)
  <2>4. Server!js_hinsi_list
          = Server!Courses(takes, {Server!error_ret("count")} \cup {given(n) : n \in 0 .. MaxItems})
    BY <2>3 DEF Server!js_hinsi_list, Server!HinsiSizes
  <2> HIDE DEF given
  <2>5. ASSUME NEW course \in Server!js_hinsi_list
        PROVE  /\ course.takes = takes
               /\ course.gives = Server!error_ret("count") \/ \E n \in Nat : course.gives = given(n)
    BY <2>1, <2>4 DEF Server!Courses
  <2> QED
    BY <2>2, <2>5 DEF given
<1>5. ASSUME NEW n \in Nat
      PROVE  /\ Matches(Server!put4("size", 2 * n) \o texts(n), rest[n])
             /\ (Server!put4("count", n) \o Server!put4("size", 2 * n)) \o texts(n)
                  = Server!put4("count", n) \o (Server!put4("size", 2 * n) \o texts(n))
  <2> DEFINE text == <<Server!Put(Server!Text("hinsi_name"), 1)>>
             name == <<Text("hinsi_name")>>
  <2>1. Matches(text, name) /\ Len(text) = 1
    BY <1>1, TextMatches
  <2>2. texts(n) = Server!Times(n, text)
    BY NamesAre
  <2> HIDE DEF text, name, texts
  <2>3. Matches(texts(n), Client!Times(n, name))
    BY <2>1, <2>2, TimesMatch
  <2>4. Matches(Server!put4("size", 2 * n), <<INT("size")>>) /\ Matches(Server!put4("count", n), <<INT("count")>>)
    BY <1>1, PutMatches
  <2>5. Matches(Server!put4("size", 2 * n) \o texts(n), <<INT("size")>> \o Client!Times(n, name))
    <3> DEFINE s == <<INT("size")>>
               g == Server!put4("size", 2 * n)
    <3>1. Matches(g, s)
      BY <2>4
    <3> HIDE DEF s, g
    <3>2. Matches(g \o texts(n), s \o Client!Times(n, name))
      BY <2>3, <3>1, MatchJoined
    <3> QED
      BY <3>2 DEF s, g
  <2>6. rest[n] = <<INT("size")>> \o Client!Times(n, name)
    BY DEF name
  <2> HIDE DEF rest
  <2>7. (Server!put4("count", n) \o Server!put4("size", 2 * n)) \o texts(n)
          = Server!put4("count", n) \o (Server!put4("size", 2 * n) \o texts(n))
    <3> DEFINE x == Server!put4("count", n)
               y == Server!put4("size", 2 * n)
               z == texts(n)
    <3>1. x \in Seq(Filled) /\ y \in Seq(Filled) /\ z \in Seq(Filled)
      BY <2>3, <2>4 DEF Matches
    <3> HIDE DEF x, y, z
    <3>2. (x \o y) \o z = x \o (y \o z)
      BY <3>1, Regrouped
    <3> QED
      BY <3>2 DEF x, y, z
  <2> QED
    BY <2>5, <2>6, <2>7
<1>6. rest[0] \in Seq(Field)
  BY <1>5 DEF Matches
<1> HIDE DEF rest, takes, texts, c
<1>7. /\ Server!error_ret("count") \in Seq(Filled) /\ Agrees(c, Server!error_ret("count"))
      /\ \A v \in Int \ {-1} : \A r : Matches(r, rest[v]) =>
            /\ Server!put4("count", v) \o r \in Seq(Filled)
            /\ Agrees(c, Server!put4("count", v) \o r)
  BY <1>1, <1>2, <1>6, CountAgrees
<1>8. ASSUME NEW course \in Server!Table[c]
      PROVE  course.takes = takes /\ course.gives \in Seq(Filled) /\ Agrees(c, course.gives)
  <2>1. CASE course.gives = Server!error_ret("count")
    BY <1>4, <1>7, <2>1
  <2>2. ASSUME NEW n \in Nat,
               course.gives = (Server!put4("count", n) \o Server!put4("size", 2 * n)) \o texts(n)
        PROVE  course.gives \in Seq(Filled) /\ Agrees(c, course.gives)
    <3> DEFINE r == Server!put4("size", 2 * n) \o texts(n)
    <3>1. Matches(r, rest[n]) /\ course.gives = Server!put4("count", n) \o r
      BY <1>5, <2>2
    <3>2. n \in Int \ {-1}
      OBVIOUS
    <3> HIDE DEF r
    <3> QED
      BY <1>7, <3>1, <3>2
  <2> QED
    BY <1>4, <2>1, <2>2
<1>9. Right(c)
  BY <1>3, <1>8 DEF Right
<1> QED
  BY <1>9 DEF c

(***************************************************************************)
(* Short phrases: their numbers, and then their texts.                     *)
(***************************************************************************)
LEMMA TextsOfSho ==
    ASSUME NEW f \in 0 .. 1
    PROVE  /\ Matches(Server!ret_kanji(1, f), Client!rcv_sho_kanji)
           /\ Len(Server!ret_kanji(1, f)) = 3
           /\ Server!count_kanji(1, f) \in Nat
<1> DEFINE p == Server!Put(Server!Text("kanji"), 1)
           q == Server!Put(Server!Text("yomi"), 2 - f)
           r == Server!Put(Server!Text("fuzoku"), f)
           x == Text("kanji")
           y == Text("yomi")
           z == Text("fuzoku")
<1>1. p \in Filled /\ q \in Filled /\ r \in Filled
  BY DEF Server!Put, Server!Text, Filled, Kinds, Names
<1>2. x \in Field /\ y \in Field /\ z \in Field /\ Is(p, x) /\ Is(q, y) /\ Is(r, z)
  BY DEF Server!Put, Server!Text, Text, Is, Field, Kinds, Names
<1>3. Server!ret_kanji(1, f) = <<p, q, r>> /\ Client!rcv_sho_kanji = <<x, y, z>>
  BY DEF Server!ret_kanji, Client!rcv_sho_kanji, Client!Text, Text
<1> HIDE DEF p, q, r, x, y, z
<1>4. /\ <<p, q, r>> \in Seq(Filled) /\ Len(<<p, q, r>>) = 3
      /\ <<p, q, r>>[1] = p /\ <<p, q, r>>[2] = q /\ <<p, q, r>>[3] = r
  BY <1>1
<1>5. /\ <<x, y, z>> \in Seq(Field) /\ Len(<<x, y, z>>) = 3
      /\ <<x, y, z>>[1] = x /\ <<x, y, z>>[2] = y /\ <<x, y, z>>[3] = z
  BY <1>2
<1>6. \A i \in 1 .. 3 : Is(<<p, q, r>>[i], <<x, y, z>>[i])
  BY <1>2, <1>4, <1>5
<1>7. Matches(<<p, q, r>>, <<x, y, z>>)
  BY <1>4, <1>5, <1>6 DEF Matches
<1>8. Server!count_kanji(1, f) \in Nat
  BY DEF Server!count_kanji
<1> QED
  BY <1>3, <1>4, <1>7, <1>8

\* ret_sho_x and rcv_sho_x write and read the same twelve numbers.
LEMMA NumbersOfSho ==
    Server!ret_sho_x = Client!rcv_sho_x /\ Client!rcv_sho_x \in Seq(Field) /\ Len(Client!rcv_sho_x) = 12
  BY DEF Server!ret_sho_x, Client!rcv_sho_x, Server!Ints, Client!Ints, Server!INT, Client!INT,
         Field, Kinds, Names

\* n short phrases, numbers and texts, are read as they are given.
LEMMA ShoMatches ==
    ASSUME NEW n \in Nat, NEW f \in 0 .. 1
    PROVE  /\ Matches(Server!Puts(Server!Times(n, Server!ret_sho_x)),
                      Client!Times(n, Client!rcv_sho_x))
           /\ Matches(Server!Times(n, Server!ret_kanji(1, f)),
                      Client!Times(n, Client!rcv_sho_kanji))
<1>1. Matches(Server!Times(n, Server!ret_kanji(1, f)), Client!Times(n, Client!rcv_sho_kanji))
  <2> DEFINE g == Server!ret_kanji(1, f)
  <2>1. Matches(g, Client!rcv_sho_kanji) /\ Len(g) = 3
    BY TextsOfSho
  <2> HIDE DEF g
  <2>2. Len(g) > 0
    BY <2>1
  <2>3. Matches(Server!Times(n, g), Client!Times(n, Client!rcv_sho_kanji))
    BY <2>1, <2>2, TimesMatch
  <2> QED
    BY <2>3 DEF g
<1>2. /\ Client!Times(n, Client!rcv_sho_x) \in Seq(Field)
      /\ Server!Times(n, Server!ret_sho_x) = Client!Times(n, Client!rcv_sho_x)
  <2>1. Client!rcv_sho_x \in Seq(Field) /\ Len(Client!rcv_sho_x) > 0
    BY NumbersOfSho
  <2> QED
    BY <2>1, NumbersOfSho, TimesTyped
<1> QED
  BY <1>1, <1>2, PutsMatch

PutFzkVec == <<INT("env")>> \o (<<Text("reading")>> \o Client!put_fzk_vec)

IsSho(c, takes) ==
    /\ c \in CommandNames \ Transfers /\ takes \in Seq(Field)
    /\ Server!Table[c] = Server!Courses(takes, Server!ShoAnswers)
    /\ \A a : Client!Js(c, a) = Client!Call(takes, Client!rcv_sho(a))

\* The pattern of a command answered by short phrases makes it right.
LEMMA ShoRight ==
    ASSUME NEW c, c # "JS_DISCONNECT", NEW takes, IsSho(c, takes)
    PROVE  Right(c)
<1> DEFINE sums == <<INT("kanji_sum")>>
           rest == [v \in Int |-> (sums \o Client!Times(v, Client!rcv_sho_x))
                                     \o Client!Times(v, Client!rcv_sho_kanji)]
           count(n) == Server!put4("count", n)
           sum(n, f) == Server!put4("kanji_sum", n * Server!count_kanji(1, f))
           numbers(n) == Server!Puts(Server!Times(n, Server!ret_sho_x))
           texts(n, f) == Server!Times(n, Server!ret_kanji(1, f))
           r(n, f) == (sum(n, f) \o numbers(n)) \o texts(n, f)
<1>1. /\ c \in CommandNames \ Transfers /\ takes \in Seq(Field) /\ Asked(c) = takes
  BY DEF IsSho, Asked, Transfers, Client!Call
<1>2. "count" \in Names /\ "kanji_sum" \in Names
  BY DEF Names
<1>3. \A a \in Seq(Int) : Reads(c, a) = Client!checked(a, "count", rest[Client!Val(a, 1)])
  <2> SUFFICES ASSUME NEW a \in Seq(Int)
               PROVE  Reads(c, a) = Client!checked(a, "count", rest[Client!Val(a, 1)])
    OBVIOUS
  <2>1. Client!Val(a, 1) \in Int
    BY DEF Client!Val
  <2>2. Reads(c, a) = Client!rcv_sho(a)
    BY <1>1 DEF IsSho, Reads, Client!Call
  <2> QED
    BY <2>1, <2>2 DEF Client!rcv_sho, Client!INT, INT
<1>4. ASSUME NEW n \in Nat, NEW f \in 0 .. 1
      PROVE  Matches(r(n, f), rest[n]) /\ Server!ret_sho(n, 1, f) = count(n) \o r(n, f)
  <2>1. Matches(numbers(n), Client!Times(n, Client!rcv_sho_x))
    BY ShoMatches
  <2>2. Matches(texts(n, f), Client!Times(n, Client!rcv_sho_kanji))
    BY ShoMatches
  <2>3. n * Server!count_kanji(1, f) \in Int
    BY TextsOfSho
  <2>4. Matches(sum(n, f), sums) /\ count(n) \in Seq(Filled)
    <3> DEFINE v == n * Server!count_kanji(1, f)
    <3>1. v \in Int /\ n \in Int
      BY <2>3
    <3> HIDE DEF v
    <3>2. Matches(Server!put4("kanji_sum", v), sums) /\ Server!put4("count", n) \in Seq(Filled)
      BY <1>2, <3>1, PutMatches DEF Matches
    <3> QED
      BY <3>2 DEF v
  <2>5. Server!ret_sho(n, 1, f) = ((count(n) \o sum(n, f)) \o numbers(n)) \o texts(n, f)
    BY DEF Server!ret_sho
  <2>6. rest[n] = (sums \o Client!Times(n, Client!rcv_sho_x)) \o Client!Times(n, Client!rcv_sho_kanji)
    OBVIOUS
  <2> DEFINE g1 == count(n)
             g2 == sum(n, f)
             g3 == numbers(n)
             g4 == texts(n, f)
             f2 == sums
             f3 == Client!Times(n, Client!rcv_sho_x)
             f4 == Client!Times(n, Client!rcv_sho_kanji)
  <2>7. Matches(g2, f2) /\ Matches(g3, f3) /\ Matches(g4, f4) /\ g1 \in Seq(Filled)
    BY <2>1, <2>2, <2>4
  <2>8. Server!ret_sho(n, 1, f) = ((g1 \o g2) \o g3) \o g4 /\ rest[n] = (f2 \o f3) \o f4
    BY <2>5, <2>6
  <2>9. r(n, f) = (g2 \o g3) \o g4
    OBVIOUS
  <2> HIDE DEF sums, rest, count, sum, numbers, texts, r, g1, g2, g3, g4, f2, f3, f4
  <2>10. Matches(g2 \o g3, f2 \o f3)
    BY <2>7, MatchJoined
  <2> DEFINE g23 == g2 \o g3
             f23 == f2 \o f3
  <2>11. Matches(g23, f23)
    BY <2>10
  <2> HIDE DEF g23, f23
  <2>12. Matches(g23 \o g4, f23 \o f4)
    BY <2>7, <2>11, MatchJoined
  <2>13. ((g1 \o g2) \o g3) \o g4 = g1 \o (g23 \o g4)
    <3>1. /\ g1 \in Seq(Filled) /\ g2 \in Seq(Filled) /\ g3 \in Seq(Filled)
          /\ g4 \in Seq(Filled) /\ g23 \in Seq(Filled)
      BY <2>7, <2>11 DEF Matches
    <3>2. (g1 \o g2) \o g3 = g1 \o g23
      BY <3>1, Regrouped DEF g23
    <3>3. (g1 \o g23) \o g4 = g1 \o (g23 \o g4)
      BY <3>1, Regrouped, SMTT(30)
    <3> QED
      BY <3>2, <3>3
  <2>14. r(n, f) = g23 \o g4 /\ rest[n] = f23 \o f4
    BY <2>8, <2>9 DEF g23, f23
  <2> QED
    BY <2>8, <2>12, <2>13, <2>14 DEF g1
<1>5. rest[0] \in Seq(Field)
  BY <1>4 DEF Matches
<1>6. \A course \in Server!Table[c] :
        /\ course.takes = takes
        /\ \/ course.gives = Server!error_ret("count")
           \/ \E n \in Nat, f \in 0 .. 1 : course.gives = Server!ret_sho(n, 1, f)
  <2>1. MaxItems \in Nat
    BY BoundsAssumption
  <2> QED
    BY <2>1 DEF IsSho, Server!Courses, Server!ShoAnswers
<1> HIDE DEF sums, rest, count, sum, numbers, texts, r
<1>7. /\ Server!error_ret("count") \in Seq(Filled) /\ Agrees(c, Server!error_ret("count"))
      /\ \A v \in Int \ {-1} : \A g : Matches(g, rest[v]) =>
            /\ Server!put4("count", v) \o g \in Seq(Filled)
            /\ Agrees(c, Server!put4("count", v) \o g)
  BY <1>2, <1>3, <1>5, CountAgrees
<1>8. ASSUME NEW n \in Nat, NEW f \in 0 .. 1
      PROVE  Server!ret_sho(n, 1, f) \in Seq(Filled) /\ Agrees(c, Server!ret_sho(n, 1, f))
  <2>1. Matches(r(n, f), rest[n]) /\ Server!ret_sho(n, 1, f) = Server!put4("count", n) \o r(n, f)
    BY <1>4 DEF count
  <2>2. n \in Int \ {-1}
    OBVIOUS
  <2> QED
    BY <1>7, <2>1, <2>2
<1> QED
  BY <1>1, <1>6, <1>7, <1>8 DEF Right

\* The commands of that pattern.
LEMMA ShoCommands == Right("JS_KANTAN_SHO") /\ Right("JS_KANZEN_SHO")
<1> USE DEF IsSho, CommandNames, Transfers, Field, Kinds, Names, Server!Table,
            Server!envhandle, Client!Js, Client!env_head, INT, Text,
            Server!INT, Server!Text, Client!INT, Client!Text, PutFzkVec,
            Server!get_fzk_vec, Client!put_fzk_vec
<1>1. IsSho("JS_KANTAN_SHO", PutFzkVec)
  BY DEF Server!do_kantan_sho, Client!js_kantan_sho
<1>2. IsSho("JS_KANZEN_SHO", PutFzkVec)
  BY DEF Server!do_kanzen_sho, Client!js_kanzen_sho
<1> HIDE DEF IsSho, CommandNames, Transfers, Field, Kinds, Names, Server!Table,
            Server!envhandle, Client!Js, Client!env_head, INT, Text,
            Server!INT, Server!Text, Client!INT, Client!Text, PutFzkVec,
            Server!get_fzk_vec, Client!put_fzk_vec
<1> QED
  BY <1>1, <1>2, ShoRight

(***************************************************************************)
(* Long phrases: how many short ones follow is known from their records.   *)
(***************************************************************************)
KnownBy(c, g, fields, head) ==
    /\ Matches(g, fields) /\ head \in Seq(Field) /\ Len(head) \in 1 .. Len(g)
    /\ \E t \in Seq(Field) : fields = head \o t
    /\ Len(Reads(c, <<>>)) > 0 /\ Reads(c, <<>>)[1] = fields[1]
    /\ \A k \in 1 .. Len(head) - 1 : \E t \in Seq(Field) : Reads(c, Values(g, k)) = head \o t
    /\ \A k \in Len(head) .. Len(g) : Reads(c, Values(g, k)) = fields

\* An answer whose fields are known once a first part is read agrees.
LEMMA PrefixAgrees ==
    ASSUME NEW c, c # "JS_DISCONNECT", NEW g, NEW fields, NEW head, KnownBy(c, g, fields, head)
    PROVE  Agrees(c, g)
<1> USE DEF KnownBy
<1>1. g \in Seq(Filled) /\ Len(g) \in Nat
  BY DEF Matches
<1>2. ASSUME NEW t \in Seq(Field)
      PROVE  /\ Len(head \o t) >= Len(head)
             /\ \A i \in 1 .. Len(head) : (head \o t)[i] = head[i]
  BY ConcatProperties
<1>3. \A i \in 1 .. Len(head) : fields[i] = head[i]
  BY <1>2
<1>4. ASSUME NEW k \in 0 .. Len(head) - 1
      PROVE  Len(Reads(c, Values(g, k))) > k /\ Reads(c, Values(g, k))[k + 1] = fields[k + 1]
  <2>1. CASE k = 0
    <3>1. Values(g, 0) = <<>>
      BY <1>1, ValuesKeep
    <3> QED
      BY <2>1, <3>1
  <2>2. CASE k # 0
    <3>1. PICK t \in Seq(Field) : Reads(c, Values(g, k)) = head \o t
      <4>1. k \in 1 .. Len(head) - 1
        BY <2>2
      <4> QED
        BY <4>1
    <3>2. k + 1 \in 1 .. Len(head)
      BY <2>2
    <3>3. Len(head \o t) >= Len(head) /\ (head \o t)[k + 1] = head[k + 1]
      BY <1>2, <3>2
    <3> QED
      BY <1>3, <3>1, <3>2, <3>3
  <2> QED
    BY <2>1, <2>2
<1> QED
  BY <1>4, KnownAfter

\* The number of short phrases is a number, whatever the records say.
LEMMA ShortPhrasesCounted ==
    ASSUME NEW n \in Nat, NEW dai, DOMAIN dai = 1 .. n, \A i \in 1 .. n : dai[i] \in Int
    PROVE  ShortPhrases(dai) \in Nat
<1> DEFINE of(i) == {i} \X (1 .. dai[i])
           T == {of(i) : i \in 1 .. n}
           f == [i \in 1 .. n |-> of(i)]
<1>1. f \in Surjection(1 .. n, T)
  BY DEF Surjection
<1>2. IsFiniteSet(T)
  <2>1. IsFiniteSet(1 .. n)
    BY FS_Interval
  <2> HIDE DEF f, T
  <2> QED
    BY <1>1, <2>1, FS_Surjection
<1>3. \A t \in T : IsFiniteSet(t)
  <2> SUFFICES ASSUME NEW i \in 1 .. n
               PROVE  IsFiniteSet(of(i))
    OBVIOUS
  <2> DEFINE d == dai[i]
  <2>1. d \in Int
    OBVIOUS
  <2> HIDE DEF d
  <2>2. IsFiniteSet(1 .. d)
    BY <2>1, FS_Interval
  <2>3. IsFiniteSet({i})
    BY FS_Singleton
  <2>4. IsFiniteSet({i} \X (1 .. d))
    BY <2>2, <2>3, FS_Product
  <2> QED
    BY <2>4 DEF d
<1>4. IsFiniteSet(UNION T)
  <2> HIDE DEF T
  <2> QED
    BY <1>2, <1>3, FS_UNION
<1>5. ShortPhrases(dai) = Cardinality(UNION T)
  BY DEF ShortPhrases
<1> HIDE DEF T
<1> QED
  BY <1>4, <1>5, FS_CardinalityType

\* Both sides count the short phrases in the same way.
LEMMA SamePhrases ==
    \A dai : Client!ShortPhrases(dai) = ShortPhrases(dai) /\ Server!ShortPhrases(dai) = ShortPhrases(dai)
<1>1. \A S : Cardinality(S) = Client!Cardinality(S)
  BY Zenon DEF Cardinality, Client!Cardinality
<1>2. \A S : Cardinality(S) = Server!Cardinality(S)
  BY Zenon DEF Cardinality, Server!Cardinality
<1> QED
  BY <1>1, <1>2, Zenon DEF ShortPhrases, Client!ShortPhrases, Server!ShortPhrases

TwoSums == <<INT("sho_sum"), INT("kanji_sum")>>
HeadOfDai(n) == <<INT("count")>> \o (TwoSums \o Client!Times(n, Client!DaiRecord))
TailOfDai(n) == Client!Times(n, Client!rcv_sho_x) \o Client!Times(n, Client!rcv_sho_kanji)
DaiPuts(dai) ==
    [j \in 1 .. 4 * Len(dai) |->
        Server!Put(Server!ret_dai_x[1 + ((j - 1) % 4)],
                   IF j % 4 = 3 THEN dai[(j + 1) \div 4] ELSE 0)]

\* The order in which fields are put together does not matter.
LEMMA FieldsRegrouped ==
    ASSUME NEW a \in Seq(Field), NEW b \in Seq(Field), NEW d \in Seq(Field)
    PROVE  (a \o b) \o d = a \o (b \o d)
  BY ConcatAssociative

\* The records of long phrases are the same on both sides.
LEMMA RecordsOfDai ==
    /\ Server!ret_dai_x = Client!DaiRecord /\ Client!DaiRecord \in Seq(Field)
    /\ Len(Client!DaiRecord) = 4 /\ TwoSums \in Seq(Field) /\ Len(TwoSums) = 2
    /\ Client!Ints(<<"sho_sum", "kanji_sum">>) = TwoSums
    /\ \A i \in 1 .. 4 : Client!DaiRecord[i] \in Field
<1>1. /\ Client!DaiRecord = <<INT("end"), INT("start"), INT("sbncnt"), INT("hyoka")>>
      /\ Server!ret_dai_x = <<INT("end"), INT("start"), INT("sbncnt"), INT("hyoka")>>
      /\ Client!Ints(<<"sho_sum", "kanji_sum">>) = TwoSums
  BY DEF Server!ret_dai_x, Client!DaiRecord, Server!Ints, Client!Ints, Server!INT, Client!INT,
         INT, TwoSums
<1>2. <<INT("end"), INT("start"), INT("sbncnt"), INT("hyoka")>> \in Seq(Field)
  BY DEF INT, Field, Kinds, Names
<1>3. TwoSums \in Seq(Field) /\ Len(TwoSums) = 2
  BY DEF TwoSums, INT, Field, Kinds, Names
<1>4. Len(Client!DaiRecord) = 4 /\ Client!DaiRecord \in Seq(Field)
  BY <1>1, <1>2
<1>5. \A i \in 1 .. 4 : Client!DaiRecord[i] \in Field
  <2> DEFINE r == Client!DaiRecord
  <2>1. r \in Seq(Field) /\ Len(r) = 4
    BY <1>4
  <2> HIDE DEF r
  <2>2. \A i \in 1 .. 4 : r[i] \in Field
    BY <2>1
  <2> QED
    BY <2>2 DEF r
<1> QED
  BY <1>1, <1>3, <1>4, <1>5

\* The records of ret_dai, and where the client finds each sbncnt.
LEMMA DaiPutsMatch ==
    ASSUME NEW dai \in Seq(Nat)
    PROVE  /\ Matches(DaiPuts(dai), Client!Times(Len(dai), Client!DaiRecord))
           /\ Len(DaiPuts(dai)) = 4 * Len(dai)
           /\ \A i \in 1 .. Len(dai) : DaiPuts(dai)[4 * i - 1].v = dai[i]
<1> DEFINE L == Len(dai)
           record == Client!DaiRecord
           at(j) == 1 + ((j - 1) % 4)
           v(j) == IF j % 4 = 3 THEN dai[(j + 1) \div 4] ELSE 0
           m == 4 * L
<1>1. L \in Nat /\ m \in Nat /\ \A i \in 1 .. L : dai[i] \in Nat
  OBVIOUS
<1>2. \A j \in 1 .. m : at(j) \in 1 .. 4
  OBVIOUS
<1>3. \A j \in 1 .. m : v(j) \in Int
  <2> SUFFICES ASSUME NEW j \in 1 .. m PROVE v(j) \in Int
    OBVIOUS
  <2>1. CASE j % 4 = 3
    <3>1. (j + 1) \div 4 \in 1 .. L
      BY <1>1, <2>1
    <3> QED
      BY <1>1, <2>1, <3>1
  <2>2. CASE j % 4 # 3
    BY <2>2
  <2> QED
    BY <2>1, <2>2
<1>4. \A i \in 1 .. L : 4 * i - 1 \in 1 .. m /\ v(4 * i - 1) = dai[i]
  <2> SUFFICES ASSUME NEW i \in 1 .. L PROVE 4 * i - 1 \in 1 .. m /\ v(4 * i - 1) = dai[i]
    OBVIOUS
  <2>1. 4 * i - 1 \in 1 .. m /\ (4 * i - 1) % 4 = 3 /\ ((4 * i - 1) + 1) \div 4 = i
    BY <1>1
  <2> QED
    BY <2>1
<1>5. /\ DaiPuts(dai) = [j \in 1 .. m |-> Server!Put(record[at(j)], v(j))]
      /\ Client!Times(L, record) = [j \in 1 .. m |-> record[at(j)]]
  <2>1. Len(record) = 4 /\ Server!ret_dai_x = record
    BY RecordsOfDai
  <2>2. L * 4 = m
    BY <1>1
  <2> QED
    BY <2>1, <2>2 DEF DaiPuts, Client!Times
<1>6. \A i \in 1 .. 4 : record[i] \in Field
  BY RecordsOfDai
<1> HIDE DEF L, record, at, v, m
<1>7. \A j \in 1 .. m : record[at(j)] \in Field
  BY <1>2, <1>6
<1>8. \A j \in 1 .. m : /\ Server!Put(record[at(j)], v(j)) \in Filled
                        /\ Is(Server!Put(record[at(j)], v(j)), record[at(j)])
                        /\ Server!Put(record[at(j)], v(j)).v = v(j)
  <2> SUFFICES ASSUME NEW d \in Field, NEW x \in Int
               PROVE  /\ Server!Put(d, x) \in Filled /\ Is(Server!Put(d, x), d)
                      /\ Server!Put(d, x).v = x
    BY <1>3, <1>7
  <2> QED
    BY DEF Server!Put, Is, Field, Filled
<1> DEFINE put(j) == Server!Put(record[at(j)], v(j))
           g == [j \in 1 .. m |-> put(j)]
           fields == [j \in 1 .. m |-> record[at(j)]]
<1>9. \A j \in 1 .. m : put(j) \in Filled /\ Is(put(j), record[at(j)]) /\ put(j).v = v(j)
  BY <1>8
<1> HIDE DEF put
<1>10. g \in Seq(Filled) /\ Len(g) = m /\ \A j \in 1 .. m : g[j] = put(j)
  BY <1>1, <1>9
<1>11. fields \in Seq(Field) /\ Len(fields) = m /\ \A j \in 1 .. m : fields[j] = record[at(j)]
  BY <1>1, <1>7
<1>12. g = DaiPuts(dai) /\ fields = Client!Times(L, record)
  BY <1>5 DEF put
<1> HIDE DEF g, fields
<1>13. Matches(g, fields)
  BY <1>9, <1>10, <1>11 DEF Matches
<1>14. \A i \in 1 .. L : g[4 * i - 1].v = dai[i]
  BY <1>4, <1>9, <1>10
<1> QED
  BY <1>10, <1>12, <1>13, <1>14 DEF L, record, m

\* The counts and the records of ret_dai are read as they are given.
LEMMA HeadMatches ==
    ASSUME NEW dai \in Seq(Nat), NEW n \in Int, NEW s \in Int
    PROVE  LET g == ((Server!put4("count", Len(dai)) \o Server!put4("sho_sum", n))
                        \o Server!put4("kanji_sum", s)) \o DaiPuts(dai)
           IN  /\ Matches(g, HeadOfDai(Len(dai))) /\ Len(g) = 3 + 4 * Len(dai)
               /\ g[1].v = Len(dai) /\ \A i \in 1 .. Len(dai) : g[4 * i + 2].v = dai[i]
<1> DEFINE L == Len(dai)
           g1 == Server!put4("count", L)
           g2 == Server!put4("sho_sum", n)
           g3 == Server!put4("kanji_sum", s)
           g4 == DaiPuts(dai)
           f1 == <<INT("count")>>
           f2 == <<INT("sho_sum")>>
           f3 == <<INT("kanji_sum")>>
           f4 == Client!Times(L, Client!DaiRecord)
           g12 == g1 \o g2
           g123 == g12 \o g3
           g == g123 \o g4
           f12 == f1 \o f2
           f123 == f12 \o f3
           f == f123 \o f4
<1>1. L \in Nat /\ L \in Int /\ {"count", "sho_sum", "kanji_sum"} \subseteq Names
  BY DEF Names
<1>2. /\ Matches(g4, f4) /\ Len(g4) = 4 * L
      /\ \A i \in 1 .. L : g4[4 * i - 1].v = dai[i]
  BY DaiPutsMatch
<1>3. f123 = f1 \o TwoSums
  BY DEF TwoSums
<1>4. TwoSums \in Seq(Field) /\ f1 \in Seq(Field)
  BY <1>1, RecordsOfDai, PutMatches DEF Matches
<1> HIDE DEF L
<1>5. Matches(g1, f1) /\ Len(g1) = 1 /\ g1[1].v = L
  BY <1>1, PutMatches
<1>6. Matches(g2, f2) /\ Len(g2) = 1
  BY <1>1, PutMatches
<1>7. Matches(g3, f3) /\ Len(g3) = 1
  BY <1>1, PutMatches
<1> HIDE DEF g1, g2, g3, g4, f1, f2, f3, f4
<1>8. Matches(g12, f12) /\ Len(g12) = 2 /\ g12[1] = g1[1]
  <2>1. Matches(g12, f12) /\ Len(g12) = Len(g1) + Len(g2)
    BY <1>5, <1>6, MatchJoined
  <2>2. \A i \in 1 .. Len(g1) : g12[i] = g1[i]
    BY <1>5, <1>6, MatchJoined
  <2> QED
    BY <1>5, <1>6, <2>1, <2>2
<1> HIDE DEF g12, f12
<1>9. Matches(g123, f123) /\ Len(g123) = 3 /\ g123[1] = g12[1]
  <2>1. Matches(g123, f123) /\ Len(g123) = Len(g12) + Len(g3)
    BY <1>8, <1>7, MatchJoined
  <2>2. Matches(g12, f12) /\ Matches(g3, f3)
    BY <1>8, <1>7
  <2>3. \A i \in 1 .. Len(g12) : g123[i] = g12[i]
    BY <2>2, MatchJoined
  <2> QED
    BY <1>8, <1>7, <2>1, <2>3
<1> HIDE DEF g123, f123
<1>10. Matches(g4, f4)
  BY <1>2
<1>11. /\ Matches(g, f) /\ Len(g) = 3 + 4 * L /\ g[1] = g123[1]
      /\ \A j \in 1 .. 4 * L : g[3 + j] = g4[j]
  <2>1. Matches(g, f) /\ Len(g) = Len(g123) + Len(g4)
    BY <1>9, <1>10, MatchJoined
  <2>2. Matches(g123, f123)
    BY <1>9
  <2>3. \A i \in 1 .. Len(g123) : g[i] = g123[i]
    BY <2>2, <1>10, MatchJoined
  <2>4. \A i \in 1 .. Len(g4) : g[Len(g123) + i] = g4[i]
    BY <2>2, <1>10, MatchJoined
  <2> QED
    BY <1>2, <1>9, <2>1, <2>3, <2>4
<1> HIDE DEF g
<1>12. f = HeadOfDai(L)
  <2>1. f4 \in Seq(Field)
    BY <1>2 DEF Matches
  <2>2. (f1 \o TwoSums) \o f4 = f1 \o (TwoSums \o f4)
    BY <1>4, <2>1, FieldsRegrouped
  <2> QED
    BY <1>3, <2>2 DEF HeadOfDai, f1, f4
<1>13. ASSUME NEW i \in 1 .. L
       PROVE  g[4 * i + 2].v = dai[i]
  <2>1. 4 * i - 1 \in 1 .. 4 * L /\ 3 + (4 * i - 1) = 4 * i + 2
    BY <1>1
  <2> QED
    BY <1>2, <1>11, <2>1
<1> QED
  BY <1>5, <1>8, <1>9, <1>11, <1>12, <1>13 DEF L, g, g123, g12, g1, g2, g3, g4

\* rcv_dai reads the counts and records, and after them as much as they say.
LEMMA DaiReads ==
    ASSUME NEW a \in Seq(Int), NEW n \in Nat, Client!Val(a, 1) = n
    PROVE  /\ \E t \in Seq(Field) : Client!rcv_dai(a) = HeadOfDai(n) \o t
           /\ \A dai \in Seq(Nat) :
                /\ Len(dai) = n
                /\ \A i \in 1 .. n : 4 * i + 2 <= Len(a) /\ a[4 * i + 2] = dai[i]
                => Client!rcv_dai(a) = HeadOfDai(n) \o TailOfDai(ShortPhrases(dai))
<1> DEFINE told == [i \in 1 .. n |-> Client!Val(a, 4 * i + 2)]
           sho == ShortPhrases(told)
           first == <<INT("count")>>
           records == Client!Times(n, Client!DaiRecord)
           x(m) == Client!Times(m, Client!rcv_sho_x)
           y(m) == Client!Times(m, Client!rcv_sho_kanji)
<1>1. \A i \in 1 .. n : Client!Val(a, 4 * i + 2) \in Int
  <2> SUFFICES ASSUME NEW i \in 1 .. n PROVE Client!Val(a, 4 * i + 2) \in Int
    OBVIOUS
  <2>1. 4 * i + 2 <= Len(a) => 4 * i + 2 \in 1 .. Len(a)
    OBVIOUS
  <2> QED
    BY <2>1 DEF Client!Val
<1>2. sho \in Nat
  <2>1. DOMAIN told = 1 .. n /\ \A i \in 1 .. n : told[i] \in Int
    BY <1>1
  <2> HIDE DEF told
  <2> QED
    BY <2>1, ShortPhrasesCounted
<1>3. /\ first \in Seq(Field) /\ TwoSums \in Seq(Field) /\ records \in Seq(Field)
      /\ x(sho) \in Seq(Field) /\ y(sho) \in Seq(Field)
  <2>1. first \in Seq(Field) /\ TwoSums \in Seq(Field)
    BY PutMatches, RecordsOfDai DEF Matches, Names
  <2>2. records \in Seq(Field)
    <3>1. Client!DaiRecord \in Seq(Field) /\ Len(Client!DaiRecord) > 0
      BY RecordsOfDai
    <3> QED
      BY <3>1, TimesTyped
  <2>3. 0 \in 0 .. 1
    OBVIOUS
  <2> HIDE DEF sho
  <2>4. x(sho) \in Seq(Field) /\ y(sho) \in Seq(Field)
    BY <1>2, <2>3, ShoMatches DEF Matches
  <2> QED
    BY <2>1, <2>2, <2>4
<1>4. Client!rcv_dai(a) = first \o (((TwoSums \o records) \o x(sho)) \o y(sho))
  <2>1. Client!Val(a, 1) # -1
    OBVIOUS
  <2>2. Client!checked(a, "count", ((TwoSums \o records) \o x(sho)) \o y(sho))
          = first \o (((TwoSums \o records) \o x(sho)) \o y(sho))
    BY <2>1 DEF Client!checked, Client!INT, INT
  <2>3. Client!Ints(<<"sho_sum", "kanji_sum">>) = TwoSums
    BY RecordsOfDai
  <2>4. sho = Client!ShortPhrases([i \in 1 .. n |-> Client!Val(a, 4 * i + 2)])
    BY SamePhrases
  <2> HIDE DEF sho
  <2>5. Client!rcv_dai(a)
          = Client!checked(a, "count", ((TwoSums \o records) \o x(sho)) \o y(sho))
    BY <2>3, <2>4 DEF Client!rcv_dai
  <2> QED
    BY <2>2, <2>5
<1>5. Client!rcv_dai(a) = HeadOfDai(n) \o (x(sho) \o y(sho)) /\ x(sho) \o y(sho) \in Seq(Field)
  <2> DEFINE p == TwoSums \o records
             u == x(sho)
             v == y(sho)
             q == p \o u
             uv == u \o v
  <2>1. p \in Seq(Field) /\ u \in Seq(Field) /\ v \in Seq(Field) /\ first \in Seq(Field)
    BY <1>3, ConcatProperties
  <2>2. Client!rcv_dai(a) = first \o (q \o v) /\ HeadOfDai(n) = first \o p
    BY <1>4 DEF HeadOfDai
  <2> HIDE DEF p, u, v, first
  <2>3. q \in Seq(Field) /\ uv \in Seq(Field)
    BY <2>1, ConcatProperties
  <2>4. q \o v = p \o uv
    BY <2>1, FieldsRegrouped
  <2> HIDE DEF q, uv
  <2>5. first \o (p \o uv) = (first \o p) \o uv
    BY <2>1, <2>3, FieldsRegrouped
  <2>6. Client!rcv_dai(a) = HeadOfDai(n) \o uv
    BY <2>2, <2>4, <2>5
  <2> QED
    BY <2>3, <2>6 DEF uv, u, v
<1>6. ASSUME NEW dai \in Seq(Nat), Len(dai) = n,
             \A i \in 1 .. n : 4 * i + 2 <= Len(a) /\ a[4 * i + 2] = dai[i]
      PROVE  Client!rcv_dai(a) = HeadOfDai(n) \o TailOfDai(ShortPhrases(dai))
  <2>1. \A i \in 1 .. n : Client!Val(a, 4 * i + 2) = dai[i]
    BY <1>6 DEF Client!Val
  <2>2. told = dai
    <3>1. dai = [i \in 1 .. n |-> dai[i]]
      BY <1>6
    <3> QED
      BY <2>1, <3>1
  <2> QED
    BY <1>5, <2>2 DEF TailOfDai
<1> QED
  BY <1>5, <1>6

\* An answer of long phrases begins with their count.
LEMMA CountComesFirst ==
    ASSUME NEW n \in Nat, NEW t \in Seq(Field)
    PROVE  /\ Len(HeadOfDai(n) \o t) > 0 /\ (HeadOfDai(n) \o t)[1] = INT("count")
           /\ HeadOfDai(n) \in Seq(Field)
<1> DEFINE first == <<INT("count")>>
           records == Client!Times(n, Client!DaiRecord)
           p == TwoSums \o records
           pt == p \o t
<1>1. "count" \in Names
  BY DEF Names
<1>2. first \in Seq(Field) /\ TwoSums \in Seq(Field)
  <2>1. 0 \in Int
    OBVIOUS
  <2>2. first \in Seq(Field)
    BY <1>1, <2>1, PutMatches DEF Matches
  <2> QED
    BY <2>2, RecordsOfDai
<1>3. records \in Seq(Field)
  <2>1. Client!DaiRecord \in Seq(Field) /\ Len(Client!DaiRecord) > 0
    BY RecordsOfDai
  <2> QED
    BY <2>1, TimesTyped
<1>4. p \in Seq(Field) /\ HeadOfDai(n) = first \o p
  BY <1>2, <1>3, ConcatProperties DEF HeadOfDai
<1> HIDE DEF p
<1>5. pt \in Seq(Field) /\ first \o p \in Seq(Field)
  BY <1>2, <1>4, ConcatProperties
<1>6. (first \o p) \o t = first \o pt
  BY <1>2, <1>4, FieldsRegrouped
<1> HIDE DEF pt
<1>7. Len(first \o pt) > 0 /\ (first \o pt)[1] = INT("count")
  BY <1>1, <1>5, FirstField
<1> QED
  BY <1>4, <1>5, <1>6, <1>7

\* ret_dai agrees with rcv_dai, for any number of phrases.
LEMMA DaiAgrees ==
    ASSUME NEW c, c # "JS_DISCONNECT", \A a \in Seq(Int) : Reads(c, a) = Client!rcv_dai(a),
           NEW dai \in Seq(Nat), NEW f \in 0 .. 1
    PROVE  Server!ret_dai(dai, 1, f) \in Seq(Filled) /\ Agrees(c, Server!ret_dai(dai, 1, f))
<1> DEFINE n == ShortPhrases(dai)
           L == Len(dai)
           s == n * Server!count_kanji(1, f)
           h == ((Server!put4("count", L) \o Server!put4("sho_sum", n))
                     \o Server!put4("kanji_sum", s)) \o DaiPuts(dai)
           numbers == Server!Puts(Server!Times(n, Server!ret_sho_x))
           texts == Server!Times(n, Server!ret_kanji(1, f))
           x == Client!Times(n, Client!rcv_sho_x)
           y == Client!Times(n, Client!rcv_sho_kanji)
           head == HeadOfDai(L)
           hn == h \o numbers
           hx == head \o x
           g == hn \o texts
           fields == hx \o y
<1>1. L \in Nat /\ n \in Nat
  <2>1. L \in Nat /\ DOMAIN dai = 1 .. L /\ \A i \in 1 .. L : dai[i] \in Int
    OBVIOUS
  <2> HIDE DEF L
  <2> QED
    BY <2>1, ShortPhrasesCounted
<1>2. Server!ret_dai(dai, 1, f) = g
  <2>1. Server!ShortPhrases(dai) = n
    BY SamePhrases
  <2> HIDE DEF n
  <2> QED
    BY <2>1 DEF Server!ret_dai, DaiPuts
<1>3. s \in Int
  <2>1. Server!count_kanji(1, f) \in Nat
    BY TextsOfSho
  <2> HIDE DEF n
  <2> QED
    BY <1>1, <2>1
<1>4. /\ Matches(h, head) /\ Len(h) = 3 + 4 * L /\ h[1].v = L
      /\ \A i \in 1 .. L : h[4 * i + 2].v = dai[i]
  <2>1. n \in Int
    BY <1>1
  <2> HIDE DEF n, s
  <2>2. Matches(h, head)
    BY <1>3, <2>1, HeadMatches
  <2>3. Len(h) = 3 + 4 * L /\ h[1].v = L
    BY <1>3, <2>1, HeadMatches
  <2>4. \A i \in 1 .. L : h[4 * i + 2].v = dai[i]
    BY <1>3, <2>1, HeadMatches
  <2> QED
    BY <2>2, <2>3, <2>4
<1> HIDE DEF n, s, h, L
<1>5. Matches(numbers, x)
  BY <1>1, ShoMatches
<1>6. Matches(texts, y)
  BY <1>1, ShoMatches
<1>7. head \o x \o y = head \o TailOfDai(n)
  <2>1. head \in Seq(Field) /\ x \in Seq(Field) /\ y \in Seq(Field)
    BY <1>4, <1>5, <1>6 DEF Matches
  <2> HIDE DEF head, x, y
  <2>2. (head \o x) \o y = head \o (x \o y)
    BY <2>1, FieldsRegrouped
  <2> QED
    BY <2>2 DEF TailOfDai, x, y
<1>8. TailOfDai(n) \in Seq(Field)
  <2>1. x \in Seq(Field) /\ y \in Seq(Field)
    BY <1>5, <1>6 DEF Matches
  <2> HIDE DEF x, y
  <2>2. x \o y \in Seq(Field)
    BY <2>1, ConcatProperties
  <2> QED
    BY <2>2 DEF TailOfDai, x, y
<1> HIDE DEF numbers, texts, x, y, head
<1>9. Matches(h, head)
  BY <1>4
<1>10. Matches(hn, hx) /\ Len(hn) = Len(h) + Len(numbers)
  BY <1>5, <1>9, MatchJoined
<1>11. \A i \in 1 .. Len(h) : hn[i] = h[i]
  BY <1>5, <1>9, MatchJoined
<1> HIDE DEF hn, hx
<1>12. Matches(hn, hx)
  BY <1>10
<1>13. Matches(g, fields) /\ Len(g) = Len(hn) + Len(texts)
  BY <1>6, <1>12, MatchJoined
<1>14. \A i \in 1 .. Len(hn) : g[i] = hn[i]
  BY <1>6, <1>12, MatchJoined
<1>15. fields = head \o TailOfDai(n)
  BY <1>7 DEF hx
<1> HIDE DEF g, fields
<1>16. Len(numbers) \in Nat /\ Len(texts) \in Nat
  BY <1>5, <1>6 DEF Matches
<1>17. Len(g) >= Len(h) /\ \A i \in 1 .. Len(h) : g[i] = h[i]
  BY <1>1, <1>4, <1>10, <1>11, <1>13, <1>14, <1>16
<1>18. /\ g[1].v = L /\ Len(g) >= 3 + 4 * L /\ Len(g) \in Nat /\ g \in Seq(Filled)
       /\ \A i \in 1 .. L : g[4 * i + 2].v = dai[i]
  <2>1. Len(g) \in Nat /\ g \in Seq(Filled)
    BY <1>13 DEF Matches
  <2>2. 1 \in 1 .. Len(h) /\ \A i \in 1 .. L : 4 * i + 2 \in 1 .. Len(h)
    BY <1>1, <1>4
  <2> QED
    BY <1>4, <1>17, <2>1, <2>2
<1>19. head \in Seq(Field) /\ Len(head) = 3 + 4 * L
  BY <1>4 DEF Matches
<1>20. ASSUME NEW k \in 1 .. Len(g)
       PROVE  /\ \E t \in Seq(Field) : Reads(c, Values(g, k)) = head \o t
              /\ k >= 3 + 4 * L => Reads(c, Values(g, k)) = fields
  <2> DEFINE a == Values(g, k)
  <2>1. k \in 0 .. Len(g) /\ 1 \in 1 .. k
    BY <1>18
  <2>2. a \in Seq(Int) /\ Len(a) = k /\ \A i \in 1 .. k : a[i] = g[i].v
    BY <1>18, <2>1, ValuesKeep
  <2> HIDE DEF a
  <2>3. Client!Val(a, 1) = L
    <3>1. Len(a) > 0 /\ a[1] = g[1].v
      BY <2>1, <2>2
    <3>2. g[1].v = L
      BY <1>18
    <3>3. Client!Val(a, 1) = a[1]
      BY <2>2, <3>1, Values1
    <3> QED
      BY <3>1, <3>2, <3>3
  <2>4. Reads(c, a) = Client!rcv_dai(a)
    BY <2>2
  <2>5. \E t \in Seq(Field) : Client!rcv_dai(a) = head \o t
    BY <1>1, <2>2, <2>3, DaiReads DEF head
  <2>6. ASSUME k >= 3 + 4 * L
        PROVE  Client!rcv_dai(a) = fields
    <3>1. ASSUME NEW i \in 1 .. L
          PROVE  4 * i + 2 <= Len(a) /\ a[4 * i + 2] = dai[i]
      <4>1. 4 * i + 2 \in 1 .. k
        BY <1>1, <2>6
      <4>2. a[4 * i + 2] = g[4 * i + 2].v /\ 4 * i + 2 <= k
        BY <2>2, <4>1
      <4> QED
        BY <1>18, <2>2, <4>2
    <3>2. Len(dai) = L
      BY DEF L
    <3>3. Client!rcv_dai(a) = HeadOfDai(L) \o TailOfDai(ShortPhrases(dai))
      BY <1>1, <2>2, <2>3, <3>1, <3>2, DaiReads
    <3> QED
      BY <1>15, <3>3 DEF head, n
  <2> QED
    BY <2>4, <2>5, <2>6 DEF a
<1>21. /\ Len(Reads(c, <<>>)) > 0 /\ Reads(c, <<>>)[1] = fields[1]
  <2>1. <<>> \in Seq(Int) /\ Client!Val(<<>>, 1) = 0 /\ 0 \in Nat
    BY Values1
  <2>2. PICK t \in Seq(Field) : Client!rcv_dai(<<>>) = HeadOfDai(0) \o t
    BY <2>1, DaiReads
  <2>3. Len(HeadOfDai(0) \o t) > 0 /\ (HeadOfDai(0) \o t)[1] = INT("count")
    BY <2>1, CountComesFirst
  <2>4. fields[1] = INT("count")
    BY <1>1, <1>8, <1>15, CountComesFirst DEF head
  <2>5. Reads(c, <<>>) = Client!rcv_dai(<<>>)
    BY <2>1
  <2> QED
    BY <2>2, <2>3, <2>4, <2>5
<1>22. Agrees(c, g)
  <2>1. Len(head) \in 1 .. Len(g)
    BY <1>1, <1>18, <1>19
  <2>2. \A k \in 1 .. Len(head) - 1 : \E t \in Seq(Field) : Reads(c, Values(g, k)) = head \o t
    <3> SUFFICES ASSUME NEW k \in 1 .. Len(head) - 1
                 PROVE  \E t \in Seq(Field) : Reads(c, Values(g, k)) = head \o t
      OBVIOUS
    <3>1. k \in 1 .. Len(g)
      BY <1>1, <1>18, <1>19
    <3> QED
      BY <1>20, <3>1
  <2>3. \A k \in Len(head) .. Len(g) : Reads(c, Values(g, k)) = fields
    BY <1>1, <1>18, <1>19, <1>20
  <2>4. \E t \in Seq(Field) : fields = head \o t
    BY <1>8, <1>15
  <2>5. Matches(g, fields) /\ head \in Seq(Field)
    BY <1>13, <1>19
  <2>6. KnownBy(c, g, fields, head)
    BY <1>21, <2>1, <2>2, <2>3, <2>4, <2>5 DEF KnownBy
  <2> QED
    BY <2>6, PrefixAgrees
<1> QED
  BY <1>2, <1>18, <1>22

IsDai(c, takes) ==
    /\ c \in CommandNames \ Transfers /\ takes \in Seq(Field)
    /\ Server!Table[c] = Server!Courses(takes, Server!DaiAnswers)
    /\ \A a : Client!Js(c, a) = Client!Call(takes, Client!rcv_dai(a))

\* The pattern of a command answered by long phrases makes it right.
LEMMA DaiRight ==
    ASSUME NEW c, c # "JS_DISCONNECT", NEW takes, IsDai(c, takes)
    PROVE  Right(c)
<1>1. /\ c \in CommandNames \ Transfers /\ takes \in Seq(Field) /\ Asked(c) = takes
  BY DEF IsDai, Asked, Transfers, Client!Call
<1>2. \A a \in Seq(Int) : Reads(c, a) = Client!rcv_dai(a)
  BY <1>1 DEF IsDai, Reads, Client!Call
<1>3. \A course \in Server!Table[c] :
        /\ course.takes = takes
        /\ \/ course.gives = Server!error_ret("count")
           \/ \E dai \in Seq(Nat), f \in 0 .. 1 : course.gives = Server!ret_dai(dai, 1, f)
  <2>1. {<<>>, <<1>>, <<2>>, <<2, 1>>} \subseteq Seq(Nat)
    OBVIOUS
  <2> DEFINE D == {<<>>, <<1>>, <<2>>, <<2, 1>>}
  <2>2. D \subseteq Seq(Nat)
    BY <2>1
  <2>3. Server!DaiAnswers
          = {Server!error_ret("count")} \cup {Server!ret_dai(dai, 1, f) : dai \in D, f \in 0 .. 1}
    BY DEF Server!DaiAnswers
  <2> HIDE DEF D
  <2> QED
    BY <2>2, <2>3 DEF IsDai, Server!Courses
<1>4. Server!error_ret("count") \in Seq(Filled) /\ Agrees(c, Server!error_ret("count"))
  <2>1. "count" \in Names
    BY DEF Names
  <2>2. <<>> \in Seq(Int) /\ Client!Val(<<>>, 1) = 0 /\ 0 \in Nat
    BY Values1
  <2>3. PICK t \in Seq(Field) : Client!rcv_dai(<<>>) = HeadOfDai(0) \o t
    BY <2>2, DaiReads
  <2>4. Len(HeadOfDai(0) \o t) > 0 /\ (HeadOfDai(0) \o t)[1] = INT("count")
    BY <2>2, CountComesFirst
  <2>5. Reads(c, <<>>) = Client!rcv_dai(<<>>)
    BY <1>2, <2>2
  <2>6. Len(Reads(c, <<>>)) > 0 /\ Reads(c, <<>>)[1] = INT("count")
    BY <2>3, <2>4, <2>5
  <2>7. ASSUME NEW a \in Seq(Int), Len(a) > 0, a[1] = -1
        PROVE  Reads(c, a) = <<INT("count")>> \o <<INT("errno")>>
    <3>1. \E rest : Client!rcv_dai(a) = Client!checked(a, "count", rest)
      BY DEF Client!rcv_dai
    <3> QED
      BY <1>2, <2>7, <3>1, CheckedReads
  <2> QED
    BY <2>1, <2>6, <2>7, RefusalAgrees
<1>5. ASSUME NEW dai \in Seq(Nat), NEW f \in 0 .. 1
      PROVE  Server!ret_dai(dai, 1, f) \in Seq(Filled) /\ Agrees(c, Server!ret_dai(dai, 1, f))
  BY <1>2, DaiAgrees
<1> QED
  BY <1>1, <1>3, <1>4, <1>5 DEF Right

\* The commands of that pattern.
LEMMA DaiCommands == Right("JS_KANREN") /\ Right("JS_KANTAN_DAI") /\ Right("JS_KANZEN_DAI")
<1> DEFINE Kanren == <<INT("env")>> \o (<<Text("reading")>> \o Client!put_fzk_vec \o <<INT("vec2")>>)
<1> USE DEF IsDai, CommandNames, Transfers, Field, Kinds, Names, Server!Table,
            Server!envhandle, Client!Js, Client!env_head, INT, Text,
            Server!INT, Server!Text, Client!INT, Client!Text, PutFzkVec,
            Server!get_fzk_vec, Client!put_fzk_vec
<1>1. IsDai("JS_KANREN", Kanren)
  BY DEF Server!do_kanren, Client!js_kanren
<1>2. IsDai("JS_KANTAN_DAI", PutFzkVec)
  BY DEF Server!do_kantan_dai, Client!js_kantan_dai
<1>3. IsDai("JS_KANZEN_DAI", PutFzkVec)
  BY DEF Server!do_kanzen_dai, Client!js_kanzen_dai
<1> HIDE DEF IsDai, CommandNames, Transfers, Field, Kinds, Names, Server!Table,
            Server!envhandle, Client!Js, Client!env_head, INT, Text,
            Server!INT, Server!Text, Client!INT, Client!Text, PutFzkVec,
            Server!get_fzk_vec, Client!put_fzk_vec, Kanren
<1> QED
  BY <1>1, <1>2, <1>3, DaiRight

(***************************************************************************)
(* Words: one record after the other until the -1.                         *)
(***************************************************************************)
TwoOfWords == <<INT("words"), INT("kanji_sum")>>
TextsOfWord == <<Text("kanji"), Text("comment")>>
WordFields(n) ==
    ((TwoOfWords \o Client!Times(n, Client!WordRecord)) \o <<INT("dic_no")>>)
        \o Client!Times(n, TextsOfWord)

\* The records of words are the same on both sides.
LEMMA RecordsOfWords ==
    /\ Server!WordRecord = Client!WordRecord /\ Client!WordRecord \in Seq(Field)
    /\ Len(Client!WordRecord) = 7 /\ Client!WordRecord[1] = INT("dic_no")
    /\ TwoOfWords \in Seq(Field) /\ Len(TwoOfWords) = 2
    /\ TextsOfWord \in Seq(Field) /\ Len(TextsOfWord) = 2
    /\ <<INT("dic_no")>> \in Seq(Field)
<1> DEFINE record == <<INT("dic_no"), INT("serial"), INT("hinsi"), INT("hindo"), INT("ima"),
                       INT("int_hindo"), INT("int_ima")>>
<1>1. Client!WordRecord = record /\ Server!WordRecord = record
  BY DEF Server!WordRecord, Client!WordRecord, Server!Ints, Client!Ints, Server!INT, Client!INT, INT
<1>2. record \in Seq(Field) /\ Len(record) = 7 /\ record[1] = INT("dic_no")
  BY DEF INT, Field, Kinds, Names
<1>3. TwoOfWords \in Seq(Field) /\ Len(TwoOfWords) = 2
  BY DEF TwoOfWords, INT, Field, Kinds, Names
<1>4. TextsOfWord \in Seq(Field) /\ Len(TextsOfWord) = 2
  BY DEF TextsOfWord, Text, Field, Kinds, Names
<1>5. <<INT("dic_no")>> \in Seq(Field)
  BY DEF INT, Field, Kinds, Names
<1> HIDE DEF record
<1> QED
  BY <1>1, <1>2, <1>3, <1>4, <1>5

\* Where the fields of the n records of words are.
LEMMA SameRecords ==
    ASSUME NEW n \in Nat
    PROVE  LET records == Client!Times(n, Client!WordRecord)
           IN  /\ records \in Seq(Field) /\ Len(records) = 7 * n
               /\ \A j \in 1 .. 7 * n : records[j] = Client!WordRecord[1 + ((j - 1) % 7)]
<1> DEFINE s == Client!WordRecord
<1>1. s \in Seq(Field) /\ Len(s) = 7
  BY RecordsOfWords
<1> HIDE DEF s
<1>2. Client!Times(n, s) \in Seq(Field) /\ Len(Client!Times(n, s)) = n * Len(s)
  <2>1. Len(s) > 0
    BY <1>1
  <2> QED
    BY <1>1, <2>1, TimesTyped
<1>3. Client!Times(n, s) = [i \in 1 .. n * 7 |-> s[1 + ((i - 1) % 7)]]
  BY <1>1 DEF Client!Times
<1>4. n * 7 = 7 * n
  OBVIOUS
<1>5. \A j \in 1 .. 7 * n : Client!Times(n, s)[j] = s[1 + ((j - 1) % 7)]
  BY <1>3, <1>4
<1> QED
  BY <1>1, <1>2, <1>4, <1>5 DEF s

\* Where the fields of an answer of n words are.
LEMMA WordFieldsAt ==
    ASSUME NEW n \in Nat
    PROVE  /\ WordFields(n) \in Seq(Field) /\ Len(WordFields(n)) >= 7 * n + 3
           /\ \A i \in 1 .. 2 : WordFields(n)[i] = TwoOfWords[i]
           /\ \A j \in 1 .. 7 * n : WordFields(n)[2 + j] = Client!WordRecord[1 + ((j - 1) % 7)]
           /\ WordFields(n)[7 * n + 3] = INT("dic_no")
<1> DEFINE a == TwoOfWords
           b == Client!Times(n, Client!WordRecord)
           d == <<INT("dic_no")>>
           e == Client!Times(n, TextsOfWord)
           ab == a \o b
           abd == ab \o d
<1>1. a \in Seq(Field) /\ Len(a) = 2 /\ d \in Seq(Field) /\ Len(d) = 1 /\ d[1] = INT("dic_no")
  BY RecordsOfWords
<1>2. /\ b \in Seq(Field) /\ Len(b) = 7 * n
      /\ \A j \in 1 .. 7 * n : b[j] = Client!WordRecord[1 + ((j - 1) % 7)]
  BY SameRecords
<1>3. e \in Seq(Field)
  <2>1. TextsOfWord \in Seq(Field) /\ Len(TextsOfWord) > 0
    BY RecordsOfWords
  <2> QED
    BY <2>1, TimesTyped
<1>4. WordFields(n) = abd \o e
  BY DEF WordFields
<1> HIDE DEF a, b, d, e
<1>5. /\ ab \in Seq(Field) /\ Len(ab) = 2 + 7 * n
      /\ \A i \in 1 .. 2 + 7 * n : ab[i] = IF i <= 2 THEN a[i] ELSE b[i - 2]
  <2>1. ab \in Seq(Field) /\ Len(ab) = Len(a) + Len(b)
    BY <1>1, <1>2, ConcatProperties
  <2>2. \A i \in 1 .. Len(a) + Len(b) : ab[i] = IF i <= Len(a) THEN a[i] ELSE b[i - Len(a)]
    BY <1>1, <1>2, ConcatProperties
  <2> QED
    BY <1>1, <1>2, <2>1, <2>2
<1> HIDE DEF ab
<1>6. /\ abd \in Seq(Field) /\ Len(abd) = 7 * n + 3
      /\ \A i \in 1 .. 7 * n + 3 : abd[i] = IF i <= 2 + 7 * n THEN ab[i] ELSE d[i - (2 + 7 * n)]
  <2>1. abd \in Seq(Field) /\ Len(abd) = Len(ab) + Len(d)
    BY <1>1, <1>5, ConcatProperties
  <2>2. \A i \in 1 .. Len(ab) + Len(d) : abd[i] = IF i <= Len(ab) THEN ab[i] ELSE d[i - Len(ab)]
    BY <1>1, <1>5, ConcatProperties
  <2>3. Len(ab) + Len(d) = 7 * n + 3 /\ Len(ab) = 2 + 7 * n
    BY <1>1, <1>5
  <2> QED
    BY <2>1, <2>2, <2>3
<1> HIDE DEF abd
<1>7. /\ abd \o e \in Seq(Field) /\ Len(abd \o e) >= 7 * n + 3
      /\ \A i \in 1 .. 7 * n + 3 : (abd \o e)[i] = abd[i]
  <2>1. /\ abd \o e \in Seq(Field) /\ Len(abd \o e) = Len(abd) + Len(e)
        /\ \A i \in 1 .. Len(abd) + Len(e) :
              (abd \o e)[i] = IF i <= Len(abd) THEN abd[i] ELSE e[i - Len(abd)]
    BY <1>3, <1>6, ConcatProperties
  <2>2. Len(e) \in Nat
    BY <1>3
  <2> QED
    BY <1>6, <2>1, <2>2
<1> DEFINE w == abd \o e
<1> HIDE DEF w
<1>8. \A i \in 1 .. 7 * n + 3 : w[i] = abd[i]
  BY <1>7 DEF w
<1>9. \A i \in 1 .. 2 : w[i] = a[i]
  BY <1>5, <1>6, <1>8
<1>10. \A j \in 1 .. 7 * n : w[2 + j] = b[j]
  <2> SUFFICES ASSUME NEW j \in 1 .. 7 * n PROVE w[2 + j] = b[j]
    OBVIOUS
  <2>1. 2 + j \in 1 .. 2 + 7 * n /\ ~(2 + j <= 2) /\ (2 + j) - 2 = j /\ 2 + j <= 2 + 7 * n
        /\ 2 + j \in 1 .. 7 * n + 3
    OBVIOUS
  <2> QED
    BY <1>5, <1>6, <1>8, <2>1
<1>11. w[7 * n + 3] = INT("dic_no")
  <2>1. 7 * n + 3 \in 1 .. 7 * n + 3 /\ ~(7 * n + 3 <= 2 + 7 * n) /\ (7 * n + 3) - (2 + 7 * n) = 1
    OBVIOUS
  <2> QED
    BY <1>1, <1>6, <1>8, <2>1
<1>12. WordFields(n) = w
  BY <1>4 DEF w
<1> QED
  BY <1>2, <1>7, <1>9, <1>10, <1>11, <1>12 DEF w, a

\* rcv_word_data reads records until the -1, and then the texts.
LEMMA WordReads ==
    ASSUME NEW b \in Seq(Int), NEW n \in Nat,
           \A m \in 0 .. n - 1 : 7 * m + 3 <= Len(b) => b[7 * m + 3] = 0,
           7 * n + 3 <= Len(b) => b[7 * n + 3] = -1
    PROVE  /\ Len(b) >= 7 * n + 3 => Client!rcv_word_data(b) = WordFields(n)
           /\ Len(b) < 7 * n + 3 =>
                /\ Len(Client!rcv_word_data(b)) > Len(b)
                /\ Client!rcv_word_data(b)[Len(b) + 1] = WordFields(n)[Len(b) + 1]
           /\ Client!rcv_word_data(b) \in Seq(Field)
<1> DEFINE ends == {m \in 0 .. Len(b) : 7 * m + 3 <= Len(b) /\ b[7 * m + 3] = -1}
           words == IF ends = {} THEN Len(b) ELSE CHOOSE x \in ends : \A m \in ends : x <= m
<1>1. Client!rcv_word_data(b) = WordFields(words)
  <2>1. Client!Ints(<<"words", "kanji_sum">>) = TwoOfWords
    BY DEF Client!Ints, Client!INT, INT, TwoOfWords
  <2>2. <<Client!Text("kanji"), Client!Text("comment")>> = TextsOfWord /\ Client!INT("dic_no") = INT("dic_no")
    BY DEF Client!Text, Text, TextsOfWord, Client!INT, INT
  <2> HIDE DEF TwoOfWords, TextsOfWord
  <2>3. Client!rcv_word_data(b)
          = Client!Ints(<<"words", "kanji_sum">>) \o Client!Times(words, Client!WordRecord)
            \o <<Client!INT("dic_no")>>
            \o Client!Times(words, <<Client!Text("kanji"), Client!Text("comment")>>)
    BY Zenon DEF Client!rcv_word_data
  <2> HIDE DEF words
  <2> QED
    BY <2>1, <2>2, <2>3 DEF WordFields
<1>2. Len(b) \in Nat
  OBVIOUS
<1>3. \A m \in ends : m \in Nat /\ m >= n
  BY <1>2
<1>4. ASSUME Len(b) >= 7 * n + 3
      PROVE  words = n
  <2>1. n \in ends
    BY <1>2, <1>4
  <2> HIDE DEF ends
  <2>2. \A m \in ends : n <= m
    BY <1>3
  <2>3. \A x \in ends : (\A m \in ends : x <= m) => x = n
    BY <1>3, <2>1, <2>2
  <2> QED
    BY <2>1, <2>2, <2>3
<1>5. ASSUME Len(b) < 7 * n + 3
      PROVE  words = Len(b)
  <2>1. ends = {}
    BY <1>2, <1>3, <1>5
  <2> QED
    BY <2>1
<1> HIDE DEF words, ends
<1>6. words \in Nat
  BY <1>2, <1>4, <1>5
<1>7. ASSUME NEW l \in Nat, l < 7 * n + 3
      PROVE  Len(WordFields(l)) > l /\ WordFields(l)[l + 1] = WordFields(n)[l + 1]
  <2>1. Len(WordFields(l)) > l
    <3>1. WordFields(l) \in Seq(Field)
      BY WordFieldsAt
    <3>2. Len(WordFields(l)) >= 7 * l + 3
      BY WordFieldsAt
    <3>3. Len(WordFields(l)) \in Nat
      BY <3>1
    <3> QED
      BY <3>2, <3>3
  <2>2. CASE l < 2
    <3>1. l + 1 \in 1 .. 2
      BY <2>2
    <3>2. WordFields(l)[l + 1] = TwoOfWords[l + 1]
      BY <3>1, WordFieldsAt
    <3>3. WordFields(n)[l + 1] = TwoOfWords[l + 1]
      BY <3>1, WordFieldsAt
    <3> QED
      BY <2>1, <3>2, <3>3
  <2>3. CASE l >= 2 /\ l - 1 <= 7 * n
    <3>1. l - 1 \in 1 .. 7 * l /\ l - 1 \in 1 .. 7 * n /\ 2 + (l - 1) = l + 1
      BY <2>3
    <3>2. WordFields(l)[2 + (l - 1)] = Client!WordRecord[1 + (((l - 1) - 1) % 7)]
      BY <3>1, WordFieldsAt
    <3>3. WordFields(n)[2 + (l - 1)] = Client!WordRecord[1 + (((l - 1) - 1) % 7)]
      BY <3>1, WordFieldsAt
    <3> QED
      BY <2>1, <3>1, <3>2, <3>3
  <2>4. CASE l >= 2 /\ l - 1 > 7 * n
    <3>1. l - 1 = 7 * n + 1 /\ l + 1 = 7 * n + 3
      BY <1>7, <2>4
    <3>2. l - 1 \in 1 .. 7 * l /\ 2 + (l - 1) = l + 1 /\ ((l - 1) - 1) % 7 = 0
      BY <2>4, <3>1
    <3>3. WordFields(l)[2 + (l - 1)] = Client!WordRecord[1 + (((l - 1) - 1) % 7)]
      BY <3>2, WordFieldsAt
    <3>4. WordFields(l)[l + 1] = INT("dic_no")
      <4>1. 1 + 0 = 1
        OBVIOUS
      <4> QED
        BY <3>2, <3>3, <4>1, RecordsOfWords
    <3>5. WordFields(n)[7 * n + 3] = INT("dic_no")
      BY WordFieldsAt
    <3> QED
      BY <2>1, <3>1, <3>4, <3>5
  <2> QED
    BY <2>2, <2>3, <2>4
<1> QED
  BY <1>1, <1>2, <1>4, <1>5, <1>6, <1>7, WordFieldsAt

\* The two texts of a word are read as they are given.
LEMMA TextsOfWordMatch ==
    ASSUME NEW k \in Int, NEW m \in Int
    PROVE  LET g == <<Server!Put(Server!Text("kanji"), k), Server!Put(Server!Text("comment"), m)>>
           IN  Matches(g, TextsOfWord) /\ Len(g) = 2
<1> DEFINE p == Server!Put(Server!Text("kanji"), k)
           q == Server!Put(Server!Text("comment"), m)
           x == Text("kanji")
           y == Text("comment")
<1>1. p \in Filled /\ q \in Filled /\ x \in Field /\ y \in Field /\ Is(p, x) /\ Is(q, y)
  BY DEF Server!Put, Server!Text, Text, Is, Filled, Field, Kinds, Names
<1>2. TextsOfWord = <<x, y>>
  BY DEF TextsOfWord
<1> HIDE DEF p, q, x, y
<1>3. <<p, q>> \in Seq(Filled) /\ Len(<<p, q>>) = 2 /\ <<p, q>>[1] = p /\ <<p, q>>[2] = q
  BY <1>1
<1>4. <<x, y>> \in Seq(Field) /\ Len(<<x, y>>) = 2 /\ <<x, y>>[1] = x /\ <<x, y>>[2] = y
  BY <1>1
<1>5. \A i \in 1 .. 2 : Is(<<p, q>>[i], <<x, y>>[i])
  BY <1>1, <1>3, <1>4
<1>6. Matches(<<p, q>>, <<x, y>>)
  BY <1>3, <1>4, <1>5 DEF Matches
<1> QED
  BY <1>2, <1>3, <1>6 DEF p, q

\* The two counts that follow the -1.
LEMMA TwoOfWordsJoined ==
    <<INT("words")>> \o <<INT("kanji_sum")>> = TwoOfWords
<1> DEFINE x == INT("words")
           y == INT("kanji_sum")
<1>1. x \in Field /\ y \in Field
  BY DEF INT, Field, Kinds, Names
<1> HIDE DEF x, y
<1>2. <<x>> \in Seq(Field) /\ <<y>> \in Seq(Field) /\ <<x, y>> \in Seq(Field)
  BY <1>1
<1>3. <<x>> \o <<y>> \in Seq(Field) /\ Len(<<x>> \o <<y>>) = 2 /\ Len(<<x, y>>) = 2
  BY <1>2
<1>4. \A i \in 1 .. 2 : (<<x>> \o <<y>>)[i] = <<x, y>>[i]
  BY <1>2
<1> DEFINE s == <<x>> \o <<y>>
           t == <<x, y>>
<1>5. s \in Seq(Field) /\ t \in Seq(Field) /\ Len(s) = Len(t) /\ \A i \in 1 .. Len(s) : s[i] = t[i]
  BY <1>2, <1>3, <1>4
<1> HIDE DEF s, t
<1>6. s = t
  BY <1>5, SeqEqual
<1> QED
  BY <1>6 DEF s, t, x, y, TwoOfWords

\* return_jbiki gives n records, a -1, the counts and the texts.
LEMMA WordsMatch ==
    ASSUME NEW n \in Nat, NEW k \in Nat, NEW c \in Nat
    PROVE  LET g == Server!return_jbiki(n, k, c)
           IN  /\ Matches(g, WordFields(n)) /\ Len(g) >= 7 * n + 3
               /\ \A m \in 0 .. n - 1 : g[7 * m + 3].v = 0
               /\ g[7 * n + 3].v = -1
<1> DEFINE s == Server!count_jdata_kanji(n, k, c)
           p1 == Server!put4("words", n)
           p2 == Server!put4("kanji_sum", s)
           f1 == <<INT("words")>>
           f2 == <<INT("kanji_sum")>>
           records == Client!Times(n, Client!WordRecord)
           b == Server!Puts(records)
           d == Server!put4("dic_no", -1)
           fd == <<INT("dic_no")>>
           words == <<Server!Put(Server!Text("kanji"), k), Server!Put(Server!Text("comment"), c)>>
           e == Server!Times(n, words)
           fe == Client!Times(n, TextsOfWord)
           a == p1 \o p2
           fa == f1 \o f2
           ab == a \o b
           fab == fa \o records
           abd == ab \o d
           fabd == fab \o fd
           g == abd \o e
<1>1. {"words", "kanji_sum", "dic_no"} \subseteq Names /\ n \in Int /\ -1 \in Int
  BY DEF Names
<1>2. s \in Int
  BY DEF Server!count_jdata_kanji
<1>3. Server!return_jbiki(n, k, c) = g /\ WordFields(n) = fabd \o fe
  <2>1. Server!WordRecord = Client!WordRecord
    BY RecordsOfWords
  <2>2. Server!Times(n, Client!WordRecord) = records
    <3> DEFINE r == Client!WordRecord
    <3>1. r \in Seq(Field) /\ Len(r) > 0
      BY RecordsOfWords
    <3> HIDE DEF r
    <3>2. Server!Times(n, r) = Client!Times(n, r)
      BY <3>1, TimesTyped
    <3> QED
      BY <3>2 DEF r
  <2>3. fa = TwoOfWords
    BY TwoOfWordsJoined
  <2> HIDE DEF s, words
  <2>4. Server!return_jbiki(n, k, c) = p1 \o p2 \o Server!Puts(Server!Times(n, Server!WordRecord))
                                          \o d \o Server!Times(n, words)
    BY DEF Server!return_jbiki, s, words
  <2> HIDE DEF records, p1, p2, d, fa
  <2>5. WordFields(n) = ((fa \o records) \o fd) \o fe
    BY <2>3 DEF WordFields, records
  <2> QED
    BY <2>1, <2>2, <2>4, <2>5
<1> HIDE DEF s
<1>4. Matches(p1, f1) /\ Len(p1) = 1
  BY <1>1, PutMatches
<1>5. Matches(p2, f2) /\ Len(p2) = 1
  BY <1>1, <1>2, PutMatches
<1>6. Matches(d, fd) /\ Len(d) = 1 /\ d[1].v = -1
  BY <1>1, PutMatches
<1>7. records \in Seq(Field) /\ Len(records) = 7 * n
  BY SameRecords
<1>8. Matches(e, fe)
  <2>1. Matches(words, TextsOfWord) /\ Len(words) = 2
    BY TextsOfWordMatch
  <2> HIDE DEF words
  <2>2. Len(words) > 0
    BY <2>1
  <2> QED
    BY <2>1, <2>2, TimesMatch
<1> HIDE DEF p1, p2, f1, f2, d, fd, e, fe, records
<1>9. Matches(b, records) /\ Len(b) = 7 * n /\ \A i \in 1 .. 7 * n : b[i].v = 0
  <2>1. Len(b) = Len(records) /\ \A i \in 1 .. Len(records) : b[i].v = 0
    BY <1>7, PutsKeep
  <2>2. Matches(b, records)
    BY <1>7, PutsMatch
  <2> QED
    BY <1>7, <2>1, <2>2
<1> HIDE DEF b
<1>10. Matches(a, fa) /\ Len(a) = 2
  <2>1. Matches(a, fa) /\ Len(a) = Len(p1) + Len(p2)
    BY <1>4, <1>5, MatchJoined
  <2> QED
    BY <1>4, <1>5, <2>1
<1> HIDE DEF a, fa
<1>11. Matches(ab, fab) /\ Len(ab) = 2 + 7 * n /\ \A i \in 1 .. 7 * n : ab[2 + i].v = 0
  <2>1. Matches(a, fa)
    BY <1>10
  <2>2. Matches(b, records)
    BY <1>9
  <2>3. Matches(ab, fab) /\ Len(ab) = Len(a) + Len(b)
    BY <2>1, <2>2, MatchJoined
  <2>4. \A i \in 1 .. Len(b) : ab[Len(a) + i] = b[i]
    BY <2>1, <2>2, MatchJoined
  <2> QED
    BY <1>9, <1>10, <2>3, <2>4
<1> HIDE DEF ab, fab
<1>12. /\ Matches(abd, fabd) /\ Len(abd) = 3 + 7 * n
       /\ \A i \in 1 .. 7 * n : abd[2 + i].v = 0
       /\ abd[7 * n + 3].v = -1
  <2>1. Matches(ab, fab)
    BY <1>11
  <2>2. Matches(d, fd)
    BY <1>6
  <2>3. Matches(abd, fabd) /\ Len(abd) = Len(ab) + Len(d)
    BY <2>1, <2>2, MatchJoined
  <2>4. \A i \in 1 .. Len(ab) : abd[i] = ab[i]
    BY <2>1, <2>2, MatchJoined
  <2>5. \A i \in 1 .. Len(d) : abd[Len(ab) + i] = d[i]
    BY <2>1, <2>2, MatchJoined
  <2>6. Len(ab) + 1 = 7 * n + 3 /\ 1 \in 1 .. Len(d)
    BY <1>6, <1>11
  <2>7. abd[7 * n + 3].v = -1
    BY <1>6, <2>5, <2>6
  <2>8. \A i \in 1 .. 7 * n : 2 + i \in 1 .. Len(ab)
    BY <1>11
  <2> QED
    BY <1>6, <1>11, <2>3, <2>4, <2>7, <2>8
<1> HIDE DEF abd, fabd
<1>13. Matches(g, fabd \o fe) /\ Len(g) >= 7 * n + 3 /\ \A i \in 1 .. 7 * n + 3 : g[i] = abd[i]
  <2>1. Matches(abd, fabd)
    BY <1>12
  <2>2. Matches(g, fabd \o fe) /\ Len(g) = Len(abd) + Len(e)
    BY <1>8, <2>1, MatchJoined
  <2>3. \A i \in 1 .. Len(abd) : g[i] = abd[i]
    BY <1>8, <2>1, MatchJoined
  <2>4. Len(e) \in Nat
    BY <1>8 DEF Matches
  <2> QED
    BY <1>12, <2>2, <2>3, <2>4
<1> HIDE DEF g
<1>14. ASSUME NEW m \in 0 .. n - 1
       PROVE  g[7 * m + 3].v = 0
  <2>1. 7 * m + 1 \in 1 .. 7 * n /\ 2 + (7 * m + 1) = 7 * m + 3 /\ 7 * m + 3 \in 1 .. 7 * n + 3
    OBVIOUS
  <2> QED
    BY <1>12, <1>13, <2>1
<1>15. g[7 * n + 3].v = -1
  <2>1. 7 * n + 3 \in 1 .. 7 * n + 3
    OBVIOUS
  <2> QED
    BY <1>12, <1>13, <2>1
<1> QED
  BY <1>3, <1>13, <1>14, <1>15

\* return_jbiki agrees with rcv_word_data, for any number of words.
LEMMA WordsAgree ==
    ASSUME NEW c, c # "JS_DISCONNECT",
           \A a \in Seq(Int) : Reads(c, a) = Client!rcv_word_data(a),
           NEW n \in Nat, NEW k \in Nat, NEW m \in Nat
    PROVE  /\ Server!return_jbiki(n, k, m) \in Seq(Filled)
           /\ Agrees(c, Server!return_jbiki(n, k, m))
<1> DEFINE g == Server!return_jbiki(n, k, m)
           fields == WordFields(n)
           last == 7 * n + 3
<1>1. Matches(g, fields)
  BY WordsMatch
<1>2. Len(g) >= last /\ g[last].v = -1
  BY WordsMatch
<1>3. \A i \in 0 .. n - 1 : g[7 * i + 3].v = 0
  BY WordsMatch
<1>4. g \in Seq(Filled) /\ Len(g) \in Nat
  BY <1>1 DEF Matches
<1> HIDE DEF g
<1>5. ASSUME NEW j \in 0 .. Len(g)
      PROVE  /\ j >= last => Reads(c, Values(g, j)) = fields
             /\ j < last => /\ Len(Reads(c, Values(g, j))) > j
                            /\ Reads(c, Values(g, j))[j + 1] = fields[j + 1]
  <2> DEFINE b == Values(g, j)
  <2>1. b \in Seq(Int) /\ Len(b) = j /\ \A i \in 1 .. j : b[i] = g[i].v
    BY <1>4, ValuesKeep
  <2> HIDE DEF b
  <2>2. ASSUME NEW i \in 0 .. n - 1, 7 * i + 3 <= Len(b)
        PROVE  b[7 * i + 3] = 0
    <3>1. 7 * i + 3 \in 1 .. j
      BY <2>1, <2>2
    <3> QED
      BY <1>3, <2>1, <3>1
  <2>3. last <= Len(b) => b[last] = -1
    BY <1>2, <2>1
  <2>4. Reads(c, b) = Client!rcv_word_data(b)
    BY <2>1
  <2>5. Len(b) >= last => Client!rcv_word_data(b) = fields
    BY <2>1, <2>2, <2>3, WordReads
  <2>6. Len(b) < last => /\ Len(Client!rcv_word_data(b)) > Len(b)
                         /\ Client!rcv_word_data(b)[Len(b) + 1] = fields[Len(b) + 1]
    BY <2>1, <2>2, <2>3, WordReads
  <2> HIDE DEF last, fields
  <2> QED
    BY <2>1, <2>4, <2>5, <2>6 DEF b
<1>6. last \in 1 .. Len(g)
  BY <1>2, <1>4
<1> HIDE DEF fields, last
<1>7. \A j \in 0 .. last - 1 : /\ Len(Reads(c, Values(g, j))) > j
                               /\ Reads(c, Values(g, j))[j + 1] = fields[j + 1]
  BY <1>4, <1>5, <1>6
<1>8. \A j \in last .. Len(g) : Reads(c, Values(g, j)) = fields
  BY <1>4, <1>5, <1>6
<1>9. Agrees(c, g)
  BY <1>1, <1>6, <1>7, <1>8, KnownAfter
<1> QED
  BY <1>4, <1>9 DEF g

\* The two searches for words.
LEMMA SearchCommands == Right("JS_WORD_SEARCH") /\ Right("JS_WORD_SEARCH_BY_ENV")
<1> DEFINE IsSearch(c, takes) ==
              /\ c \in CommandNames \ Transfers /\ takes \in Seq(Field) /\ c # "JS_DISCONNECT"
              /\ Server!Table[c] = Server!Courses(takes, Server!WordLists)
              /\ \A a : Client!Js(c, a) = Client!Call(takes, Client!rcv_word_data(a))
<1> USE DEF CommandNames, Transfers, Field, Kinds, Names, Server!Table,
            Server!envhandle, Client!Js, Client!env_head, INT, Text,
            Server!INT, Server!Text, Client!INT, Client!Text
<1>1. IsSearch("JS_WORD_SEARCH", <<INT("env")>> \o <<INT("dic_no"), Text("yomi")>>)
  BY DEF Server!js_word_search, Client!js_word_search
<1>2. IsSearch("JS_WORD_SEARCH_BY_ENV", <<INT("env")>> \o <<Text("yomi")>>)
  BY DEF Server!js_word_search_by_env, Client!js_word_search_by_env
<1> HIDE DEF CommandNames, Transfers, Field, Kinds, Names, Server!Table,
            Server!envhandle, Client!Js, Client!env_head, INT, Text,
            Server!INT, Server!Text, Client!INT, Client!Text
<1>3. ASSUME NEW c, NEW takes, IsSearch(c, takes)
      PROVE  Right(c)
  <2>1. Asked(c) = takes
    BY <1>3 DEF Asked, Transfers, Client!Call
  <2>2. \A a \in Seq(Int) : Reads(c, a) = Client!rcv_word_data(a)
    BY <1>3 DEF Reads, Client!Call
  <2>3. \A course \in Server!Table[c] :
          /\ course.takes = takes
          /\ \E n \in Nat, k \in Nat, m \in Nat : course.gives = Server!return_jbiki(n, k, m)
    <3>1. MaxItems \in Nat
      BY BoundsAssumption
    <3> QED
      BY <1>3, <3>1 DEF Server!Courses, Server!WordLists
  <2>4. \A n \in Nat, k \in Nat, m \in Nat :
          /\ Server!return_jbiki(n, k, m) \in Seq(Filled)
          /\ Agrees(c, Server!return_jbiki(n, k, m))
    BY <1>3, <2>2, WordsAgree
  <2> QED
    BY <1>3, <2>1, <2>3, <2>4 DEF Right
<1> HIDE DEF IsSearch
<1> QED
  BY <1>1, <1>2, <1>3

\* js_word_info: one word.
LEMMA WordInfo == Right("JS_WORD_INFO")
<1> DEFINE c == "JS_WORD_INFO"
           takes == <<INT("env")>> \o Ints(<<"dic_no", "entry">>)
           jb == Server!return_jbiki(1, 1, 1)
           h(y) == Server!put4("status", 0) \o <<Server!Put(Server!Text("yomi"), y)>>
           g(y) == h(y) \o jb
           fh == <<INT("status")>> \o <<Text("yomi")>>
           fields == fh \o WordFields(1)
           after(a) == SubSeq(a, 3, Len(a))
<1>1. c \in CommandNames \ Transfers /\ {"status", "yomi"} \subseteq Names /\ c # "JS_DISCONNECT"
  BY DEF CommandNames, Transfers, Server!Table, Names
<1>2. takes \in Seq(Field) /\ Asked(c) = takes
  BY DEF Asked, Client!Js, Client!js_word_info, Client!Call, Client!env_head, Client!INT, INT,
         Ints, Client!Ints, Field, Kinds, Names
<1>3. \A course \in Server!Table[c] :
        /\ course.takes = takes
        /\ course.gives = Server!error_ret("status") \/ \E y \in Nat : course.gives = g(y)
  <2>1. Server!Table[c] = Server!js_word_info
    BY DEF Server!Table
  <2>2. Server!envhandle(Server!Ints(<<"dic_no", "entry">>)) = takes
    BY DEF Server!envhandle, Server!Ints, Server!INT, Ints, INT
  <2> HIDE DEF takes, c, jb
  <2>3. Server!js_word_info
          = Server!Courses(takes, {Server!error_ret("status")} \cup {g(y) : y \in 1 .. 2})
    BY <2>2 DEF Server!js_word_info, jb
  <2> HIDE DEF g
  <2> QED
    BY <2>1, <2>3 DEF Server!Courses
<1>4. \A a \in Seq(Int) :
        Reads(c, a) = Client!checked(a, "status", <<Text("yomi")>> \o Client!rcv_word_data(after(a)))
  BY DEF Reads, Transfers, Client!Js, Client!js_word_info, Client!Call, Client!Text, Text
<1> HIDE DEF c, takes
<1>5. ASSUME NEW a \in Seq(Int), Len(a) > 0 => a[1] # -1
      PROVE  Reads(c, a) = <<INT("status")>> \o (<<Text("yomi")>> \o Client!rcv_word_data(after(a)))
  <2>1. Len(a) = 0 \/ (Len(a) > 0 /\ a[1] # -1)
    BY <1>5
  <2> HIDE DEF after
  <2> QED
    <3> DEFINE rest == <<Text("yomi")>> \o Client!rcv_word_data(after(a))
    <3>1. Reads(c, a) = Client!checked(a, "status", rest)
      BY <1>4
    <3> HIDE DEF rest
    <3>2. Reads(c, a) = <<INT("status")>> \o rest
      BY <2>1, <3>1, CheckedReads
    <3> QED
      BY <3>2 DEF rest
<1>6. fh \in Seq(Field) /\ Len(fh) = 2 /\ <<INT("status")>> \in Seq(Field) /\ <<Text("yomi")>> \in Seq(Field)
  BY DEF INT, Text, Field, Kinds, Names
<1>7. ASSUME NEW w \in Seq(Field)
      PROVE  /\ <<INT("status")>> \o (<<Text("yomi")>> \o w) = fh \o w
             /\ Len(fh \o w) = 2 + Len(w)
             /\ \A i \in 1 .. 2 : (fh \o w)[i] = fh[i]
             /\ \A i \in 1 .. Len(w) : (fh \o w)[2 + i] = w[i]
  <2> DEFINE x == <<INT("status")>>
             y == <<Text("yomi")>>
  <2>1. x \in Seq(Field) /\ y \in Seq(Field) /\ fh = x \o y
    BY <1>6
  <2> HIDE DEF x, y, fh
  <2>2. x \o (y \o w) = fh \o w
    BY <2>1, FieldsRegrouped
  <2>3. Len(fh \o w) = Len(fh) + Len(w)
    BY <1>6, ConcatProperties
  <2>4. \A i \in 1 .. Len(fh) + Len(w) : (fh \o w)[i] = IF i <= Len(fh) THEN fh[i] ELSE w[i - Len(fh)]
    BY <1>6, ConcatProperties
  <2>5. Len(w) \in Nat
    OBVIOUS
  <2>6. ASSUME NEW i \in 1 .. 2
        PROVE  (fh \o w)[i] = fh[i]
    <3>1. i \in 1 .. Len(fh) + Len(w) /\ i <= Len(fh)
      BY <1>6, <2>5
    <3> QED
      BY <2>4, <3>1
  <2>7. ASSUME NEW i \in 1 .. Len(w)
        PROVE  (fh \o w)[2 + i] = w[i]
    <3>1. 2 + i \in 1 .. Len(fh) + Len(w) /\ ~(2 + i <= Len(fh)) /\ (2 + i) - Len(fh) = i
      BY <1>6, <2>5
    <3> QED
      BY <2>4, <3>1
  <2> QED
    BY <1>6, <2>2, <2>3, <2>6, <2>7 DEF x, y
<1>8. /\ Matches(jb, WordFields(1)) /\ Len(jb) >= 10 /\ jb[3].v = 0 /\ jb[10].v = -1
  <2>1. Matches(jb, WordFields(1))
    BY WordsMatch
  <2>2. Len(jb) >= 7 * 1 + 3 /\ jb[7 * 1 + 3].v = -1
    <3>1. \A n \in Nat, k \in Nat, m \in Nat :
             /\ Len(Server!return_jbiki(n, k, m)) >= 7 * n + 3
             /\ Server!return_jbiki(n, k, m)[7 * n + 3].v = -1
      <4> SUFFICES ASSUME NEW n \in Nat, NEW k \in Nat, NEW m \in Nat
                   PROVE  /\ Len(Server!return_jbiki(n, k, m)) >= 7 * n + 3
                          /\ Server!return_jbiki(n, k, m)[7 * n + 3].v = -1
        OBVIOUS
      <4>1. Len(Server!return_jbiki(n, k, m)) >= 7 * n + 3
        BY WordsMatch
      <4>2. Server!return_jbiki(n, k, m)[7 * n + 3].v = -1
        BY WordsMatch
      <4> QED
        BY <4>1, <4>2
    <3>2. 1 \in Nat
      OBVIOUS
    <3> QED
      BY <3>1, <3>2, Zenon
  <2>3. \A m \in 0 .. 1 - 1 : jb[7 * m + 3].v = 0
    <3>1. \A n \in Nat, k \in Nat, l \in Nat :
             \A m \in 0 .. n - 1 : Server!return_jbiki(n, k, l)[7 * m + 3].v = 0
      BY WordsMatch
    <3>2. 1 \in Nat
      OBVIOUS
    <3> QED
      BY <3>1, <3>2, Zenon
  <2>4. 0 \in 0 .. 1 - 1 /\ 7 * 0 + 3 = 3 /\ 7 * 1 + 3 = 10
    OBVIOUS
  <2> HIDE DEF jb
  <2>5. jb[3].v = 0
    BY <2>3, <2>4
  <2> QED
    BY <2>1, <2>2, <2>4, <2>5
<1> HIDE DEF jb
<1>9. ASSUME NEW y \in Nat
      PROVE  /\ Matches(g(y), fields) /\ Len(g(y)) = 2 + Len(jb) /\ g(y)[1].v = 0
             /\ \A i \in 1 .. Len(jb) : g(y)[2 + i] = jb[i]
  <2> DEFINE p == Server!put4("status", 0)
             q == <<Server!Put(Server!Text("yomi"), y)>>
             fp == <<INT("status")>>
             fq == <<Text("yomi")>>
  <2>1. Matches(p, fp) /\ Len(p) = 1 /\ p[1].v = 0
    BY <1>1, PutMatches
  <2>2. Matches(q, fq) /\ Len(q) = 1
    BY <1>1, TextMatches
  <2> HIDE DEF p, q, fp, fq
  <2>3. Matches(p \o q, fp \o fq) /\ Len(p \o q) = Len(p) + Len(q)
    BY <2>1, <2>2, MatchJoined
  <2>4. \A i \in 1 .. Len(p) : (p \o q)[i] = p[i]
    BY <2>1, <2>2, MatchJoined
  <2>5. h(y) = p \o q /\ fh = fp \o fq
    BY DEF p, q, fp, fq
  <2> HIDE DEF h, fh
  <2>6. Matches(h(y), fh) /\ Len(h(y)) = 2 /\ h(y)[1].v = 0
    BY <2>1, <2>2, <2>3, <2>4, <2>5
  <2>7. Matches(h(y), fh) /\ Matches(jb, WordFields(1))
    BY <1>8, <2>6
  <2> DEFINE hy == h(y)
  <2> HIDE DEF hy
  <2>8. Matches(hy, fh) /\ hy = h(y)
    BY <2>7 DEF hy
  <2>9. Matches(hy \o jb, fh \o WordFields(1)) /\ Len(hy \o jb) = Len(hy) + Len(jb)
    BY <2>7, <2>8, MatchJoined
  <2>10. \A i \in 1 .. Len(hy) : (hy \o jb)[i] = hy[i]
    BY <2>7, <2>8, MatchJoined
  <2>11. \A i \in 1 .. Len(jb) : (hy \o jb)[Len(hy) + i] = jb[i]
    BY <2>7, <2>8, MatchJoined
  <2>12. g(y) = hy \o jb /\ fields = fh \o WordFields(1)
    BY <2>8
  <2>13. Len(hy) = 2 /\ hy[1].v = 0 /\ 1 \in 1 .. Len(hy)
    <3>1. Len(hy) = 2 /\ hy[1].v = 0
      BY <2>6, <2>8
    <3>2. 1 \in 1 .. 2
      OBVIOUS
    <3> QED
      BY <3>1, <3>2
  <2> HIDE DEF g, fields
  <2>14. Matches(g(y), fields) /\ Len(g(y)) = 2 + Len(jb)
    BY <2>9, <2>12, <2>13
  <2>15. g(y)[1].v = 0
    BY <2>10, <2>12, <2>13
  <2>16. \A i \in 1 .. Len(jb) : g(y)[2 + i] = jb[i]
    BY <2>11, <2>12, <2>13
  <2> QED
    BY <2>14, <2>15, <2>16
<1> HIDE DEF g, fh, h
<1>10. Len(jb) \in Nat
  BY <1>8 DEF Matches
<1>11. ASSUME NEW y \in Nat, NEW j \in 0 .. Len(g(y))
       PROVE  /\ j >= 12 => Reads(c, Values(g(y), j)) = fields
              /\ j < 12 => /\ Len(Reads(c, Values(g(y), j))) > j
                           /\ Reads(c, Values(g(y), j))[j + 1] = fields[j + 1]
  <2> DEFINE a == Values(g(y), j)
             b == after(a)
             w == Client!rcv_word_data(b)
  <2>1. g(y) \in Seq(Filled) /\ Len(g(y)) = 2 + Len(jb)
    BY <1>9 DEF Matches
  <2>2. a \in Seq(Int) /\ Len(a) = j /\ \A i \in 1 .. j : a[i] = g(y)[i].v
    BY <2>1, ValuesKeep
  <2> HIDE DEF a
  <2>3. /\ b \in Seq(Int) /\ Len(b) = IF j <= 2 THEN 0 ELSE j - 2
        /\ \A i \in 1 .. j - 2 : b[i] = a[i + 2]
    BY <1>10, <2>1, <2>2
  <2> HIDE DEF b, after
  <2>4. ASSUME NEW i \in 1 .. Len(b)
        PROVE  b[i] = jb[i].v
    <3>1. i \in 1 .. j - 2 /\ i + 2 \in 1 .. j /\ i \in 1 .. Len(jb) /\ i + 2 = 2 + i
      BY <1>10, <2>1, <2>3
    <3>2. a[i + 2] = g(y)[i + 2].v
      BY <2>2, <3>1
    <3>3. g(y)[2 + i] = jb[i]
      BY <1>9, <3>1
    <3> QED
      BY <2>3, <3>1, <3>2, <3>3
  <2>5. \A m \in 0 .. 1 - 1 : 7 * m + 3 <= Len(b) => b[7 * m + 3] = 0
    <3>1. Len(b) \in Nat
      BY <2>3
    <3>2. 3 <= Len(b) => b[3] = 0
      BY <1>8, <2>4, <3>1
    <3> QED
      BY <3>2
  <2>6. 7 * 1 + 3 <= Len(b) => b[7 * 1 + 3] = -1
    <3>1. Len(b) \in Nat
      BY <2>3
    <3>2. 10 <= Len(b) => b[10] = -1
      BY <1>8, <2>4, <3>1
    <3> QED
      BY <3>2
  <2>7. w \in Seq(Field)
    BY <2>3, <2>5, <2>6, WordReads
  <2>8. Len(b) >= 7 * 1 + 3 => w = WordFields(1)
    BY <2>3, <2>5, <2>6, WordReads
  <2>9. Len(b) < 7 * 1 + 3 => Len(w) > Len(b) /\ w[Len(b) + 1] = WordFields(1)[Len(b) + 1]
    BY <2>3, <2>5, <2>6, WordReads
  <2>10. Reads(c, a) = fh \o w
    <3>1. Len(a) > 0 => a[1] # -1
      BY <1>9, <2>2
    <3>2. Reads(c, a) = <<INT("status")>> \o (<<Text("yomi")>> \o w)
      BY <1>5, <2>2, <3>1 DEF b
    <3> QED
      BY <1>7, <2>7, <3>2
  <2> HIDE DEF w
  <2>11. CASE j >= 12
    <3>1. Len(b) >= 7 * 1 + 3
      BY <2>3, <2>11
    <3> QED
      BY <2>8, <2>10, <2>11, <3>1 DEF a
  <2>12. CASE j < 12
    <3>1. WordFields(1) \in Seq(Field) /\ Len(WordFields(1)) >= 10 /\ Len(WordFields(1)) \in Nat
      BY <1>8 DEF Matches
    <3>2. Len(w) \in Nat
      BY <2>7
    <3>3. Len(b) < 7 * 1 + 3 /\ Len(b) \in Nat
      BY <2>3, <2>12
    <3>4. Len(fh \o w) = 2 + Len(w) /\ Len(w) > Len(b)
      BY <1>7, <2>7, <2>9, <3>3
    <3>5. Len(fh \o w) > j
      BY <2>3, <3>2, <3>3, <3>4
    <3>6. CASE j < 2
      <4>1. j + 1 \in 1 .. 2
        BY <3>6
      <4>2. (fh \o w)[j + 1] = fh[j + 1]
        BY <1>7, <2>7, <4>1
      <4>3. fields[j + 1] = fh[j + 1]
        BY <1>7, <3>1, <4>1
      <4>4. Reads(c, Values(g(y), j)) = fh \o w
        BY <2>10 DEF a
      <4> HIDE DEF fields
      <4>5. Reads(c, Values(g(y), j))[j + 1] = fields[j + 1]
        BY <4>2, <4>3, <4>4
      <4>6. Len(Reads(c, Values(g(y), j))) > j
        BY <3>5, <4>4
      <4> QED
        BY <2>12, <4>5, <4>6
    <3>7. CASE j >= 2
      <4>1. Len(b) + 1 \in 1 .. Len(w) /\ Len(b) + 1 \in 1 .. Len(WordFields(1)) /\ 2 + (Len(b) + 1) = j + 1
        BY <2>3, <3>1, <3>2, <3>3, <3>4, <3>7
      <4>2. (fh \o w)[2 + (Len(b) + 1)] = w[Len(b) + 1]
        BY <1>7, <2>7, <4>1
      <4>3. fields[2 + (Len(b) + 1)] = WordFields(1)[Len(b) + 1]
        BY <1>7, <3>1, <4>1
      <4>4. Reads(c, Values(g(y), j)) = fh \o w
        BY <2>10 DEF a
      <4> HIDE DEF fields
      <4>5. Reads(c, Values(g(y), j))[j + 1] = fields[j + 1]
        BY <2>9, <3>3, <4>1, <4>2, <4>3, <4>4
      <4>6. Len(Reads(c, Values(g(y), j))) > j
        BY <3>5, <4>4
      <4> QED
        BY <2>12, <4>5, <4>6
    <3> HIDE DEF fields, a
    <3>8. j < 2 \/ j >= 2
      BY <2>1
    <3> QED
      BY <3>6, <3>7, <3>8
  <2> QED
    BY <2>11, <2>12
<1> HIDE DEF fields
<1>12. ASSUME NEW y \in Nat
       PROVE  g(y) \in Seq(Filled) /\ Agrees(c, g(y))
  <2> DEFINE gy == g(y)
  <2>1. gy \in Seq(Filled) /\ Len(gy) \in Nat /\ Matches(gy, fields) /\ Len(gy) >= 12
    BY <1>8, <1>9, <1>10 DEF Matches
  <2>2. \A j \in 0 .. 12 - 1 : /\ Len(Reads(c, Values(gy, j))) > j
                               /\ Reads(c, Values(gy, j))[j + 1] = fields[j + 1]
    <3> SUFFICES ASSUME NEW j \in 0 .. 12 - 1
                 PROVE  /\ Len(Reads(c, Values(gy, j))) > j
                        /\ Reads(c, Values(gy, j))[j + 1] = fields[j + 1]
      OBVIOUS
    <3>1. j \in 0 .. Len(g(y)) /\ j < 12
      BY <2>1
    <3> QED
      BY <1>11, <3>1
  <2>3. \A j \in 12 .. Len(gy) : Reads(c, Values(gy, j)) = fields
    <3> SUFFICES ASSUME NEW j \in 12 .. Len(gy)
                 PROVE  Reads(c, Values(gy, j)) = fields
      OBVIOUS
    <3>1. j \in 0 .. Len(g(y)) /\ j >= 12
      BY <2>1
    <3> QED
      BY <1>11, <3>1
  <2> HIDE DEF gy
  <2>4. 12 \in 1 .. Len(gy) /\ Matches(gy, fields)
    BY <2>1
  <2>5. Agrees(c, gy)
    BY <1>1, <2>2, <2>3, <2>4, KnownAfter
  <2> QED
    BY <2>1, <2>5 DEF gy
<1>13. Server!error_ret("status") \in Seq(Filled) /\ Agrees(c, Server!error_ret("status"))
  <2>1. <<>> \in Seq(Int) /\ Len(<<>>) = 0
    OBVIOUS
  <2>2. after(<<>>) \in Seq(Int) /\ Len(after(<<>>)) = 0
    OBVIOUS
  <2> DEFINE b == after(<<>>)
             w == Client!rcv_word_data(b)
  <2>3. b \in Seq(Int) /\ Len(b) = 0
    BY <2>2
  <2> HIDE DEF b, after
  <2>4. w \in Seq(Field)
    <3>1. \A m \in 0 .. 1 - 1 : 7 * m + 3 <= Len(b) => b[7 * m + 3] = 0
      BY <2>3
    <3>2. 7 * 1 + 3 <= Len(b) => b[7 * 1 + 3] = -1
      BY <2>3
    <3> QED
      BY <2>3, <3>1, <3>2, WordReads
  <2> DEFINE v == <<Text("yomi")>> \o w
  <2>5. Reads(c, <<>>) = <<INT("status")>> \o v
    <3>1. Len(<<>>) > 0 => <<>>[1] # -1
      BY <2>1
    <3> QED
      BY <1>5, <2>1, <3>1 DEF b
  <2>6. v \in Seq(Field)
    BY <1>6, <2>4, ConcatProperties
  <2> HIDE DEF v
  <2>7. Len(Reads(c, <<>>)) > 0 /\ Reads(c, <<>>)[1] = INT("status")
    BY <1>1, <2>5, <2>6, FirstField
  <2>8. ASSUME NEW a \in Seq(Int), Len(a) > 0, a[1] = -1
        PROVE  Reads(c, a) = <<INT("status")>> \o <<INT("errno")>>
    BY <1>4, <2>8, CheckedReads
  <2> QED
    BY <1>1, <2>7, <2>8, RefusalAgrees
<1>14. Right(c)
  BY <1>2, <1>3, <1>12, <1>13 DEF Right
<1> QED
  BY <1>14 DEF c

(***************************************************************************)
(* JS_DISCONNECT: the status of a refusal is sent twice, and the second    *)
(* one is taken for the error number.                                      *)
(***************************************************************************)
LEMMA ReadsOfDisconnect ==
    ASSUME NEW a \in Seq(Int)
    PROVE  /\ Len(a) = 0 \/ a[1] # -1 => Reads("JS_DISCONNECT", a) = <<INT("status")>>
           /\ Len(a) > 0 /\ a[1] = -1 => Reads("JS_DISCONNECT", a) = <<INT("status")>> \o <<INT("errno")>>
<1>1. Reads("JS_DISCONNECT", a) = Client!checked(a, "status", <<>>)
  BY DEF Reads, Transfers, Client!Js, Client!js_disconnect, Client!Call, Client!status
<1>2. <<INT("status")>> \o <<>> = <<INT("status")>>
  BY DEF INT
<1>3. CASE Len(a) = 0
  BY <1>1, <1>2, <1>3, CheckedReads
<1>4. CASE Len(a) > 0 /\ a[1] # -1
  BY <1>1, <1>2, <1>4, CheckedReads
<1>5. CASE Len(a) > 0 /\ a[1] = -1
  <2>1. Client!checked(a, "status", <<>>) = <<INT("status")>> \o <<INT("errno")>>
    BY <1>5, CheckedReads
  <2> QED
    BY <1>1, <1>5, <2>1
<1>6. Len(a) = 0 \/ Len(a) > 0
  OBVIOUS
<1> QED
  BY <1>3, <1>4, <1>5, <1>6

\* js_disconnect reads the status of a disconnection that was done.
LEMMA DisconnectAccepted ==
    LET g == Server!put4("status", 0)
    IN  g \in Seq(Filled) /\ Agrees("JS_DISCONNECT", g)
<1> DEFINE g == Server!put4("status", 0)
           d == INT("status")
<1>1. "status" \in Names /\ 0 \in Int
  BY DEF Names
<1>2. g \in Seq(Filled) /\ Len(g) = 1 /\ g[1].v = 0 /\ Is(g[1], d)
  <2>1. Matches(g, <<d>>) /\ Len(g) = 1 /\ g[1].v = 0 /\ <<d>>[1] = d
    BY <1>1, PutMatches
  <2> QED
    BY <2>1 DEF Matches
<1> HIDE DEF g
<1>3. /\ Values(g, 0) = <<>> /\ Values(g, 0) \in Seq(Int)
      /\ Values(g, 1) \in Seq(Int) /\ Len(Values(g, 1)) = 1 /\ Values(g, 1)[1] = 0
  BY <1>2, ValuesKeep
<1>4. Reads("JS_DISCONNECT", Values(g, 0)) = <<d>>
  BY <1>3, ReadsOfDisconnect
<1>5. Reads("JS_DISCONNECT", Values(g, 1)) = <<d>>
  BY <1>3, ReadsOfDisconnect
<1> HIDE DEF d
<1>6. ReadOf("JS_DISCONNECT", g) = 1
  BY <1>2 DEF ReadOf
<1>7. Len(<<d>>) = 1 /\ <<d>>[1] = d
  OBVIOUS
<1>8. \A k \in 0 .. 0 : /\ Len(Reads("JS_DISCONNECT", Values(g, k))) > k
                        /\ Fits("JS_DISCONNECT", g[k + 1], Reads("JS_DISCONNECT", Values(g, k))[k + 1])
  BY <1>2, <1>4, <1>7 DEF Fits
<1>9. Agrees("JS_DISCONNECT", g)
  <2>1. ReadOf("JS_DISCONNECT", g) \in 1 .. Len(g) /\ ReadOf("JS_DISCONNECT", g) - 1 = 0
    BY <1>2, <1>6
  <2>2. Len(Reads("JS_DISCONNECT", Values(g, ReadOf("JS_DISCONNECT", g)))) = ReadOf("JS_DISCONNECT", g)
    BY <1>5, <1>6, <1>7
  <2>3. \A i \in 1 .. 1 :
          Fits("JS_DISCONNECT", g[i], Reads("JS_DISCONNECT", Values(g, ReadOf("JS_DISCONNECT", g)))[i])
    BY <1>2, <1>5, <1>6, <1>7 DEF Fits
  <2> QED
    BY <1>6, <1>8, <2>1, <2>2, <2>3, Zenon DEF Agrees
<1> QED
  BY <1>2, <1>9 DEF g

\* js_disconnect reads the two statuses of a refusal, not its error number.
LEMMA DisconnectRefused ==
    LET g == Server!put4("status", -1) \o Server!error_ret("status")
    IN  g \in Seq(Filled) /\ Agrees("JS_DISCONNECT", g)
<1> DEFINE p == Server!put4("status", -1)
           r == Server!error_ret("status")
           g == p \o r
           d == INT("status")
           e == INT("errno")
           fields == <<d>> \o <<e>>
<1>1. {"status", "errno"} \subseteq Names /\ -1 \in Int /\ 1 \in Int
  BY DEF Names
<1>2. Matches(p, <<d>>) /\ Len(p) = 1 /\ p[1].v = -1 /\ <<d>>[1] = d
  BY <1>1, PutMatches
<1>3. r \in Seq(Filled) /\ Len(r) = 2
  <2> DEFINE s == Server!put4("status", -1)
             t == Server!put4("errno", 1)
  <2>1. s \in Seq(Filled) /\ Len(s) = 1
    BY <1>1, PutMatches DEF Matches
  <2>2. t \in Seq(Filled) /\ Len(t) = 1
    BY <1>1, PutMatches DEF Matches
  <2>3. r = s \o t
    BY DEF Server!error_ret
  <2> HIDE DEF r, s, t
  <2> QED
    BY <2>1, <2>2, <2>3, ConcatProperties
<1>4. p \in Seq(Filled) /\ Is(p[1], d)
  BY <1>2 DEF Matches
<1> HIDE DEF p, r, d, e
<1>5. g \in Seq(Filled) /\ Len(g) = 3 /\ g[1] = p[1]
  <2>1. g \in Seq(Filled) /\ Len(g) = Len(p) + Len(r)
    BY <1>3, <1>4, ConcatProperties
  <2>2. \A i \in 1 .. Len(p) + Len(r) : g[i] = IF i <= Len(p) THEN p[i] ELSE r[i - Len(p)]
    BY <1>3, <1>4, ConcatProperties
  <2>3. 1 \in 1 .. Len(p) + Len(r) /\ 1 <= Len(p)
    BY <1>2, <1>3
  <2> HIDE DEF g
  <2> QED
    BY <1>2, <1>3, <2>1, <2>2, <2>3
<1> HIDE DEF g
<1>6. /\ Values(g, 0) = <<>> /\ Values(g, 0) \in Seq(Int)
      /\ Values(g, 1) \in Seq(Int) /\ Len(Values(g, 1)) = 1 /\ Values(g, 1)[1] = -1
      /\ Values(g, 2) \in Seq(Int) /\ Len(Values(g, 2)) = 2 /\ Values(g, 2)[1] = -1
  <2>1. Values(g, 0) = <<>> /\ Values(g, 0) \in Seq(Int)
    BY <1>5, ValuesKeep
  <2>2. ASSUME NEW k \in 1 .. 2
        PROVE  Values(g, k) \in Seq(Int) /\ Len(Values(g, k)) = k /\ Values(g, k)[1] = -1
    <3>1. k \in 0 .. Len(g) /\ 1 \in 1 .. k
      BY <1>5
    <3> QED
      BY <1>2, <1>5, <3>1, ValuesKeep
  <2> QED
    BY <2>1, <2>2
<1>7. Reads("JS_DISCONNECT", Values(g, 0)) = <<d>>
  BY <1>6, ReadsOfDisconnect DEF d
<1>8. Reads("JS_DISCONNECT", Values(g, 1)) = fields /\ Reads("JS_DISCONNECT", Values(g, 2)) = fields
  BY <1>6, ReadsOfDisconnect DEF d, e
<1>9. Len(fields) = 2 /\ fields[2] = e /\ Len(<<d>>) = 1
  OBVIOUS
<1>10. ReadOf("JS_DISCONNECT", g) = 2
  BY <1>2, <1>5 DEF ReadOf
<1>11. Fits("JS_DISCONNECT", g[1], d) /\ Fits("JS_DISCONNECT", g[2], e)
  BY <1>4, <1>5 DEF Fits, e
<1>12. fields[1] = d
  OBVIOUS
<1> HIDE DEF fields
<1>13. ASSUME NEW k \in 0 .. 1
       PROVE  /\ Len(Reads("JS_DISCONNECT", Values(g, k))) > k
              /\ Fits("JS_DISCONNECT", g[k + 1], Reads("JS_DISCONNECT", Values(g, k))[k + 1])
  <2>1. CASE k = 0
    BY <1>2, <1>7, <1>9, <1>11, <2>1
  <2>2. CASE k = 1
    BY <1>8, <1>9, <1>11, <2>2
  <2> QED
    BY <2>1, <2>2
<1>14. Agrees("JS_DISCONNECT", g)
  <2>1. ReadOf("JS_DISCONNECT", g) \in 1 .. Len(g) /\ ReadOf("JS_DISCONNECT", g) - 1 = 1
    BY <1>5, <1>10
  <2>2. Len(Reads("JS_DISCONNECT", Values(g, ReadOf("JS_DISCONNECT", g)))) = ReadOf("JS_DISCONNECT", g)
    BY <1>8, <1>9, <1>10
  <2>3. \A i \in 1 .. 2 :
          Fits("JS_DISCONNECT", g[i], Reads("JS_DISCONNECT", Values(g, ReadOf("JS_DISCONNECT", g)))[i])
    BY <1>8, <1>9, <1>10, <1>11, <1>12
  <2> QED
    BY <1>10, <1>13, <2>1, <2>2, <2>3, Zenon DEF Agrees
<1>15. g = Server!put4("status", -1) \o Server!error_ret("status")
  BY DEF g, p, r
<1> QED
  BY <1>5, <1>14, <1>15, Zenon

\* js_disconnect is right, if what it leaves of a refusal is not counted.
LEMMA Disconnect == Right("JS_DISCONNECT")
<1> DEFINE takes == <<INT("env")>> \o <<>>
<1>1. takes \in Seq(Field) /\ Asked("JS_DISCONNECT") = takes
  BY DEF Asked, Client!Js, Client!js_disconnect, Client!Call, Client!env_head, Client!INT, INT,
         Field, Kinds, Names
<1>2. Server!Table["JS_DISCONNECT"] = Server!js_disconnect
  BY DEF Server!Table
<1>3. Server!envhandle(<<>>) = takes
  BY DEF Server!envhandle, Server!INT, INT
<1> HIDE DEF takes
<1>4. \A course \in Server!js_disconnect :
        /\ course.takes = takes
        /\ \/ course.gives = Server!put4("status", 0)
           \/ course.gives = Server!put4("status", -1) \o Server!error_ret("status")
  BY <1>3 DEF Server!js_disconnect, Server!Courses
<1> QED
  BY <1>1, <1>2, <1>4, DisconnectAccepted, DisconnectRefused DEF Right

(***************************************************************************)
(* Every command is right, and the last turn of a transfer agrees with     *)
(* what the client reads.                                                  *)
(***************************************************************************)
\* Each js_* function of js.c and its handler in jserver agree field by field: the
\* handler takes what the function asks, and whichever of its courses it runs, the
\* function, which decides by the values it has read what to read next, reads
\* every field of the answer as what it is and stops at its end.
THEOREM EveryCommandRight == \A c \in CommandNames \ Transfers : Right(c)
<1> SUFFICES ASSUME NEW c \in DOMAIN Server!Table PROVE Right(c)
  BY DEF CommandNames
<1>1. \/ c \in {"JS_OPEN", "JS_PARAM_SET", "JS_MKDIR", "JS_HINDO_FILE_CREATE",
                "JS_DIC_FILE_CREATE", "JS_FILE_DISCARD", "JS_FILE_REMOVE",
                "JS_FILE_COMMENT_SET", "JS_FILE_PASSWORD_SET", "JS_DIC_DELETE", "JS_DIC_USE",
                "JS_FUZOKUGO_SET", "JS_WORD_ADD", "JS_WORD_DELETE", "JS_WORD_COMMENT_SET",
                "JS_HINDO_SET", "JS_HINSI_TABLE_SET", "JS_CONNECT", "JS_FILE_INFO",
                "JS_HINDO_FILE_CREATE_CLIENT", "JS_FILE_READ", "JS_FILE_WRITE", "JS_DIC_ADD",
                "JS_FUZOKUGO_GET", "JS_DIC_INFO", "JS_HINSI_NUMBER", "JS_PARAM_GET", "JS_CLOSE"}
      \/ c \in {"JS_VERSION", "JS_KILL", "JS_ENV_EXIST", "JS_ENV_STICKY", "JS_ENV_UN_STICKY",
                "JS_ACCESS", "JS_FILE_STAT", "JS_FILE_LOADED", "JS_FILE_LOADED_LOCAL"}
      \/ c \in {"JS_FILE_LIST_ALL", "JS_FILE_LIST", "JS_DIC_LIST_ALL", "JS_DIC_LIST",
                "JS_HINSI_DICTS"}
      \/ c \in {"JS_WHO", "JS_ENV_LIST", "JS_HINSI_NAME", "JS_HINSI_LIST", "JS_KANTAN_SHO",
                "JS_KANZEN_SHO", "JS_KANREN", "JS_KANTAN_DAI", "JS_KANZEN_DAI",
                "JS_WORD_SEARCH", "JS_WORD_SEARCH_BY_ENV", "JS_WORD_INFO", "JS_DISCONNECT"}
  BY DEF Server!Table
<1>2. /\ Right("JS_WHO") /\ Right("JS_ENV_LIST") /\ Right("JS_HINSI_NAME")
      /\ Right("JS_HINSI_LIST") /\ Right("JS_KANTAN_SHO") /\ Right("JS_KANZEN_SHO")
      /\ Right("JS_KANREN") /\ Right("JS_KANTAN_DAI") /\ Right("JS_KANZEN_DAI")
      /\ Right("JS_WORD_SEARCH") /\ Right("JS_WORD_SEARCH_BY_ENV") /\ Right("JS_WORD_INFO")
      /\ Right("JS_DISCONNECT")
  BY HolderCommands, HinsiName, HinsiList, ShoCommands, DaiCommands, SearchCommands, WordInfo,
     Disconnect
<1>3. CASE c \in {"JS_WHO", "JS_ENV_LIST", "JS_HINSI_NAME", "JS_HINSI_LIST", "JS_KANTAN_SHO",
                  "JS_KANZEN_SHO", "JS_KANREN", "JS_KANTAN_DAI", "JS_KANZEN_DAI",
                  "JS_WORD_SEARCH", "JS_WORD_SEARCH_BY_ENV", "JS_WORD_INFO", "JS_DISCONNECT"}
  BY <1>2, <1>3
<1> QED
  BY <1>1, <1>3, EitherCommands, OneFieldCommands, ListCommands

\* The last turn of a transfer: a status, or a refusal.
LEMMA StatusAgrees ==
    ASSUME NEW c \in Transfers, NEW g \in Statuses
    PROVE  g \in Seq(Filled) /\ Agrees(c, g)
<1>1. c # "JS_DISCONNECT" /\ "status" \in Names /\ <<>> \in Seq(Field)
  BY DEF Transfers, Names
<1>2. \A a \in Seq(Int) : Reads(c, a) = Client!checked(a, "status", <<>>)
  BY DEF Reads, Client!status
<1>3. CASE g = Server!error_ret("status")
  BY <1>1, <1>2, <1>3, CheckedAgrees
<1>4. CASE g \in {Server!put4("status", 0), Server!put4("status", 1)}
  <2>1. PICK v \in 0 .. 1 : g = Server!put4("status", v)
    BY <1>4
  <2>2. v \in Int \ {-1}
    OBVIOUS
  <2>3. g \in Seq(Filled)
    BY <1>1, <2>1, <2>2, PutMatches DEF Matches
  <2>4. g \o <<>> = g
    BY <2>3, ConcatEmptySeq
  <2>5. Matches(<<>>, <<>>)
    BY DEF Matches
  <2>6. Agrees(c, Server!put4("status", v) \o <<>>)
    BY <1>1, <1>2, <2>2, <2>5, CheckedAgrees
  <2> QED
    BY <2>1, <2>3, <2>4, <2>6
<1> QED
  BY <1>3, <1>4 DEF Statuses

\* Every answer agrees with what the client reads.
LEMMA AnswersAgree ==
    ASSUME NEW c \in CommandNames, NEW g \in Answers(c)
    PROVE  g \in Seq(Filled) /\ Agrees(c, g)
<1>1. CASE c \in Transfers
  BY <1>1, StatusAgrees DEF Answers
<1>2. CASE c \notin Transfers
  <2>1. PICK course \in Server!Table[c] : g = course.gives
    BY <1>2 DEF Answers
  <2> QED
    BY <1>2, <2>1, EveryCommandRight DEF Right
<1> QED
  BY <1>1, <1>2

\* Every request is made of fields.
LEMMA AskedTyped ==
    ASSUME NEW c \in CommandNames
    PROVE  Asked(c) \in Seq(Field)
<1>1. CASE c \notin Transfers
  BY <1>1, EveryCommandRight DEF Right
<1>2. CASE c \in Transfers
  <2>1. CASE c = "JS_FILE_SEND"
    BY <2>1 DEF Asked, FileUniq, Ints, INT, Bytes, Field, Kinds, Names
  <2>2. CASE c = "JS_FILE_RECEIVE"
    BY <2>2 DEF Asked, Ints, INT, Field, Kinds, Names
  <2> QED
    BY <1>2, <2>1, <2>2 DEF Transfers
<1> QED
  BY <1>1, <1>2

----------------------------------------------------------------------------
(***************************************************************************)
(* The invariant: what each side has sent and the other has not read, for  *)
(* every place where the client and the server can be.                     *)
(***************************************************************************)
Upward == sr \o up
Downward == cr \o down

Request == <<Header(cl.call, cl.cmd)>> \o Asks(cl.call, Asked(cl.cmd))

\* The turns of the transfers.
Loaded(v, r) == Of(cl.call, Server!put4("loaded", v) \o r)
Turn(r) == Of(cl.call, r)
Name == Of(cl.call, Server!Puts(<<Str("name")>>))
Modes == {Server!put4("mode", m) : m \in 1 .. 3}
Stream(n, r) == FileStream(cl.call, n) \o Of(cl.call, r)

(***************************************************************************)
(* The client waits, and nothing of an answer has come.                    *)
(***************************************************************************)
Awaits(pc) == cl.pc = pc /\ cl.got = <<>> /\ Downward = <<>>
Started == cl.cmd \in CommandNames /\ Awaits(FirstRead(cl.cmd))

(***************************************************************************)
(* The client has, or finds in the socket, all that it needs to return.    *)
(***************************************************************************)
AnswerIsThere ==
    /\ cl.pc = "answer" /\ cl.cmd \in CommandNames
    /\ \E g \in Answers(cl.cmd) : \E k \in 0 .. ReadOf(cl.cmd, g) :
          cl.got = Values(g, k) /\ Downward = Left(cl.call, g, k)

LoadedIsThere ==
    /\ cl.pc = "loaded" /\ cl.cmd = "JS_FILE_SEND"
    /\ \/ \E r \in Statuses : Downward = Loaded(1, r)
       \/ Downward = Loaded(-1, Server!error_ret("status"))

RefusalIsThere ==
    /\ cl.pc = "may_send" /\ cl.cmd = "JS_FILE_SEND"
    /\ Downward = Turn(Server!error_ret("status"))

NoModeIsThere ==
    /\ cl.pc = "mode" /\ cl.cmd = "JS_FILE_RECEIVE"
    /\ \E r \in {Server!error_ret("mode"), Server!put4("mode", 0)} : Downward = Turn(r)

FileIsThere ==
    /\ cl.pc = "body" /\ cl.cmd = "JS_FILE_RECEIVE"
    /\ \E n \in 0 .. MaxContents, r \in Statuses : Downward = Stream(n, r)

Satisfied ==
    \/ cl.pc = "idle" /\ down = <<>>
    \/ AnswerIsThere \/ LoadedIsThere \/ RefusalIsThere \/ NoModeIsThere \/ FileIsThere

(***************************************************************************)
(* A turn of a transfer is on its way, and the client will write the next. *)
(***************************************************************************)
MaySend ==
    /\ cl.cmd = "JS_FILE_SEND"
    /\ \/ cl.pc = "loaded" /\ Downward = Loaded(-1, Server!put4("status", 1))
       \/ cl.pc = "may_send" /\ Downward = Turn(Server!put4("status", 1))
       \/ Awaits("put_file")
NameIsThere == cl.cmd = "JS_FILE_RECEIVE" /\ cl.pc = "name" /\ Downward = Name
ModeIsThere ==
    /\ cl.cmd = "JS_FILE_RECEIVE" /\ cl.pc = "mode"
    /\ \E r \in Modes : Downward = Turn(r)

(***************************************************************************)
(* A refused file: the client has returned, and may have written the next  *)
(* request, before the server reads the refusal.                           *)
(***************************************************************************)
Refused ==
    \/ cl.pc = "idle" /\ down = <<>> /\ srv.call = cl.call /\ Upward = Ack(-1)
    \/ Started /\ up = Request /\ sr = Of(srv.call, Server!put4("ack", -1))

(***************************************************************************)
(* The places of the server.                                               *)
(***************************************************************************)
AtTop == (Satisfied /\ up = <<>>) \/ (Started /\ up = Request)
AtCommand == Started /\ Upward = Request

Here(c) == cl.cmd = c /\ srv.call = cl.call
Args == Upward = Asks(cl.call, srv.takes) /\ srv.takes # <<>>
AtArgs ==
    /\ Started /\ srv.call = cl.call /\ cl.cmd \notin Transfers
    /\ Args /\ srv.gives \in Answers(cl.cmd)
AtUniq == Started /\ Here("JS_FILE_SEND") /\ Args
AtName ==
    /\ Here("JS_FILE_SEND") /\ srv.takes = <<Str("name")>>
    /\ \/ Upward = <<>> /\ MaySend
       \/ Awaits("answer") /\ \E n \in 1 .. MaxContents :
              Upward = Asks(cl.call, <<Str("name")>>) \o FileStream(cl.call, n)
AtFile ==
    /\ Here("JS_FILE_SEND") /\ Awaits("answer")
    /\ \E n \in 0 .. MaxContents : Upward = FileStream(cl.call, n)
AtFid == Started /\ Here("JS_FILE_RECEIVE") /\ Args
AtAck ==
    /\ srv.takes = <<INT("ack")>>
    /\ \/ Here("JS_FILE_RECEIVE") /\ NameIsThere /\ Upward = <<>>
       \/ /\ Here("JS_FILE_RECEIVE") /\ Awaits("mode")
          /\ Upward = Ack(0) \o Asks(cl.call, FileUniq)
       \/ Refused
AtToUniq == Here("JS_FILE_RECEIVE") /\ Awaits("mode") /\ Args
AtGo ==
    /\ srv.takes = <<INT("ack")>>
    /\ \/ Here("JS_FILE_RECEIVE") /\ ModeIsThere /\ Upward = <<>>
       \/ Here("JS_FILE_RECEIVE") /\ Awaits("body") /\ Upward = Ack(0)
       \/ Refused

Course ==
    /\ srv.pc = "top" => AtTop
    /\ srv.pc = "command" => AtCommand
    /\ srv.pc = "args" => AtArgs
    /\ srv.pc = "uniq" => AtUniq
    /\ srv.pc = "name" => AtName
    /\ srv.pc = "file" => AtFile
    /\ srv.pc = "fid" => AtFid
    /\ srv.pc = "ack" => AtAck
    /\ srv.pc = "to_uniq" => AtToUniq
    /\ srv.pc = "go" => AtGo

(***************************************************************************)
(* What the client finds of a server that has died: all of an answer, or   *)
(* none of it.                                                             *)
(***************************************************************************)
Dead ==
    /\ Upward = <<>>
    /\ \/ Satisfied \/ Started \/ MaySend \/ NameIsThere \/ ModeIsThere
       \/ cl.cmd = "JS_FILE_SEND" /\ Awaits("answer")
       \/ cl.cmd = "JS_FILE_RECEIVE" /\ (Awaits("mode") \/ Awaits("body"))

InStep == ~astray => IF alive THEN Course ELSE Dead

Typed ==
    /\ cl \in [pc : ClientReads, cmd : CommandNames \cup {"none"}, call : Nat,
               got : Seq(Value), dead : BOOLEAN]
    /\ cl.pc # "answer" => cl.got = <<>>
    /\ srv \in [pc : ServerReads, call : Nat, takes : Seq(Field), gives : Seq(Filled)]
    /\ cr \in Seq(AnyToken) /\ down \in Seq(AnyToken)
    /\ sr \in Seq(AnyToken) /\ up \in Seq(AnyToken)
    /\ alive \in BOOLEAN /\ astray \in BOOLEAN

(***************************************************************************)
(* The server does nothing but wait: for a command, or for the next turn   *)
(* of a transfer.                                                          *)
(***************************************************************************)
Rests == IF alive THEN srv.pc = "top" /\ up = <<>> ELSE Upward = <<>>
Serves(c, pc, field) ==
    Upward = <<>> /\ (alive => srv.pc = pc /\ Here(c) /\ srv.takes = <<field>>)

----------------------------------------------------------------------------
(***************************************************************************)
(* What reading and writing do to what is on its way.                      *)
(***************************************************************************)
LEMMA ReadDown ==
    ASSUME Typed, cr # <<>>, cr' = Tail(cr), down' = down
    PROVE  /\ Downward # <<>> /\ Got = Head(Downward) /\ Downward' = Tail(Downward)
           /\ Got \in AnyToken /\ cr' \in Seq(AnyToken) /\ down' \in Seq(AnyToken)
  BY ReadsFirst DEF Typed, Downward, Got

\* getc_cur takes the first of what is on its way to the server.
LEMMA ReadUp ==
    ASSUME Typed, sr # <<>>, sr' = Tail(sr), up' = up
    PROVE  /\ Upward # <<>> /\ SGot = Head(Upward) /\ Upward' = Tail(Upward)
           /\ SGot \in AnyToken /\ sr' \in Seq(AnyToken) /\ up' \in Seq(AnyToken)
  BY ReadsFirst DEF Typed, Upward, SGot

\* What is on its way is in the buffer of the reader or in the socket.
LEMMA NothingOnTheWay ==
    ASSUME Typed
    PROVE  /\ Downward \in Seq(AnyToken) /\ Upward \in Seq(AnyToken)
           /\ Downward = <<>> <=> cr = <<>> /\ down = <<>>
           /\ Upward = <<>> <=> sr = <<>> /\ up = <<>>
           /\ cr = <<>> => Downward = down
           /\ sr = <<>> => Upward = up
<1>1. /\ Downward \in Seq(AnyToken) /\ (cr = <<>> => Downward = down)
      /\ Downward = <<>> <=> cr = <<>> /\ down = <<>>
  <2>1. cr \in Seq(AnyToken) /\ down \in Seq(AnyToken)
    BY DEF Typed
  <2>2. Downward \in Seq(AnyToken) /\ (cr = <<>> => Downward = down)
    BY <2>1, ConcatProperties, ConcatEmptySeq DEF Downward
  <2>3. Downward = <<>> <=> cr = <<>> /\ down = <<>>
    BY <2>1, ConcatEqualIffEmpty DEF Downward
  <2> QED
    BY <2>2, <2>3
<1>2. /\ Upward \in Seq(AnyToken) /\ (sr = <<>> => Upward = up)
      /\ Upward = <<>> <=> sr = <<>> /\ up = <<>>
  <2>1. sr \in Seq(AnyToken) /\ up \in Seq(AnyToken)
    BY DEF Typed
  <2>2. Upward \in Seq(AnyToken) /\ (sr = <<>> => Upward = up)
    BY <2>1, ConcatProperties, ConcatEmptySeq DEF Upward
  <2>3. Upward = <<>> <=> sr = <<>> /\ up = <<>>
    BY <2>1, ConcatEqualIffEmpty DEF Upward
  <2> QED
    BY <2>2, <2>3
<1> QED
  BY <1>1, <1>2

\* What the server writes is all there is on the way to the client.
LEMMA WrittenDown ==
    ASSUME Typed, Downward = <<>>, NEW s \in Seq(AnyToken), down' = down \o s, cr' = cr
    PROVE  Downward' = s /\ down' \in Seq(AnyToken)
<1>1. cr = <<>> /\ down = <<>>
  BY NothingOnTheWay
<1> QED
  BY <1>1, Joined DEF Downward

\* What the client writes is all there is on the way, if the server is alive.
LEMMA WrittenUp ==
    ASSUME Typed, Upward = <<>>, NEW s \in Seq(AnyToken), up' = Sent(s), sr' = sr
    PROVE  /\ alive => Upward' = s /\ up' = s
           /\ ~alive => Upward' = <<>> /\ up' = <<>>
           /\ up' \in Seq(AnyToken)
<1>1. sr = <<>> /\ up = <<>>
  BY NothingOnTheWay
<1> QED
  BY <1>1, Joined DEF Upward, Sent

\* One token that is put.
LEMMA OnePut ==
    ASSUME NEW n \in Nat, NEW f \in Names, NEW v \in Int
    PROVE  LET s == Of(n, Server!put4(f, v))
           IN  /\ s \in Seq(AnyToken) /\ s # <<>> /\ Len(s) = 1 /\ Tail(s) = <<>>
               /\ Head(s) = [call |-> n, k |-> "int", f |-> f, v |-> v]
<1> DEFINE s == Of(n, Server!put4(f, v))
           t == [call |-> n, k |-> "int", f |-> f, v |-> v]
<1>1. Server!put4(f, v) \in Seq(Filled) /\ Len(Server!put4(f, v)) = 1
      /\ Server!put4(f, v)[1] = [k |-> "int", f |-> f, v |-> v]
  BY PutTyped
<1>2. Token(n, Server!put4(f, v)[1]) = t
  BY <1>1 DEF Token
<1>3. s \in Seq(AnyToken) /\ Len(s) = 1 /\ s[1] = t
  BY <1>1, <1>2, OfKeeps
<1> HIDE DEF s, t
<1>4. s # <<>> /\ Head(s) = t
  BY <1>3
<1>5. Tail(s) \in Seq(AnyToken) /\ Len(Tail(s)) = 0
  BY <1>3
<1>6. Tail(s) = <<>>
  BY <1>5, EmptySeq
<1> QED
  BY <1>3, <1>4, <1>6 DEF s, t

----------------------------------------------------------------------------
(***************************************************************************)
(* Every command has a course, so every js_* function reads something.     *)
(***************************************************************************)
LEMMA CoursesSome ==
    /\ \A takes, answers : answers # {} => Server!Courses(takes, answers) # {}
    /\ \A takes, f, rest : Server!Either(takes, f, rest) # {}
    /\ \A takes : Server!Done(takes) # {}
    /\ \A takes, item : Server!Listed(takes, item) # {}
<1>1. \A takes, answers : answers # {} => Server!Courses(takes, answers) # {}
  BY DEF Server!Courses
<1>2. \A takes, f, rest : Server!Either(takes, f, rest) # {}
  BY <1>1 DEF Server!Either
<1>3. \A takes : Server!Done(takes) # {}
  BY <1>2 DEF Server!Done
<1>4. 0 \in 0 .. MaxItems
  BY BoundsAssumption
<1>5. \A takes, item : Server!Listed(takes, item) # {}
  BY <1>1, <1>4 DEF Server!Listed
<1> QED
  BY <1>1, <1>2, <1>3, <1>5

\* The answers that are lists are not none.
LEMMA ListsSome ==
    /\ Server!DaiAnswers # {} /\ Server!ShoAnswers # {} /\ Server!WordLists # {}
<1>1. 0 \in 0 .. MaxItems /\ 1 \in 1 .. 2 /\ 0 \in 0 .. 1
  BY BoundsAssumption
<1>2. Server!return_jbiki(0, 1, 0) \in Server!WordLists
  BY <1>1 DEF Server!WordLists
<1> QED
  BY <1>2 DEF Server!DaiAnswers, Server!ShoAnswers

\* The server has a course for every command.
LEMMA SomeCourse ==
    ASSUME NEW c \in DOMAIN Server!Table
    PROVE  Server!Table[c] # {}
<1> USE CoursesSome, ListsSome
<1>1. /\ Server!js_open # {} /\ Server!js_close # {} /\ Server!js_version # {}
      /\ Server!js_connect # {} /\ Server!js_env_sticky # {} /\ Server!js_env_un_sticky # {}
      /\ Server!js_disconnect # {} /\ Server!js_param_set # {} /\ Server!js_param_get # {}
      /\ Server!js_mkdir # {}
  BY DEF Server!js_open, Server!js_close, Server!js_version, Server!js_connect,
         Server!js_env_sticky, Server!js_env_un_sticky, Server!js_disconnect,
         Server!js_param_set, Server!js_param_get, Server!js_mkdir
<1>2. /\ Server!js_kill # {} /\ Server!js_env_exist # {} /\ Server!js_access # {}
      /\ Server!js_file_stat # {} /\ Server!js_file_loaded # {} /\ Server!js_file_loaded_local # {}
  <2>1. 0 \in 0 .. 1 /\ 0 \in -1 .. 0 /\ 0 \in -1 .. 1
    OBVIOUS
  <2> QED
    BY <2>1 DEF Server!js_kill, Server!js_env_exist, Server!js_access, Server!js_file_stat,
                Server!js_file_loaded, Server!js_file_loaded_local
<1>3. /\ Server!js_file_list_all # {} /\ Server!js_file_list # {} /\ Server!js_file_info # {}
      /\ Server!js_hindo_file_create # {} /\ Server!js_hindo_file_create_client # {}
      /\ Server!js_dic_file_create # {} /\ Server!js_file_discard # {} /\ Server!js_file_read # {}
      /\ Server!js_file_write # {} /\ Server!js_file_remove # {}
      /\ Server!js_file_comment_set # {} /\ Server!js_file_password_set # {}
  BY DEF Server!js_file_list_all, Server!js_file_list, Server!js_file_info,
         Server!js_hindo_file_create, Server!js_hindo_file_create_client,
         Server!js_dic_file_create, Server!js_file_discard, Server!js_file_read,
         Server!js_file_write, Server!js_file_remove, Server!js_file_comment_set,
         Server!js_file_password_set
<1>4. /\ Server!js_dic_add # {} /\ Server!js_dic_delete # {} /\ Server!js_dic_use # {}
      /\ Server!js_fuzokugo_set # {} /\ Server!js_fuzokugo_get # {}
      /\ Server!js_dic_list_all # {} /\ Server!js_dic_list # {} /\ Server!js_dic_info # {}
      /\ Server!js_word_add # {} /\ Server!js_word_delete # {}
      /\ Server!js_word_comment_set # {} /\ Server!js_hindo_set # {}
  BY DEF Server!js_dic_add, Server!js_dic_delete, Server!js_dic_use, Server!js_fuzokugo_set,
         Server!js_fuzokugo_get, Server!js_dic_list_all, Server!js_dic_list,
         Server!js_dic_info, Server!js_word_add, Server!js_word_delete,
         Server!js_word_comment_set, Server!js_hindo_set
<1>5. /\ Server!js_word_search # {} /\ Server!js_word_search_by_env # {}
      /\ Server!js_word_info # {} /\ Server!js_who # {} /\ Server!js_env_list # {}
      /\ Server!js_hinsi_name # {} /\ Server!js_hinsi_number # {} /\ Server!js_hinsi_list # {}
      /\ Server!js_hinsi_dicts # {} /\ Server!js_hinsi_table_set # {}
  BY DEF Server!js_word_search, Server!js_word_search_by_env, Server!js_word_info,
         Server!js_who, Server!js_env_list, Server!js_hinsi_name, Server!js_hinsi_number,
         Server!js_hinsi_list, Server!js_hinsi_dicts, Server!js_hinsi_table_set
<1>6. /\ Server!do_kanren # {} /\ Server!do_kantan_dai # {} /\ Server!do_kantan_sho # {}
      /\ Server!do_kanzen_dai # {} /\ Server!do_kanzen_sho # {}
  BY DEF Server!do_kanren, Server!do_kantan_dai, Server!do_kantan_sho, Server!do_kanzen_dai,
         Server!do_kanzen_sho
<1> HIDE CoursesSome, ListsSome
<1> QED
  BY <1>1, <1>2, <1>3, <1>4, <1>5, <1>6 DEF Server!Table

\* Every js_* function reads something before it returns.
LEMMA ReadsSome ==
    ASSUME NEW c \in CommandNames
    PROVE  Len(Reads(c, <<>>)) > 0
<1>1. PICK g \in Answers(c) : TRUE
  <2>1. CASE c \in Transfers
    BY <2>1 DEF Answers, Statuses
  <2>2. CASE c \notin Transfers
    BY <2>2, SomeCourse DEF Answers, CommandNames
  <2> QED
    BY <2>1, <2>2
<1>2. g \in Seq(Filled) /\ Agrees(c, g)
  BY AnswersAgree
<1>3. 0 \in 0 .. ReadOf(c, g) - 1 /\ 0 \in 0 .. Len(g)
  BY <1>2 DEF Agrees
<1>4. Values(g, 0) = <<>>
  BY <1>2, <1>3, ValuesKeep
<1>5. Len(Reads(c, Values(g, 0))) > 0
  BY <1>2, <1>3 DEF Agrees
<1> QED
  BY <1>4, <1>5

----------------------------------------------------------------------------
(***************************************************************************)
(* recv moves what is on its way, and changes nothing of it.               *)
(***************************************************************************)
LEMMA SameForTheClient ==
    ASSUME cl' = cl, Downward' = Downward
    PROVE  /\ AnswerIsThere' <=> AnswerIsThere
           /\ LoadedIsThere' <=> LoadedIsThere
           /\ RefusalIsThere' <=> RefusalIsThere
           /\ NoModeIsThere' <=> NoModeIsThere
           /\ FileIsThere' <=> FileIsThere
           /\ MaySend' <=> MaySend
           /\ NameIsThere' <=> NameIsThere
           /\ ModeIsThere' <=> ModeIsThere
           /\ Started' <=> Started
           /\ Request' = Request
           /\ \A pc : Awaits(pc)' <=> Awaits(pc)
<1>1. \A pc : Awaits(pc)' <=> Awaits(pc)
  BY DEF Awaits
<1>2. Started' <=> Started
  BY <1>1 DEF Started
<1>3. Request' = Request
  BY DEF Request
<1>4. AnswerIsThere' <=> AnswerIsThere
  BY DEF AnswerIsThere
<1>5. LoadedIsThere' <=> LoadedIsThere
  BY DEF LoadedIsThere, Loaded
<1>6. (RefusalIsThere' <=> RefusalIsThere) /\ (NoModeIsThere' <=> NoModeIsThere)
  BY DEF RefusalIsThere, NoModeIsThere, Turn
<1>7. FileIsThere' <=> FileIsThere
  BY DEF FileIsThere, Stream
<1>8. MaySend' <=> MaySend
  BY <1>1 DEF MaySend, Loaded, Turn
<1>9. (NameIsThere' <=> NameIsThere) /\ (ModeIsThere' <=> ModeIsThere)
  BY DEF NameIsThere, Name, ModeIsThere, Turn
<1> QED
  BY <1>1, <1>2, <1>3, <1>4, <1>5, <1>6, <1>7, <1>8, <1>9

\* get1com fills its buffer.
LEMMA RecvInStep ==
    ASSUME Typed, InStep, ~astray, recv
    PROVE  Typed' /\ InStep'
<1> USE DEF recv
<1>1. PICK k \in 1 .. Len(down) : cr' = Taken(down, k) /\ down' = Rest(down, k)
  OBVIOUS
<1>2. cr = <<>> /\ cl.pc # "idle" /\ down \in Seq(AnyToken)
  BY DEF Waiting, Typed
<1>3. cr' \in Seq(AnyToken) /\ down' \in Seq(AnyToken) /\ cr' \o down' = down
  BY <1>1, <1>2, RecvKeeps
<1>4. Downward' = Downward
  BY <1>2, <1>3, NothingOnTheWay DEF Downward
<1>5. Typed'
  BY <1>3 DEF Typed
<1>6. Satisfied' <=> Satisfied
  BY <1>2, <1>4, SameForTheClient DEF Satisfied
<1>7. Upward' = Upward /\ (Refused' <=> Refused)
  BY <1>2, <1>4, SameForTheClient DEF Refused, Upward
<1>8. alive /\ Course => Course'
  BY <1>4, <1>6, <1>7, SameForTheClient
     DEF Course, AtTop, AtCommand, AtArgs, AtUniq, AtName, AtFile, AtFid, AtAck, AtToUniq, AtGo, Here, Args, Ack
<1>9. Dead => Dead'
  BY <1>4, <1>6, <1>7, SameForTheClient DEF Dead
<1> QED
  BY <1>5, <1>8, <1>9 DEF InStep

\* getc_cur fills its buffer.
LEMMA Rcv1ClientInStep ==
    ASSUME Typed, InStep, ~astray, rcv_1_client
    PROVE  Typed' /\ InStep'
<1> USE DEF rcv_1_client
<1>1. PICK k \in 1 .. Len(up) : sr' = Taken(up, k) /\ up' = Rest(up, k)
  OBVIOUS
<1>2. sr = <<>> /\ srv.pc # "top" /\ up \in Seq(AnyToken) /\ srv.call \in Nat
  BY DEF Typed
<1>3. sr' \in Seq(AnyToken) /\ up' \in Seq(AnyToken) /\ sr' \o up' = up
  BY <1>1, <1>2, RecvKeeps
<1>4. Upward' = Upward /\ Downward' = Downward /\ cl' = cl
  BY <1>2, <1>3, NothingOnTheWay DEF Upward, Downward
<1>5. Typed'
  BY <1>3 DEF Typed
<1>6. Refused => Refused'
  <2>1. Of(srv.call, Server!put4("ack", -1)) # <<>>
    <3>1. "ack" \in Names /\ -1 \in Int
      BY DEF Names
    <3> QED
      BY <1>2, <3>1, OnePut
  <2> QED
    BY <1>2, <1>4, <2>1 DEF Refused, Ack
<1>7. Course => Course'
  BY <1>2, <1>4, <1>6, SameForTheClient
     DEF Course, AtTop, AtCommand, AtArgs, AtUniq, AtName, AtFile, AtFid, AtAck, AtToUniq, AtGo, Here, Args, Ack
<1> QED
  BY <1>5, <1>7 DEF InStep

\* The loop of the daemon goes to the next command.
LEMMA GetClientInStep ==
    ASSUME Typed, InStep, ~astray, get_client
    PROVE  Typed' /\ InStep'
<1> USE DEF get_client, forget_rest
<1>1. PICK k \in 1 .. Len(up) : sr' = <<>> \o Taken(up, k) /\ up' = Rest(up, k)
  OBVIOUS
<1>2. srv.pc = "top" /\ up \in Seq(AnyToken) /\ up # <<>> /\ alive
  BY <1>1 DEF Typed
<1>3. /\ Taken(up, k) \in Seq(AnyToken) /\ Rest(up, k) \in Seq(AnyToken)
      /\ Taken(up, k) \o Rest(up, k) = up
  BY <1>2, RecvKeeps
<1>4. sr' = Taken(up, k)
  BY <1>1, <1>3, Joined
<1>5. Upward' = up /\ Downward' = Downward /\ cl' = cl
  BY <1>1, <1>3, <1>4 DEF Upward, Downward
<1>6. srv'.pc = "command" /\ srv' \in [pc : ServerReads, call : Nat, takes : Seq(Field), gives : Seq(Filled)]
  BY DEF Typed, ServerReads
<1>7. Typed'
  BY <1>1, <1>3, <1>4, <1>6 DEF Typed
<1>8. Started /\ up = Request
  BY <1>2 DEF InStep, Course, AtTop
<1>9. AtCommand'
  BY <1>5, <1>8, SameForTheClient DEF AtCommand
<1> QED
  BY <1>2, <1>6, <1>7, <1>9 DEF InStep, Course

----------------------------------------------------------------------------
(***************************************************************************)
(* The steps of the client.                                                *)
(***************************************************************************)
LEMMA HowItWaits ==
    ASSUME Typed, InStep, ~astray, Downward # <<>>, cl.pc # "idle"
    PROVE  \/ Satisfied /\ Rests
           \/ MaySend /\ Serves("JS_FILE_SEND", "name", Str("name"))
           \/ NameIsThere /\ Serves("JS_FILE_RECEIVE", "ack", INT("ack"))
           \/ ModeIsThere /\ Serves("JS_FILE_RECEIVE", "go", INT("ack"))
<1>1. ~Started /\ \A pc : ~Awaits(pc)
  BY DEF Started, Awaits
<1>2. ~Refused
  BY <1>1 DEF Refused
<1>3. CASE alive
  <2>1. srv.pc = "top" => Satisfied /\ Rests
    BY <1>1, <1>3 DEF InStep, Course, AtTop, Rests
  <2>2. srv.pc \notin {"command", "args", "uniq", "file", "fid", "to_uniq"}
    BY <1>1, <1>3 DEF InStep, Course, AtCommand, AtArgs, AtUniq, AtFile, AtFid, AtToUniq
  <2>3. srv.pc = "name" => MaySend /\ Serves("JS_FILE_SEND", "name", Str("name"))
    BY <1>1, <1>3 DEF InStep, Course, AtName, Serves
  <2>4. srv.pc = "ack" => NameIsThere /\ Serves("JS_FILE_RECEIVE", "ack", INT("ack"))
    BY <1>1, <1>2, <1>3 DEF InStep, Course, AtAck, Serves
  <2>5. srv.pc = "go" => ModeIsThere /\ Serves("JS_FILE_RECEIVE", "go", INT("ack"))
    BY <1>1, <1>2, <1>3 DEF InStep, Course, AtGo, Serves
  <2> QED
    BY <2>1, <2>2, <2>3, <2>4, <2>5 DEF Typed, ServerReads
<1>4. CASE ~alive
  BY <1>1, <1>4 DEF InStep, Dead, Rests, Serves
<1> QED
  BY <1>3, <1>4

\* The parts of InStep that a step may go to.
LEMMA StaysInStep ==
    /\ Satisfied' /\ Rests' => InStep'
    /\ MaySend' /\ Serves("JS_FILE_SEND", "name", Str("name"))' => InStep'
    /\ NameIsThere' /\ Serves("JS_FILE_RECEIVE", "ack", INT("ack"))' => InStep'
    /\ ModeIsThere' /\ Serves("JS_FILE_RECEIVE", "go", INT("ack"))' => InStep'
<1>1. ASSUME Satisfied', Rests'
      PROVE  InStep'
  BY <1>1 DEF Rests, InStep, Course, Dead, AtTop
<1>2. ASSUME MaySend', Serves("JS_FILE_SEND", "name", Str("name"))'
      PROVE  InStep'
  BY <1>2 DEF Serves, InStep, Course, Dead, AtName
<1>3. ASSUME NameIsThere', Serves("JS_FILE_RECEIVE", "ack", INT("ack"))'
      PROVE  InStep'
  BY <1>3 DEF Serves, InStep, Course, Dead, AtAck
<1>4. ASSUME ModeIsThere', Serves("JS_FILE_RECEIVE", "go", INT("ack"))'
      PROVE  InStep'
  BY <1>4 DEF Serves, InStep, Course, Dead, AtGo
<1> QED
  BY <1>1, <1>2, <1>3, <1>4

\* What a step that only reads changes: cl, and what has come.
LEMMA PlacesKept ==
    ASSUME UNCHANGED <<up, sr, srv, alive>>
    PROVE  /\ Rests' <=> Rests
           /\ \A c, pc, field : cl'.cmd = cl.cmd /\ cl'.call = cl.call =>
                (Serves(c, pc, field)' <=> Serves(c, pc, field))
<1>1. Upward' = Upward
  BY DEF Upward
<1>2. Rests' <=> Rests
  BY <1>1 DEF Rests
<1>3. \A c, pc, field : cl'.cmd = cl.cmd /\ cl'.call = cl.call =>
                (Serves(c, pc, field)' <=> Serves(c, pc, field))
  BY <1>1 DEF Serves, Here
<1> QED
  BY <1>2, <1>3

\* What the fields of cl are after the client has gone to another place.
LEMMA ClientMoves ==
    ASSUME Typed
    PROVE  /\ \A pc \in ClientReads \ {"answer"} :
                LET c == [cl EXCEPT !.pc = pc]
                IN  cl.pc # "answer" =>
                      /\ c \in [pc : ClientReads, cmd : CommandNames \cup {"none"}, call : Nat,
                                got : Seq(Value), dead : BOOLEAN]
                      /\ c.pc = pc /\ c.got = <<>> /\ c.cmd = cl.cmd /\ c.call = cl.call
           /\ \A got \in Seq(Value) :
                LET c == [cl EXCEPT !.pc = "answer", !.got = got]
                IN  /\ c \in [pc : ClientReads, cmd : CommandNames \cup {"none"}, call : Nat,
                              got : Seq(Value), dead : BOOLEAN]
                    /\ c.pc = "answer" /\ c.got = got /\ c.cmd = cl.cmd /\ c.call = cl.call
  BY DEF Typed, ClientReads

\* A js_* function reads the next field.
LEMMA GetFieldInStep ==
    ASSUME Typed, InStep, ~astray, get_field
    PROVE  Typed' /\ InStep'
<1> USE DEF get_field, Reading
<1>1. /\ Downward # <<>> /\ Got = Head(Downward) /\ Downward' = Tail(Downward)
      /\ Got \in AnyToken /\ cr' \in Seq(AnyToken) /\ down' \in Seq(AnyToken)
  BY ReadDown
<1>2. cl.pc = "answer" /\ ~HasReadAll
  BY DEF Waiting
<1>3. AnswerIsThere /\ Rests
  BY <1>1, <1>2, HowItWaits
     DEF Satisfied, LoadedIsThere, RefusalIsThere, NoModeIsThere, FileIsThere, MaySend, Awaits,
         NameIsThere, ModeIsThere
<1>4. PICK g \in Answers(cl.cmd) : \E k \in 0 .. ReadOf(cl.cmd, g) :
        cl.got = Values(g, k) /\ Downward = Left(cl.call, g, k)
  BY <1>3 DEF AnswerIsThere
<1>5. PICK k \in 0 .. ReadOf(cl.cmd, g) : cl.got = Values(g, k) /\ Downward = Left(cl.call, g, k)
  BY <1>4
<1>6. /\ g \in Seq(Filled) /\ Agrees(cl.cmd, g) /\ cl.call \in Nat /\ cl.cmd \in CommandNames
  BY <1>3, AnswersAgree DEF AnswerIsThere, Typed
<1>7. k \in 0 .. Len(g) /\ ReadOf(cl.cmd, g) \in 1 .. Len(g) /\ Len(g) \in Nat
  BY <1>6 DEF Agrees
<1>8. k # ReadOf(cl.cmd, g)
  <2>1. Len(Values(g, k)) = k
    BY <1>6, <1>7, ValuesKeep
  <2>2. Len(Reads(cl.cmd, Values(g, ReadOf(cl.cmd, g)))) = ReadOf(cl.cmd, g)
    BY <1>6 DEF Agrees
  <2> QED
    BY <1>2, <1>5, <2>1, <2>2 DEF HasReadAll
<1>9. k + 1 \in 0 .. ReadOf(cl.cmd, g) /\ k < Len(g)
  BY <1>7, <1>8
<1>10. /\ Head(Downward) = Token(cl.call, g[k + 1])
       /\ Tail(Downward) = Left(cl.call, g, k + 1)
  BY <1>5, <1>6, <1>7, <1>9, LeftKeeps
<1>11. Got.v = g[k + 1].v
  BY <1>1, <1>10 DEF Token
<1>12. Append(cl.got, Got.v) = Values(g, k + 1)
  BY <1>5, <1>6, <1>7, <1>9, <1>11, ValuesKeep
<1>13. Append(cl.got, Got.v) \in Seq(Value)
  BY <1>1 DEF Typed, AnyToken
<1>14. /\ cl' \in [pc : ClientReads, cmd : CommandNames \cup {"none"}, call : Nat,
                   got : Seq(Value), dead : BOOLEAN]
       /\ cl'.pc = "answer" /\ cl'.got = Values(g, k + 1) /\ cl'.cmd = cl.cmd /\ cl'.call = cl.call
  BY <1>2, <1>12, <1>13 DEF Typed
<1>15. Typed'
  BY <1>1, <1>14 DEF Typed
<1>16. AnswerIsThere'
  BY <1>1, <1>6, <1>9, <1>10, <1>14 DEF AnswerIsThere
<1>17. Rests'
  BY <1>3, PlacesKept
<1> QED
  BY <1>15, <1>16, <1>17, StaysInStep DEF Satisfied

\* When a js_* function returns, nothing is left on the way but what js_disconnect leaves.
LEMMA AnsweredRests ==
    ASSUME Typed, InStep, ~astray, HasReadAll
    PROVE  AnswerIsThere /\ Rests
<1>1. cl.pc = "answer" /\ Len(cl.got) = Len(Reads(cl.cmd, cl.got))
  BY DEF HasReadAll
<1>2. ~Started
  BY <1>1, ReadsSome DEF Started, Awaits
<1>3. ~(cl.cmd \in Transfers /\ Awaits("answer"))
  BY <1>1, ReadsSome DEF Awaits, CommandNames
<1>4. ~MaySend /\ ~NameIsThere /\ ~ModeIsThere /\ ~Awaits("mode") /\ ~Awaits("body")
  BY <1>1 DEF MaySend, Awaits, NameIsThere, ModeIsThere
<1>5. ~Refused
  BY <1>1, <1>2 DEF Refused
<1>6. CASE alive
  <2>1. srv.pc = "top" => Satisfied /\ Rests
    BY <1>2, <1>6 DEF InStep, Course, AtTop, Rests
  <2>2. srv.pc \notin {"command", "args", "uniq", "fid"}
    BY <1>2, <1>6 DEF InStep, Course, AtCommand, AtArgs, AtUniq, AtFid
  <2>3. srv.pc \notin {"name", "file", "to_uniq"}
    BY <1>3, <1>4, <1>6 DEF InStep, Course, AtName, AtFile, AtToUniq, Here, Transfers
  <2>4. srv.pc \notin {"ack", "go"}
    BY <1>4, <1>5, <1>6 DEF InStep, Course, AtAck, AtGo
  <2> QED
    BY <1>1, <2>1, <2>2, <2>3, <2>4
       DEF Typed, ServerReads, Satisfied, LoadedIsThere, RefusalIsThere, NoModeIsThere, FileIsThere
<1>7. CASE ~alive
  BY <1>1, <1>2, <1>3, <1>4, <1>7
     DEF InStep, Dead, Rests, Transfers, Satisfied, LoadedIsThere, RefusalIsThere, NoModeIsThere,
         FileIsThere
<1> QED
  BY <1>6, <1>7

\* A js_* function that returns with an answer has got all of it that it reads.
LEMMA AllRead ==
    ASSUME Typed, AnswerIsThere, HasReadAll
    PROVE  \E g \in Answers(cl.cmd) :
              /\ g \in Seq(Filled) /\ Agrees(cl.cmd, g)
              /\ cl.got = Values(g, ReadOf(cl.cmd, g))
              /\ Downward = Left(cl.call, g, ReadOf(cl.cmd, g))
<1>1. PICK g \in Answers(cl.cmd) : \E k \in 0 .. ReadOf(cl.cmd, g) :
        cl.got = Values(g, k) /\ Downward = Left(cl.call, g, k)
  BY DEF AnswerIsThere
<1>2. PICK k \in 0 .. ReadOf(cl.cmd, g) : cl.got = Values(g, k) /\ Downward = Left(cl.call, g, k)
  BY <1>1
<1>3. g \in Seq(Filled) /\ Agrees(cl.cmd, g)
  BY AnswersAgree DEF AnswerIsThere
<1>4. k \in 0 .. Len(g) /\ ReadOf(cl.cmd, g) \in 1 .. Len(g) /\ Len(g) \in Nat
  BY <1>3 DEF Agrees
<1>5. k = ReadOf(cl.cmd, g)
  <2>1. Len(Values(g, k)) = k /\ Len(Reads(cl.cmd, Values(g, k))) = k
    BY <1>2, <1>3, <1>4, ValuesKeep DEF HasReadAll
  <2>2. ASSUME k \in 0 .. ReadOf(cl.cmd, g) - 1
        PROVE  FALSE
    <3>1. Len(Reads(cl.cmd, Values(g, k))) > k
      BY <1>3, <2>2 DEF Agrees
    <3> QED
      BY <1>4, <2>1, <3>1
  <2> QED
    BY <1>4, <2>2
<1> QED
  BY <1>2, <1>3, <1>5

\* What is left of an answer that has been read.
LEMMA NothingLeft ==
    ASSUME Typed, AnswerIsThere, HasReadAll
    PROVE  Downward = <<>> \/ (cl.cmd = "JS_DISCONNECT" /\ Len(cl.got) = 2 /\ cl.got[1] = -1)
<1>1. PICK g \in Answers(cl.cmd) :
        /\ g \in Seq(Filled) /\ Agrees(cl.cmd, g)
        /\ cl.got = Values(g, ReadOf(cl.cmd, g))
        /\ Downward = Left(cl.call, g, ReadOf(cl.cmd, g))
  BY AllRead
<1> DEFINE k == ReadOf(cl.cmd, g)
<1>2. k \in 1 .. Len(g) /\ k \in 0 .. Len(g) /\ Len(g) \in Nat /\ cl.call \in Nat
  BY <1>1 DEF Agrees, Typed
<1>3. CASE k = Len(g)
  BY <1>1, <1>2, <1>3, LeftKeeps
<1>4. CASE k # Len(g)
  <2>1. cl.cmd = "JS_DISCONNECT" /\ g[1].v = -1 /\ k = 2
    BY <1>4 DEF ReadOf
  <2>2. Len(Values(g, k)) = k /\ Values(g, k)[1] = g[1].v
    <3>1. 1 \in 1 .. k
      BY <2>1
    <3>2. Len(Values(g, k)) = k /\ \A i \in 1 .. k : Values(g, k)[i] = g[i].v
      BY <1>1, <1>2, ValuesKeep
    <3> QED
      BY <3>1, <3>2
  <2> QED
    BY <1>1, <2>1, <2>2
<1> QED
  BY <1>3, <1>4

\* A js_* function returns.
LEMMA JsReturnInStep ==
    ASSUME Typed, InStep, ~astray, js_return
    PROVE  Typed' /\ InStep'
<1> USE DEF js_return
<1>1. PICK dead \in BOOLEAN : cl' = [cl EXCEPT !.pc = "idle", !.got = <<>>, !.dead = dead]
  <2>1. (cl.cmd = "JS_CLOSE") \in BOOLEAN
    OBVIOUS
  <2> QED
    BY <2>1
<1>2. /\ cl' \in [pc : ClientReads, cmd : CommandNames \cup {"none"}, call : Nat,
                  got : Seq(Value), dead : BOOLEAN]
      /\ cl'.pc = "idle" /\ cl'.got = <<>> /\ cl'.cmd = cl.cmd /\ cl'.call = cl.call
  <2>1. "idle" \in ClientReads /\ <<>> \in Seq(Value)
    BY DEF ClientReads
  <2>2. cl \in [pc : ClientReads, cmd : CommandNames \cup {"none"}, call : Nat,
                got : Seq(Value), dead : BOOLEAN]
    BY DEF Typed
  <2>3. cl' = [pc |-> "idle", cmd |-> cl.cmd, call |-> cl.call, got |-> <<>>, dead |-> dead]
    BY <1>1, <2>2
  <2> QED
    BY <2>1, <2>2, <2>3
<1>3. Typed'
  <2>1. astray' \in BOOLEAN
    BY DEF Typed, LeftBehind
  <2> QED
    BY <1>2, <2>1 DEF Typed
<1>4. ASSUME ~LeftBehind
      PROVE  InStep'
  <2>1. AnswerIsThere /\ Rests
    BY AnsweredRests
  <2>2. down = <<>>
    BY <1>4, <2>1, NothingLeft, NothingOnTheWay DEF LeftBehind
  <2>3. Satisfied' /\ Rests'
    BY <1>2, <2>1, <2>2, PlacesKept DEF Satisfied
  <2> QED
    BY <2>3, StaysInStep
<1> QED
  BY <1>3, <1>4 DEF InStep

(***************************************************************************)
(* The turns of the transfers.                                             *)
(***************************************************************************)
LEMMA StatusesTyped ==
    ASSUME NEW r \in Statuses
    PROVE  /\ r \in Seq(Filled) /\ Len(r) \in 1 .. 2
           /\ \A n \in Nat : Left(n, r, 0) = Of(n, r)
           /\ Values(r, 0) = <<>> /\ 0 \in 0 .. ReadOf("JS_FILE_SEND", r)
           /\ 0 \in 0 .. ReadOf("JS_FILE_RECEIVE", r)
<1>1. r \in Seq(Filled) /\ Agrees("JS_FILE_SEND", r)
  BY StatusAgrees DEF Transfers
<1>2. Len(r) \in 1 .. 2
  <2>1. {"status", "errno"} \subseteq Names /\ {-1, 0, 1} \subseteq Int
    BY DEF Names
  <2>2. Len(Server!put4("status", 0)) = 1 /\ Len(Server!put4("status", 1)) = 1
    BY <2>1, PutMatches
  <2>3. Len(Server!error_ret("status")) = 2
    <3> DEFINE e == Server!error_ret("status")
               s == Server!put4("status", -1)
               t == Server!put4("errno", 1)
    <3>1. s \in Seq(Filled) /\ Len(s) = 1
      BY <2>1, PutMatches DEF Matches
    <3>2. t \in Seq(Filled) /\ Len(t) = 1
      BY <2>1, PutMatches DEF Matches
    <3>3. e = s \o t
      BY DEF Server!error_ret
    <3> HIDE DEF e, s, t
    <3>4. Len(e) = Len(s) + Len(t)
      BY <3>1, <3>2, <3>3, ConcatProperties
    <3>5. Len(e) = 2
      BY <3>1, <3>2, <3>4
    <3> QED
      BY <3>5 DEF e
  <2> QED
    BY <2>2, <2>3 DEF Statuses
<1>3. \A n \in Nat : Left(n, r, 0) = Of(n, r)
  BY <1>1, <1>2, LeftKeeps
<1>4. Values(r, 0) = <<>>
  BY <1>1, <1>2, ValuesKeep
<1>5. ReadOf("JS_FILE_SEND", r) = Len(r) /\ ReadOf("JS_FILE_RECEIVE", r) = Len(r)
  BY DEF ReadOf
<1> QED
  BY <1>1, <1>2, <1>3, <1>4, <1>5

\* A status is not nothing.
LEMMA StatusNotEmpty ==
    ASSUME NEW r \in Statuses
    PROVE  Len(r) > 0
<1>1. Len(r) \in 1 .. 2
  BY StatusesTyped
<1> QED
  BY <1>1

\* The last turn has come, and nothing of it is read.
LEMMA LastTurn ==
    ASSUME cl.call \in Nat, cl'.cmd \in Transfers, cl'.pc = "answer", cl'.got = <<>>,
           cl'.call = cl.call, NEW r \in Statuses, Downward' = Of(cl.call, r)
    PROVE  AnswerIsThere'
<1>1. cl'.cmd \in CommandNames /\ r \in Answers(cl'.cmd)
  BY DEF CommandNames, Answers
<1>2. 0 \in 0 .. ReadOf(cl'.cmd, r) /\ Values(r, 0) = <<>> /\ Left(cl.call, r, 0) = Of(cl.call, r)
  BY StatusesTyped DEF Transfers
<1> QED
  BY <1>1, <1>2 DEF AnswerIsThere

\* An answer of one integer is that integer and nothing more.
LEMMA OnlyIs ==
    ASSUME NEW n \in Nat, NEW f \in Names, NEW v \in Int
    PROVE  /\ Head(Of(n, Server!put4(f, v))) = IntToken(n, f, v)
           /\ Tail(Of(n, Server!put4(f, v))) = <<>>
  BY OnePut DEF IntToken

\* A refusal is -1 and then the error number.
LEMMA RefusalIs ==
    ASSUME NEW n \in Nat, NEW f \in Names
    PROVE  /\ Head(Of(n, Server!error_ret(f))) = IntToken(n, f, -1)
           /\ Tail(Of(n, Server!error_ret(f))) = Of(n, Server!put4("errno", 1))
<1> DEFINE r == Server!put4("errno", 1)
           v == -1
<1>1. v \in Int /\ 1 \in Int /\ "errno" \in Names
  BY DEF Names
<1>2. r \in Seq(Filled)
  BY <1>1, PutMatches DEF Matches
<1>3. Server!error_ret(f) = Server!put4(f, v) \o r
  BY DEF Server!error_ret
<1> HIDE DEF r, v
<1>4. /\ Head(Of(n, Server!put4(f, v) \o r)) = IntToken(n, f, v)
      /\ Tail(Of(n, Server!put4(f, v) \o r)) = Of(n, r)
  BY <1>1, <1>2, FirstGiven
<1> QED
  BY <1>3, <1>4 DEF r, v

\* The same, for a turn of a transfer.
LEMMA TurnIs ==
    ASSUME cl.call \in Nat, NEW f \in Names
    PROVE  /\ \A v \in Int : /\ Head(Turn(Server!put4(f, v))) = IntToken(cl.call, f, v)
                             /\ Tail(Turn(Server!put4(f, v))) = <<>>
           /\ Head(Turn(Server!error_ret(f))) = IntToken(cl.call, f, -1)
           /\ Tail(Turn(Server!error_ret(f))) = Of(cl.call, Server!put4("errno", 1))
  BY OnlyIs, RefusalIs DEF Turn

\* The answer to the first turn of js_file_send.
LEMMA LoadedIs ==
    ASSUME cl.call \in Nat, NEW v \in Int, NEW r \in Statuses
    PROVE  /\ Head(Loaded(v, r)) = IntToken(cl.call, "loaded", v)
           /\ Tail(Loaded(v, r)) = Of(cl.call, r)
<1>1. "loaded" \in Names /\ r \in Seq(Filled)
  BY StatusesTyped DEF Names
<1> QED
  BY <1>1, FirstGiven DEF Loaded

\* js_file_send learns whether the file is loaded.
LEMMA GetLoadedInStep ==
    ASSUME Typed, InStep, ~astray, get_loaded
    PROVE  Typed' /\ InStep'
<1> USE DEF get_loaded, Reading, OnlyReads
<1>1. /\ Downward # <<>> /\ Got = Head(Downward) /\ Downward' = Tail(Downward)
      /\ Got \in AnyToken /\ cr' \in Seq(AnyToken) /\ down' \in Seq(AnyToken)
  BY ReadDown
<1>2. cl.pc = "loaded" /\ cl.call \in Nat
  BY DEF Typed
<1>3. /\ cl'.cmd = cl.cmd /\ cl'.call = cl.call
      /\ Got.v = -1 => cl'.pc = "may_send" /\ cl'.got = <<>>
      /\ Got.v # -1 => cl'.pc = "answer" /\ cl'.got = <<>>
      /\ Typed'
  <2>1. CASE Got.v = -1
    <3>1. "may_send" \in ClientReads \ {"answer"} /\ cl.pc # "answer"
      BY <1>2 DEF ClientReads
    <3>2. cl' = [cl EXCEPT !.pc = "may_send"]
      BY <2>1 DEF Next_read
    <3>3. /\ cl' \in [pc : ClientReads, cmd : CommandNames \cup {"none"}, call : Nat,
                      got : Seq(Value), dead : BOOLEAN]
          /\ cl'.pc = "may_send" /\ cl'.got = <<>> /\ cl'.cmd = cl.cmd /\ cl'.call = cl.call
      BY <3>1, <3>2, ClientMoves
    <3> QED
      BY <1>1, <2>1, <3>3 DEF Typed
  <2>2. CASE Got.v # -1
    <3>1. cl' = [cl EXCEPT !.pc = "answer", !.got = <<>>]
      BY <2>2 DEF Last_turn
    <3>2. <<>> \in Seq(Value)
      OBVIOUS
    <3>3. /\ cl' \in [pc : ClientReads, cmd : CommandNames \cup {"none"}, call : Nat,
                      got : Seq(Value), dead : BOOLEAN]
          /\ cl'.pc = "answer" /\ cl'.got = <<>> /\ cl'.cmd = cl.cmd /\ cl'.call = cl.call
      BY <3>1, <3>2, ClientMoves
    <3> QED
      BY <1>1, <2>2, <3>3 DEF Typed
  <2> QED
    BY <2>1, <2>2
<1>4. \/ LoadedIsThere /\ Rests
      \/ /\ cl.cmd = "JS_FILE_SEND" /\ Downward = Loaded(-1, Server!put4("status", 1))
         /\ Serves("JS_FILE_SEND", "name", Str("name"))
  BY <1>1, <1>2, HowItWaits
     DEF Satisfied, AnswerIsThere, RefusalIsThere, NoModeIsThere, FileIsThere, MaySend, Awaits,
         NameIsThere, ModeIsThere
<1>5. CASE LoadedIsThere /\ Rests
  <2>1. Rests'
    BY <1>5, PlacesKept
  <2>2. CASE \E r \in Statuses : Downward = Loaded(1, r)
    <3>1. PICK r \in Statuses : Downward = Loaded(1, r)
      BY <2>2
    <3>2. Got.v = 1 /\ Downward' = Of(cl.call, r)
      BY <1>1, <1>2, <3>1, LoadedIs DEF IntToken
    <3>3. AnswerIsThere'
      BY <1>2, <1>3, <1>5, <3>2, LastTurn DEF LoadedIsThere, Transfers
    <3> QED
      BY <1>3, <2>1, <3>3, StaysInStep DEF Satisfied
  <2>3. CASE Downward = Loaded(-1, Server!error_ret("status"))
    <3>1. Server!error_ret("status") \in Statuses
      BY DEF Statuses
    <3>2. Got.v = -1 /\ Downward' = Of(cl.call, Server!error_ret("status"))
      BY <1>1, <1>2, <2>3, <3>1, LoadedIs DEF IntToken
    <3>3. RefusalIsThere'
      BY <1>3, <1>5, <3>2 DEF RefusalIsThere, LoadedIsThere, Turn
    <3> QED
      BY <1>3, <2>1, <3>3, StaysInStep DEF Satisfied
  <2> QED
    BY <1>5, <2>2, <2>3 DEF LoadedIsThere
<1>6. CASE /\ cl.cmd = "JS_FILE_SEND" /\ Downward = Loaded(-1, Server!put4("status", 1))
           /\ Serves("JS_FILE_SEND", "name", Str("name"))
  <2>1. Server!put4("status", 1) \in Statuses
    BY DEF Statuses
  <2>2. Got.v = -1 /\ Downward' = Of(cl.call, Server!put4("status", 1))
    BY <1>1, <1>2, <1>6, <2>1, LoadedIs DEF IntToken
  <2>3. MaySend'
    BY <1>3, <1>6, <2>2 DEF MaySend, Turn
  <2>4. Serves("JS_FILE_SEND", "name", Str("name"))'
    BY <1>3, <1>6, PlacesKept
  <2> QED
    BY <1>3, <2>3, <2>4, StaysInStep
<1> QED
  BY <1>4, <1>5, <1>6

\* Where a turn leads.
LEMMA TurnMoves ==
    ASSUME Typed, cl.pc # "answer", cr' \in Seq(AnyToken), down' \in Seq(AnyToken),
           up' \in Seq(AnyToken), UNCHANGED <<srv, sr, alive, astray>>
    PROVE  /\ \A pc \in ClientReads \ {"answer"} : Next_read(pc) =>
                Typed' /\ cl'.pc = pc /\ cl'.got = <<>> /\ cl'.cmd = cl.cmd /\ cl'.call = cl.call
           /\ \A got \in Seq(Value) : Last_turn(got) =>
                Typed' /\ cl'.pc = "answer" /\ cl'.got = got /\ cl'.cmd = cl.cmd /\ cl'.call = cl.call
<1>1. ASSUME NEW pc \in ClientReads \ {"answer"}, Next_read(pc)
      PROVE  Typed' /\ cl'.pc = pc /\ cl'.got = <<>> /\ cl'.cmd = cl.cmd /\ cl'.call = cl.call
  <2>1. cl' = [cl EXCEPT !.pc = pc]
    BY <1>1 DEF Next_read
  <2>2. /\ cl' \in [pc : ClientReads, cmd : CommandNames \cup {"none"}, call : Nat,
                    got : Seq(Value), dead : BOOLEAN]
        /\ cl'.pc = pc /\ cl'.got = <<>> /\ cl'.cmd = cl.cmd /\ cl'.call = cl.call
    BY <2>1, ClientMoves
  <2> QED
    BY <2>2 DEF Typed
<1>2. ASSUME NEW got \in Seq(Value), Last_turn(got)
      PROVE  Typed' /\ cl'.pc = "answer" /\ cl'.got = got /\ cl'.cmd = cl.cmd /\ cl'.call = cl.call
  <2>1. cl' = [cl EXCEPT !.pc = "answer", !.got = got]
    BY <1>2 DEF Last_turn
  <2>2. /\ cl' \in [pc : ClientReads, cmd : CommandNames \cup {"none"}, call : Nat,
                    got : Seq(Value), dead : BOOLEAN]
        /\ cl'.pc = "answer" /\ cl'.got = got /\ cl'.cmd = cl.cmd /\ cl'.call = cl.call
    BY <2>1, ClientMoves
  <2> QED
    BY <2>2 DEF Typed
<1> QED
  BY <1>1, <1>2

\* The values and the rest when one field has been read.
LEMMA OneRead ==
    ASSUME NEW n \in Nat, NEW g \in Seq(Filled), Len(g) > 0
    PROVE  Values(g, 1) = <<g[1].v>> /\ Left(n, g, 1) = Tail(Of(n, g))
<1>1. 0 \in 0 .. Len(g) /\ 0 < Len(g) /\ 1 \in 0 .. Len(g)
  OBVIOUS
<1>2. Left(n, g, 0) = Of(n, g)
  BY <1>1, LeftKeeps
<1>3. Tail(Left(n, g, 0)) = Left(n, g, 0 + 1)
  BY <1>1, LeftKeeps
<1>4. Values(g, 1) = <<g[1].v>>
  BY DEF Values
<1> QED
  BY <1>2, <1>3, <1>4

\* The last turn has come, and its first field, or a -1 or 0 for it, is read.
LEMMA LastTurnRead ==
    ASSUME cl.call \in Nat, cl'.cmd \in Transfers, cl'.pc = "answer", cl'.call = cl.call,
           \/ cl'.got = <<-1>> /\ Downward' = Of(cl.call, Server!put4("errno", 1))
           \/ cl'.got = << 0 >> /\ Downward' = <<>>
    PROVE  AnswerIsThere'
<1>1. {"status", "errno"} \subseteq Names /\ 0 \in Int /\ -1 \in Int
  BY DEF Names
<1>2. PICK g \in Statuses : cl'.got = <<g[1].v>> /\ Downward' = Tail(Of(cl.call, g))
  <2>1. CASE cl'.got = <<-1>> /\ Downward' = Of(cl.call, Server!put4("errno", 1))
    <3> DEFINE g == Server!error_ret("status")
    <3>1. g \in Statuses
      BY DEF Statuses
    <3>2. Tail(Of(cl.call, g)) = Of(cl.call, Server!put4("errno", 1))
      BY <1>1, RefusalIs
    <3>3. g[1].v = -1
      <4> DEFINE v == -1
                 a == Server!put4("status", v)
                 b == Server!put4("errno", 1)
      <4>1. "status" \in Names /\ v \in Int
        BY <1>1
      <4>2. a \in Seq(Filled) /\ Len(a) = 1 /\ a[1].v = v
        <5> HIDE DEF v
        <5> QED
          BY <4>1, PutMatches DEF Matches
      <4>3. b \in Seq(Filled)
        <5>1. "errno" \in Names /\ 1 \in Int
          BY <1>1
        <5> QED
          BY <5>1, PutMatches DEF Matches
      <4>4. g = a \o b
        BY DEF Server!error_ret
      <4> HIDE DEF g, a, b, v
      <4>5. (a \o b)[1] = a[1]
        BY <4>2, <4>3, ConcatProperties
      <4>6. g[1].v = v
        BY <4>2, <4>4, <4>5
      <4> QED
        BY <4>6 DEF v, g
    <3> QED
      BY <2>1, <3>1, <3>2, <3>3
  <2>2. CASE cl'.got = <<0>> /\ Downward' = <<>>
    <3> DEFINE g == Server!put4("status", 0)
    <3>1. g \in Statuses
      BY DEF Statuses
    <3>2. Tail(Of(cl.call, g)) = <<>>
      BY <1>1, OnlyIs
    <3>3. g[1].v = 0
      BY <1>1, PutMatches
    <3> QED
      BY <2>2, <3>1, <3>2, <3>3
  <2> QED
    BY <2>1, <2>2
<1>3. g \in Seq(Filled) /\ Len(g) \in 1 .. 2
  BY StatusesTyped
<1>4. cl'.got = Values(g, 1) /\ Downward' = Left(cl.call, g, 1)
  <2>1. Len(g) > 0
    BY StatusNotEmpty
  <2>2. Values(g, 1) = <<g[1].v>> /\ Left(cl.call, g, 1) = Tail(Of(cl.call, g))
    BY <1>3, <2>1, OneRead
  <2> QED
    BY <1>2, <2>2
<1>5. cl'.cmd \in CommandNames /\ g \in Answers(cl'.cmd) /\ 1 \in 0 .. ReadOf(cl'.cmd, g)
  BY <1>3 DEF CommandNames, Answers, ReadOf, Transfers
<1> QED
  BY <1>4, <1>5 DEF AnswerIsThere

\* js_file_send learns whether it may send.
LEMMA GetMaySendInStep ==
    ASSUME Typed, InStep, ~astray, get_may_send
    PROVE  Typed' /\ InStep'
<1> USE DEF get_may_send, Reading, OnlyReads
<1>1. /\ Downward # <<>> /\ Got = Head(Downward) /\ Downward' = Tail(Downward)
      /\ Got \in AnyToken /\ cr' \in Seq(AnyToken) /\ down' \in Seq(AnyToken)
  BY ReadDown
<1>2. cl.pc = "may_send" /\ cl.call \in Nat /\ up' \in Seq(AnyToken)
  BY DEF Typed
<1>3. /\ Typed' /\ cl'.cmd = cl.cmd /\ cl'.call = cl.call
      /\ Got.v = -1 => cl'.pc = "answer" /\ cl'.got = <<-1>>
      /\ Got.v # -1 => cl'.pc = "put_file" /\ cl'.got = <<>>
  <2>1. "put_file" \in ClientReads \ {"answer"} /\ <<-1>> \in Seq(Value)
    BY DEF ClientReads, Value
  <2>2. \/ Got.v = -1 /\ Last_turn(<<-1>>)
        \/ Got.v # -1 /\ Next_read("put_file")
    OBVIOUS
  <2> QED
    BY <1>1, <1>2, <2>1, <2>2, TurnMoves
<1>4. \/ RefusalIsThere /\ Rests
      \/ /\ cl.cmd = "JS_FILE_SEND" /\ Downward = Turn(Server!put4("status", 1))
         /\ Serves("JS_FILE_SEND", "name", Str("name"))
  BY <1>1, <1>2, HowItWaits
     DEF Satisfied, AnswerIsThere, LoadedIsThere, NoModeIsThere, FileIsThere, MaySend, Awaits,
         NameIsThere, ModeIsThere
<1>5. "status" \in Names /\ 1 \in Int
  BY DEF Names
<1>6. CASE RefusalIsThere /\ Rests
  <2>1. Rests'
    BY <1>6, PlacesKept
  <2>2. Got.v = -1 /\ Downward' = Of(cl.call, Server!put4("errno", 1))
    BY <1>1, <1>2, <1>5, <1>6, TurnIs DEF RefusalIsThere, IntToken
  <2>3. AnswerIsThere'
    BY <1>2, <1>3, <1>6, <2>2, LastTurnRead DEF RefusalIsThere, Transfers
  <2> QED
    BY <1>3, <2>1, <2>3, StaysInStep DEF Satisfied
<1>7. CASE /\ cl.cmd = "JS_FILE_SEND" /\ Downward = Turn(Server!put4("status", 1))
           /\ Serves("JS_FILE_SEND", "name", Str("name"))
  <2>1. Got.v = 1 /\ Downward' = <<>>
    BY <1>1, <1>2, <1>5, <1>7, TurnIs DEF IntToken
  <2>2. MaySend'
    BY <1>3, <1>7, <2>1 DEF MaySend, Awaits
  <2>3. Serves("JS_FILE_SEND", "name", Str("name"))'
    BY <1>3, <1>7, PlacesKept
  <2> QED
    BY <1>3, <2>2, <2>3, StaysInStep
<1> QED
  BY <1>4, <1>6, <1>7

\* The end of a file on its way.
LEMMA StreamEnds ==
    ASSUME NEW n \in Nat, NEW rest \in Seq(AnyToken)
    PROVE  /\ Head(FileStream(n, 0) \o rest) = Piece(n, "eof", 0)
           /\ Tail(FileStream(n, 0) \o rest) = rest
<1>1. 0 \in Nat /\ ~(0 > 0)
  OBVIOUS
<1> QED
  BY <1>1, FirstOfStream

\* A file on its way while there is more of it.
LEMMA StreamStarts ==
    ASSUME NEW n \in Nat, NEW len \in Nat, len > 0, NEW rest \in Seq(AnyToken)
    PROVE  /\ Head(FileStream(n, len) \o rest) = Piece(n, "file", IF len = 1 THEN 1 ELSE 0)
           /\ Tail(FileStream(n, len) \o rest) = FileStream(n, len - 1) \o rest
<1> DEFINE stream == FileStream(n, len) \o rest
           first == Piece(n, "file", IF len = 1 THEN 1 ELSE 0)
           others == FileStream(n, len - 1) \o rest
<1>1. len > 0 => Head(stream) = first /\ Tail(stream) = others
  BY FirstOfStream
<1> HIDE DEF stream, first, others
<1>2. Head(stream) = first /\ Tail(stream) = others
  BY <1>1
<1> QED
  BY <1>2 DEF stream, first, others

\* js_file_receive reads the contents.
LEMMA GetBodyInStep ==
    ASSUME Typed, InStep, ~astray, get_body
    PROVE  Typed' /\ InStep'
<1> USE DEF get_body, Reading, OnlyReads
<1>1. /\ Downward # <<>> /\ Got = Head(Downward) /\ Downward' = Tail(Downward)
      /\ Got \in AnyToken /\ cr' \in Seq(AnyToken) /\ down' \in Seq(AnyToken)
  BY ReadDown
<1>2. cl.pc = "body" /\ cl.call \in Nat /\ up' \in Seq(AnyToken)
  BY DEF Typed
<1>3. /\ Typed' /\ cl'.cmd = cl.cmd /\ cl'.call = cl.call /\ cl'.got = <<>>
      /\ Got.k = "eof" => cl'.pc = "answer"
      /\ Got.k # "eof" => cl'.pc = "body"
  <2>1. "body" \in ClientReads \ {"answer"} /\ <<>> \in Seq(Value)
    BY DEF ClientReads
  <2>2. \/ Got.k = "eof" /\ Last_turn(<<>>)
        \/ Got.k # "eof" /\ Next_read("body")
    OBVIOUS
  <2> QED
    BY <1>1, <1>2, <2>1, <2>2, TurnMoves
<1>4. FileIsThere /\ Rests
  BY <1>1, <1>2, HowItWaits
     DEF Satisfied, AnswerIsThere, LoadedIsThere, NoModeIsThere, RefusalIsThere, MaySend, Awaits,
         NameIsThere, ModeIsThere
<1>5. PICK n \in 0 .. MaxContents, r \in Statuses : Downward = Stream(n, r)
  BY <1>4 DEF FileIsThere
<1>6. n \in Nat /\ MaxContents \in Nat
  BY <1>5, BoundsAssumption
<1>7. r \in Seq(Filled) /\ Of(cl.call, r) \in Seq(AnyToken)
  BY <1>2, StatusesTyped, OfKeeps
<1>8. Rests'
  BY <1>4, PlacesKept
<1>9. CASE n > 0
  <2>1. /\ Got = Piece(cl.call, "file", IF n = 1 THEN 1 ELSE 0)
        /\ Downward' = FileStream(cl.call, n - 1) \o Of(cl.call, r)
    <3> DEFINE rest == Of(cl.call, r)
    <3>1. rest \in Seq(AnyToken)
      BY <1>7
    <3>2. Downward = FileStream(cl.call, n) \o rest
      BY <1>5 DEF Stream
    <3> HIDE DEF rest
    <3>3. /\ Head(FileStream(cl.call, n) \o rest) = Piece(cl.call, "file", IF n = 1 THEN 1 ELSE 0)
          /\ Tail(FileStream(cl.call, n) \o rest) = FileStream(cl.call, n - 1) \o rest
      <4>1. cl.call \in Nat /\ n \in Nat /\ n > 0
        BY <1>2, <1>6, <1>9
      <4> HIDE DEF get_body, Reading, OnlyReads
      <4> QED
        BY <3>1, <4>1, StreamStarts
    <3> QED
      BY <1>1, <3>2, <3>3 DEF rest
  <2>2. Got.k # "eof" /\ n - 1 \in 0 .. MaxContents
    BY <1>5, <1>6, <1>9, <2>1 DEF Piece
  <2>3. FileIsThere'
    BY <1>3, <1>4, <2>1, <2>2 DEF FileIsThere, Stream
  <2> QED
    BY <1>3, <1>8, <2>3, StaysInStep DEF Satisfied
<1>10. CASE n = 0
  <2>1. Got = Piece(cl.call, "eof", 0) /\ Downward' = Of(cl.call, r)
    <3> DEFINE rest == Of(cl.call, r)
    <3>1. rest \in Seq(AnyToken)
      BY <1>7
    <3>2. Downward = FileStream(cl.call, n) \o rest
      BY <1>5 DEF Stream
    <3> HIDE DEF rest
    <3>3. /\ Head(FileStream(cl.call, 0) \o rest) = Piece(cl.call, "eof", 0)
          /\ Tail(FileStream(cl.call, 0) \o rest) = rest
      BY <1>2, <3>1, StreamEnds
    <3> QED
      BY <1>1, <1>10, <3>2, <3>3 DEF rest
  <2>2. Got.k = "eof"
    BY <2>1 DEF Piece
  <2>3. AnswerIsThere'
    BY <1>2, <1>3, <1>4, <2>1, <2>2, LastTurn DEF FileIsThere, Transfers
  <2> QED
    BY <1>3, <1>8, <2>3, StaysInStep DEF Satisfied
<1> QED
  BY <1>6, <1>9, <1>10

\* Where the server is while js_file_send writes the file.
LEMMA PutFileWhere ==
    ASSUME Typed, InStep, ~astray, cl.pc = "put_file"
    PROVE  MaySend /\ Awaits("put_file") /\ Serves("JS_FILE_SEND", "name", Str("name"))
<1>1. ~Started
  BY DEF Started, FirstRead, Awaits
<1>2. ~Satisfied /\ ~NameIsThere /\ ~ModeIsThere /\ \A pc : pc # "put_file" => ~Awaits(pc)
  BY DEF Satisfied, AnswerIsThere, LoadedIsThere, RefusalIsThere, NoModeIsThere, FileIsThere,
         NameIsThere, ModeIsThere, Awaits
<1>3. ~Refused
  BY <1>1 DEF Refused
<1>4. MaySend => Awaits("put_file")
  BY DEF MaySend
<1>5. CASE alive
  <2>1. srv.pc \notin {"top", "command", "args", "uniq", "file", "fid", "to_uniq"}
    BY <1>1, <1>2, <1>5
       DEF InStep, Course, AtTop, AtCommand, AtArgs, AtUniq, AtFile, AtFid, AtToUniq
  <2>2. srv.pc \notin {"ack", "go"}
    BY <1>2, <1>3, <1>5 DEF InStep, Course, AtAck, AtGo
  <2>3. srv.pc = "name"
    BY <2>1, <2>2 DEF Typed, ServerReads
  <2>4. AtName
    BY <1>5, <2>3 DEF InStep, Course
  <2> QED
    BY <1>2, <1>4, <2>3, <2>4 DEF AtName, Serves
<1>6. CASE ~alive
  BY <1>1, <1>2, <1>4, <1>6 DEF InStep, Dead, Serves
<1> QED
  BY <1>5, <1>6

\* The name and the contents that js_file_send writes.
LEMMA UploadTyped ==
    ASSUME NEW n \in Nat, NEW len \in Nat
    PROVE  Asks(n, <<Str("name")>>) \o FileStream(n, len) \in Seq(AnyToken)
<1>1. <<Str("name")>> \in Seq(Field)
  BY DEF Str, Field, Kinds, Names
<1>2. Asks(n, <<Str("name")>>) \in Seq(AnyToken)
  BY <1>1, FirstAsked
<1>3. FileStream(n, len) \in Seq(AnyToken)
  <2>1. <<>> \in Seq(AnyToken)
    OBVIOUS
  <2> QED
    BY <2>1, FirstOfStream
<1> QED
  BY <1>2, <1>3, Joined

\* js_file_send writes the file.
LEMMA PutFileInStep ==
    ASSUME Typed, InStep, ~astray, put_file
    PROVE  Typed' /\ InStep'
<1> USE DEF put_file
<1>1. /\ cl.cmd = "JS_FILE_SEND" /\ Awaits("put_file")
      /\ Serves("JS_FILE_SEND", "name", Str("name")) /\ cl.call \in Nat
  BY PutFileWhere DEF MaySend, Typed
<1>2. PICK len \in 1 .. MaxContents :
        up' = Sent(Asks(cl.call, <<Str("name")>>) \o FileStream(cl.call, len))
  OBVIOUS
<1> DEFINE s == Asks(cl.call, <<Str("name")>>) \o FileStream(cl.call, len)
<1>3. s \in Seq(AnyToken) /\ up' = Sent(s)
  <2>1. len \in Nat
    BY BoundsAssumption
  <2> QED
    BY <1>1, <1>2, <2>1, UploadTyped
<1>4. Upward = <<>>
  BY <1>1 DEF Serves
<1>5. /\ alive => Upward' = s
      /\ ~alive => Upward' = <<>>
      /\ up' \in Seq(AnyToken)
  <2> HIDE DEF s
  <2> QED
    BY <1>3, <1>4, WrittenUp
<1>6. /\ Typed' /\ cl'.pc = "answer" /\ cl'.got = <<>> /\ cl'.cmd = cl.cmd /\ cl'.call = cl.call
      /\ Downward' = Downward
  <2>1. cl.pc # "answer" /\ <<>> \in Seq(Value) /\ Last_turn(<<>>)
    OBVIOUS
  <2>2. cr' \in Seq(AnyToken) /\ down' \in Seq(AnyToken)
    BY DEF Typed
  <2>3. Downward' = Downward
    BY DEF Downward
  <2>4. UNCHANGED <<srv, sr, alive, astray>>
    OBVIOUS
  <2> HIDE DEF put_file
  <2> QED
    BY <1>5, <2>1, <2>2, <2>3, <2>4, TurnMoves
<1>7. Awaits("answer")'
  BY <1>1, <1>6 DEF Awaits
<1>8. CASE alive
  <2>1. srv'.pc = "name" /\ Here("JS_FILE_SEND")' /\ srv'.takes = <<Str("name")>> /\ alive'
    BY <1>1, <1>6, <1>8 DEF Serves, Here
  <2>2. AtName'
    BY <1>2, <1>5, <1>6, <1>7, <1>8, <2>1 DEF AtName
  <2> QED
    BY <1>6, <2>1, <2>2 DEF InStep, Course
<1>9. CASE ~alive
  BY <1>1, <1>5, <1>6, <1>7, <1>9 DEF InStep, Dead
<1> QED
  BY <1>6, <1>8, <1>9

\* js_file_send cannot open the file.
LEMMA PutFileFailsInStep ==
    ASSUME Typed, InStep, ~astray, put_file_fails
    PROVE  Typed' /\ InStep'
<1> USE DEF put_file_fails
<1>1. "idle" \in ClientReads \ {"answer"} /\ cl.pc # "answer"
  BY DEF ClientReads
<1>2. cl' = [cl EXCEPT !.pc = "idle"]
  BY DEF Next_read
<1>3. /\ cl' \in [pc : ClientReads, cmd : CommandNames \cup {"none"}, call : Nat,
                  got : Seq(Value), dead : BOOLEAN]
      /\ cl'.pc = "idle" /\ cl'.got = <<>>
  BY <1>1, <1>2, ClientMoves
<1>4. Typed'
  BY <1>3 DEF Typed
<1> QED
  BY <1>4 DEF InStep

\* A refusal, when nothing is on its way.
LEMMA AckTyped ==
    ASSUME NEW n \in Nat, NEW v \in Int
    PROVE  LET s == Of(n, Server!put4("ack", v))
           IN  /\ s \in Seq(AnyToken) /\ s # <<>> /\ Tail(s) = <<>>
               /\ Head(s) = IntToken(n, "ack", v)
<1>1. "ack" \in Names
  BY DEF Names
<1> QED
  BY <1>1, OnePut DEF IntToken

\* js_file_receive refuses what it is sent.
LEMMA RefusesInStep ==
    ASSUME Typed, Downward' = <<>>, Upward = <<>>, cl.pc \notin {"answer", "idle"},
           cr' \in Seq(AnyToken), down' \in Seq(AnyToken),
           UNCHANGED <<srv, sr, alive, astray>>, Refuses,
           alive => /\ srv.pc \in {"ack", "go"} /\ srv.call = cl.call
                    /\ srv.takes = <<INT("ack")>>
    PROVE  Typed' /\ InStep'
<1> USE DEF Refuses
<1>1. cl.call \in Nat
  BY DEF Typed
<1>2. Ack(-1) \in Seq(AnyToken)
  <2>1. -1 \in Int
    OBVIOUS
  <2> QED
    BY <1>1, <2>1, AckTyped DEF Ack
<1>3. /\ alive => Upward' = Ack(-1)
      /\ ~alive => Upward' = <<>>
      /\ up' \in Seq(AnyToken)
  BY <1>2, WrittenUp
<1>4. Typed' /\ cl'.pc = "idle" /\ cl'.got = <<>> /\ cl'.cmd = cl.cmd /\ cl'.call = cl.call
  <2>1. "idle" \in ClientReads \ {"answer"} /\ cl.pc # "answer" /\ Next_read("idle")
    BY DEF ClientReads
  <2> HIDE DEF Refuses
  <2> QED
    BY <1>3, <2>1, TurnMoves
<1>5. down' = <<>>
  <2>1. Typed'
    BY <1>4
  <2>2. cr' \o down' = <<>>
    BY DEF Downward
  <2> QED
    BY <2>2, ConcatEqualIffEmpty
<1>6. CASE alive
  <2>1. Ack(-1)' = Ack(-1)
    BY <1>4 DEF Ack
  <2>2. Refused'
    BY <1>3, <1>4, <1>5, <1>6, <2>1 DEF Refused
  <2> QED
    BY <1>4, <1>6, <2>2 DEF InStep, Course, AtAck, AtGo
<1>7. CASE ~alive
  BY <1>3, <1>4, <1>5, <1>7 DEF InStep, Dead, Satisfied
<1> QED
  BY <1>6, <1>7

\* js_file_receive reads the name.
LEMMA GetNameInStep ==
    ASSUME Typed, InStep, ~astray, get_name
    PROVE  Typed' /\ InStep'
<1> USE DEF get_name, Reading
<1>1. /\ Downward # <<>> /\ Got = Head(Downward) /\ Downward' = Tail(Downward)
      /\ Got \in AnyToken /\ cr' \in Seq(AnyToken) /\ down' \in Seq(AnyToken)
  BY ReadDown
<1>2. cl.pc = "name" /\ cl.call \in Nat
  BY DEF Typed
<1>3. NameIsThere /\ Serves("JS_FILE_RECEIVE", "ack", INT("ack"))
  BY <1>1, <1>2, HowItWaits
     DEF Satisfied, AnswerIsThere, LoadedIsThere, RefusalIsThere, NoModeIsThere, FileIsThere,
         MaySend, Awaits, ModeIsThere
<1>4. Downward' = <<>> /\ cl.cmd = "JS_FILE_RECEIVE"
  <2>1. <<Str("name")>> \in Seq(Field) /\ <<Str("name")>> # <<>> /\ Tail(<<Str("name")>>) = <<>>
    BY DEF Str, Field, Kinds, Names
  <2>2. Asks(cl.call, <<>>) = <<>>
    <3>1. <<>> \in Seq(Field)
      OBVIOUS
    <3> QED
      BY <1>2, <3>1, FirstAsked
  <2>3. Name = Asks(cl.call, <<Str("name")>>)
    BY DEF Name, Asks
  <2>4. Tail(Asks(cl.call, <<Str("name")>>)) = Asks(cl.call, Tail(<<Str("name")>>))
    <3> DEFINE s == <<Str("name")>>
    <3>1. s \in Seq(Field) /\ s # <<>>
      BY <2>1
    <3> HIDE DEF s
    <3>2. Tail(Asks(cl.call, s)) = Asks(cl.call, Tail(s))
      BY <1>2, <3>1, FirstAsked
    <3> QED
      BY <3>2 DEF s
  <2> QED
    BY <1>1, <1>3, <2>1, <2>2, <2>3, <2>4 DEF NameIsThere
<1>5. Upward = <<>>
  BY <1>3 DEF Serves
<1>6. UNCHANGED <<srv, sr, alive, astray>>
  OBVIOUS
<1>7. CASE Refuses
  <2>1. alive => /\ srv.pc \in {"ack", "go"} /\ srv.call = cl.call
                 /\ srv.takes = <<INT("ack")>>
    BY <1>3 DEF Serves, Here
  <2>2. cl.pc \notin {"answer", "idle"}
    BY <1>2
  <2> HIDE DEF get_name
  <2> QED
    BY <1>1, <1>4, <1>5, <1>6, <1>7, <2>1, <2>2, RefusesInStep
<1>8. CASE up' = Sent(Ack(0) \o Asks(cl.call, FileUniq)) /\ Next_read("mode")
  <2> DEFINE s == Ack(0) \o Asks(cl.call, FileUniq)
  <2>1. s \in Seq(AnyToken)
    <3>1. FileUniq \in Seq(Field) /\ 0 \in Int
      BY DEF FileUniq, Ints, INT, Bytes, Field, Kinds, Names
    <3>2. Ack(0) \in Seq(AnyToken)
      BY <1>2, <3>1, AckTyped DEF Ack
    <3>3. Asks(cl.call, FileUniq) \in Seq(AnyToken)
      BY <1>2, <3>1, FirstAsked
    <3> QED
      BY <3>2, <3>3, Joined
  <2>2. /\ alive => Upward' = s
        /\ ~alive => Upward' = <<>>
        /\ up' \in Seq(AnyToken)
    <3>1. up' = Sent(s) /\ sr' = sr
      BY <1>8
    <3> HIDE DEF s
    <3> QED
      BY <1>5, <2>1, <3>1, WrittenUp
  <2>3. Typed' /\ cl'.pc = "mode" /\ cl'.got = <<>> /\ cl'.cmd = cl.cmd /\ cl'.call = cl.call
    <3>1. "mode" \in ClientReads \ {"answer"} /\ cl.pc # "answer"
      BY <1>2 DEF ClientReads
    <3> HIDE DEF get_name
    <3> QED
      BY <1>1, <1>6, <1>8, <2>2, <3>1, TurnMoves
  <2>4. Awaits("mode")' /\ cl'.cmd = "JS_FILE_RECEIVE"
    BY <1>4, <2>3 DEF Awaits
  <2>5. CASE alive
    <3>1. /\ srv'.pc = "ack" /\ Here("JS_FILE_RECEIVE")' /\ srv'.takes = <<INT("ack")>> /\ alive'
      BY <1>3, <2>3, <2>5 DEF Serves, Here
    <3>2. Upward' = (Ack(0) \o Asks(cl.call, FileUniq))'
      BY <2>2, <2>3, <2>5 DEF Ack
    <3>3. AtAck'
      BY <2>4, <3>1, <3>2 DEF AtAck
    <3> QED
      BY <2>3, <3>1, <3>3 DEF InStep, Course
  <2>6. CASE ~alive
    BY <2>2, <2>3, <2>4, <2>6 DEF InStep, Dead
  <2> QED
    BY <2>3, <2>5, <2>6
<1> QED
  BY <1>7, <1>8

\* js_file_receive reads the mode.
LEMMA GetModeInStep ==
    ASSUME Typed, InStep, ~astray, get_mode
    PROVE  Typed' /\ InStep'
<1> USE DEF get_mode, Reading
<1>1. /\ Downward # <<>> /\ Got = Head(Downward) /\ Downward' = Tail(Downward)
      /\ Got \in AnyToken /\ cr' \in Seq(AnyToken) /\ down' \in Seq(AnyToken)
  BY ReadDown
<1>2. cl.pc = "mode" /\ cl.call \in Nat
  BY DEF Typed
<1>3. \/ NoModeIsThere /\ Rests
      \/ ModeIsThere /\ Serves("JS_FILE_RECEIVE", "go", INT("ack"))
  BY <1>1, <1>2, HowItWaits
     DEF Satisfied, AnswerIsThere, LoadedIsThere, RefusalIsThere, FileIsThere, MaySend, Awaits,
         NameIsThere
<1>4. "mode" \in Names /\ 0 \in Int
  BY DEF Names
<1>5. UNCHANGED <<srv, sr, alive, astray>> /\ cl.pc \notin {"answer", "idle"}
  BY <1>2
<1>6. CASE NoModeIsThere /\ Rests
  <2>1. \/ Got.v = -1 /\ Downward' = Of(cl.call, Server!put4("errno", 1))
        \/ Got.v = 0 /\ Downward' = <<>>
    BY <1>1, <1>2, <1>4, <1>6, TurnIs DEF NoModeIsThere, IntToken
  <2>2. Last_turn(<<Got.v>>) /\ up' = up
    BY <2>1
  <2>3. Typed' /\ cl'.pc = "answer" /\ cl'.got = <<Got.v>> /\ cl'.cmd = cl.cmd /\ cl'.call = cl.call
    <3>1. <<Got.v>> \in Seq(Value) /\ up' \in Seq(AnyToken)
      BY <2>1, <2>2 DEF Value, Typed
    <3> HIDE DEF get_mode
    <3> QED
      BY <1>1, <1>5, <2>2, <3>1, TurnMoves
  <2>4. AnswerIsThere'
    BY <1>2, <1>6, <2>1, <2>3, LastTurnRead DEF NoModeIsThere, Transfers
  <2>5. Rests'
    BY <1>5, <1>6, <2>2, PlacesKept
  <2> QED
    BY <2>3, <2>4, <2>5, StaysInStep DEF Satisfied
<1>7. CASE ModeIsThere /\ Serves("JS_FILE_RECEIVE", "go", INT("ack"))
  <2>1. PICK m \in 1 .. 3 : Downward = Turn(Server!put4("mode", m))
    BY <1>7 DEF ModeIsThere, Modes
  <2>2. Got.v = m /\ Downward' = <<>> /\ m > 0
    BY <1>1, <1>2, <1>4, <2>1, TurnIs DEF IntToken
  <2>3. Upward = <<>> /\ cl.cmd = "JS_FILE_RECEIVE"
    BY <1>7 DEF Serves, ModeIsThere
  <2>4. CASE Refuses
    <3>1. alive => /\ srv.pc \in {"ack", "go"} /\ srv.call = cl.call
                   /\ srv.takes = <<INT("ack")>>
      BY <1>7 DEF Serves, Here
    <3> HIDE DEF get_mode
    <3> QED
      BY <1>1, <1>5, <2>2, <2>3, <2>4, <3>1, RefusesInStep
  <2>5. CASE up' = Sent(Ack(0)) /\ Next_read("body")
    <3>1. Ack(0) \in Seq(AnyToken)
      BY <1>2, <1>4, AckTyped DEF Ack
    <3>2. /\ alive => Upward' = Ack(0)
          /\ ~alive => Upward' = <<>>
          /\ up' \in Seq(AnyToken)
      BY <1>5, <2>3, <2>5, <3>1, WrittenUp
    <3>3. Typed' /\ cl'.pc = "body" /\ cl'.got = <<>> /\ cl'.cmd = cl.cmd /\ cl'.call = cl.call
      <4>1. "body" \in ClientReads \ {"answer"}
        BY DEF ClientReads
      <4> HIDE DEF get_mode
      <4> QED
        BY <1>1, <1>5, <2>5, <3>2, <4>1, TurnMoves
    <3>4. Awaits("body")' /\ cl'.cmd = "JS_FILE_RECEIVE"
      BY <2>2, <2>3, <3>3 DEF Awaits
    <3>5. CASE alive
      <4>1. /\ srv'.pc = "go" /\ Here("JS_FILE_RECEIVE")' /\ srv'.takes = <<INT("ack")>> /\ alive'
        BY <1>5, <1>7, <3>3, <3>5 DEF Serves, Here
      <4>2. Upward' = Ack(0)'
        BY <3>2, <3>3, <3>5 DEF Ack
      <4>3. AtGo'
        BY <3>4, <4>1, <4>2 DEF AtGo
      <4> QED
        BY <3>3, <4>1, <4>3 DEF InStep, Course
    <3>6. CASE ~alive
      BY <1>5, <3>2, <3>3, <3>4, <3>6 DEF InStep, Dead
    <3> QED
      BY <3>3, <3>5, <3>6
  <2> QED
    BY <2>2, <2>4, <2>5
<1> QED
  BY <1>3, <1>6, <1>7

\* The client finds the server dead.
LEMMA DaemonDeadInStep ==
    ASSUME Typed, InStep, ~astray, daemon_dead
    PROVE  Typed' /\ InStep'
<1> USE DEF daemon_dead
<1>1. cl' = [cl EXCEPT !.pc = "idle", !.got = <<>>, !.dead = TRUE]
  OBVIOUS
<1>2. /\ cl' \in [pc : ClientReads, cmd : CommandNames \cup {"none"}, call : Nat,
                  got : Seq(Value), dead : BOOLEAN]
      /\ cl'.pc = "idle" /\ cl'.got = <<>>
  <2>1. "idle" \in ClientReads /\ <<>> \in Seq(Value)
    BY DEF ClientReads
  <2>2. cl \in [pc : ClientReads, cmd : CommandNames \cup {"none"}, call : Nat,
                got : Seq(Value), dead : BOOLEAN]
    BY DEF Typed
  <2>3. cl' = [pc |-> "idle", cmd |-> cl.cmd, call |-> cl.call, got |-> <<>>, dead |-> TRUE]
    BY <1>1, <2>2
  <2> QED
    BY <2>1, <2>2, <2>3
<1>3. Typed'
  BY <1>2 DEF Typed
<1>4. Upward' = Upward /\ Upward = <<>> /\ down' = <<>>
  BY DEF Upward, InStep, Dead
<1> QED
  BY <1>2, <1>3, <1>4 DEF InStep, Dead, Satisfied

----------------------------------------------------------------------------
(***************************************************************************)
(* The calls.                                                              *)
(***************************************************************************)
LEMMA RequestTyped ==
    ASSUME NEW n \in Nat, NEW c \in CommandNames
    PROVE  /\ Header(n, c) \in AnyToken /\ Asks(n, Asked(c)) \in Seq(AnyToken)
           /\ <<Header(n, c)>> \o Asks(n, Asked(c)) \in Seq(AnyToken)
           /\ <<Header(n, c)>> \o Asks(n, Asked(c)) # <<>>
           /\ Head(<<Header(n, c)>> \o Asks(n, Asked(c))) = Header(n, c)
           /\ Tail(<<Header(n, c)>> \o Asks(n, Asked(c))) = Asks(n, Asked(c))
<1>1. Header(n, c) \in AnyToken
  <2>1. "hdr" \in Kinds /\ "command" \in Names /\ c \in Value
    BY DEF Kinds, Names, Value
  <2> QED
    BY <2>1 DEF Header, AnyToken
<1>2. Asks(n, Asked(c)) \in Seq(AnyToken)
  <2>1. Asked(c) \in Seq(Field)
    BY AskedTyped
  <2> HIDE DEF Asked
  <2> QED
    BY <2>1, FirstAsked
<1> QED
  BY <1>1, <1>2, FirstOf

\* The client can call: where the server is then.
LEMMA IdleWhere ==
    ASSUME Typed, InStep, ~astray, cl.pc = "idle"
    PROVE  /\ alive => \/ srv.pc = "top" /\ down = <<>> /\ up = <<>>
                       \/ /\ srv.pc \in {"ack", "go"} /\ srv.takes = <<INT("ack")>>
                          /\ srv.call = cl.call /\ down = <<>> /\ Upward = Ack(-1)
           /\ ~alive => Upward = <<>> /\ down = <<>>
<1>1. ~Started /\ \A pc : pc # "idle" => ~Awaits(pc)
  BY DEF Started, FirstRead, Awaits
<1>2. Satisfied => down = <<>>
  BY DEF Satisfied, AnswerIsThere, LoadedIsThere, RefusalIsThere, NoModeIsThere, FileIsThere
<1>3. ~MaySend /\ ~NameIsThere /\ ~ModeIsThere
  BY <1>1 DEF MaySend, NameIsThere, ModeIsThere
<1>4. ASSUME alive
      PROVE  \/ srv.pc = "top" /\ down = <<>> /\ up = <<>>
             \/ /\ srv.pc \in {"ack", "go"} /\ srv.takes = <<INT("ack")>>
                /\ srv.call = cl.call /\ down = <<>> /\ Upward = Ack(-1)
  <2>1. srv.pc \notin {"command", "args", "uniq", "file", "fid", "to_uniq", "name"}
    BY <1>1, <1>3, <1>4
       DEF InStep, Course, AtCommand, AtArgs, AtUniq, AtFile, AtFid, AtToUniq, AtName
  <2>2. srv.pc = "top" => down = <<>> /\ up = <<>>
    BY <1>1, <1>2, <1>4 DEF InStep, Course, AtTop
  <2>3. srv.pc \in {"ack", "go"} => Refused /\ srv.takes = <<INT("ack")>>
    BY <1>1, <1>3, <1>4 DEF InStep, Course, AtAck, AtGo
  <2> QED
    BY <1>1, <2>1, <2>2, <2>3 DEF Typed, ServerReads, Refused
<1>5. ASSUME ~alive
      PROVE  Upward = <<>> /\ down = <<>>
  BY <1>1, <1>2, <1>3, <1>5 DEF InStep, Dead
<1> QED
  BY <1>4, <1>5

\* The client writes a request.
LEMMA CallsInStep ==
    ASSUME Typed, InStep, ~astray, NEW c \in CommandNames, Calls(c, Asked(c), FirstRead(c))
    PROVE  Typed' /\ InStep'
<1> USE DEF Calls, snd_head
<1>1. cl.pc = "idle" /\ cl.call \in Nat
  BY DEF MayCall, Typed
<1> DEFINE n == cl.call + 1
           r == <<Header(n, c)>> \o Asks(n, Asked(c))
<1>2. n \in Nat
  BY <1>1
<1>3. r \in Seq(AnyToken) /\ up' = Sent(r)
  <2>1. up' = Sent(r)
    OBVIOUS
  <2>2. r \in Seq(AnyToken)
    <3> HIDE DEF n
    <3> QED
      BY <1>2, RequestTyped
  <2> QED
    BY <2>1, <2>2
<1>4. cl' = [pc |-> FirstRead(c), cmd |-> c, call |-> n, got |-> <<>>, dead |-> FALSE]
  BY DEF Starts
<1>5. cl' \in [pc : ClientReads, cmd : CommandNames \cup {"none"}, call : Nat,
               got : Seq(Value), dead : BOOLEAN]
  <2>1. FirstRead(c) \in ClientReads /\ <<>> \in Seq(Value)
    BY DEF FirstRead, ClientReads
  <2> HIDE DEF n, Calls
  <2> QED
    BY <1>2, <1>4, <2>1
<1>6. cl'.pc = FirstRead(c) /\ cl'.cmd = c /\ cl'.call = n /\ cl'.got = <<>>
  BY <1>4
<1>7. /\ cr' = <<>> /\ cr' \in Seq(AnyToken) /\ down' = down /\ srv' = srv /\ sr' = sr
      /\ alive' = alive /\ astray' = (astray \/ SleptTooShort)
  OBVIOUS
<1>8. Request' = r
  BY <1>6 DEF Request
<1> HIDE DEF r, n, Calls
<1>9. up' \in Seq(AnyToken)
  BY <1>3, Joined DEF Sent, Typed
<1>10. Typed'
  <2>1. astray' \in BOOLEAN
    BY <1>7 DEF Typed, SleptTooShort
  <2> QED
    BY <1>5, <1>6, <1>7, <1>9, <2>1 DEF Typed
<1>11. ASSUME up = <<>>, down = <<>>
       PROVE  Started' /\ (alive => up' = Request') /\ (~alive => up' = <<>>)
  <2>1. down' = <<>> /\ Downward' = <<>>
    BY <1>7, <1>11, ConcatEmptySeq DEF Downward
  <2>2. Started'
    BY <1>6, <2>1 DEF Started, Awaits
  <2>3. <<>> \o r = r
    BY <1>3, Joined
  <2> QED
    BY <1>3, <1>8, <1>11, <2>2, <2>3 DEF Sent
<1>12. ASSUME up = <<>>
       PROVE  InStep'
  <2>1. CASE alive /\ srv.pc = "top" /\ down = <<>>
    BY <1>7, <1>11, <1>12, <2>1 DEF InStep, Course, AtTop
  <2>2. CASE /\ alive /\ srv.pc \in {"ack", "go"} /\ srv.takes = <<INT("ack")>>
             /\ srv.call = cl.call /\ down = <<>> /\ Upward = Ack(-1)
    <3>1. sr = Of(srv.call, Server!put4("ack", -1))
      <4>1. sr \in Seq(AnyToken)
        BY DEF Typed
      <4>2. Upward = sr
        BY <1>12, <4>1, Joined DEF Upward
      <4> QED
        BY <2>2, <4>2 DEF Ack
    <3>2. Refused'
      BY <1>7, <1>11, <1>12, <2>2, <3>1 DEF Refused
    <3> QED
      BY <1>7, <2>2, <3>2 DEF InStep, Course, AtAck, AtGo
  <2>3. CASE ~alive /\ Upward = <<>> /\ down = <<>>
    <3>1. sr = <<>>
      BY <2>3, NothingOnTheWay
    <3>2. Upward' = <<>>
      BY <1>7, <1>11, <1>12, <2>3, <3>1, ConcatEmptySeq DEF Upward
    <3> QED
      BY <1>7, <1>11, <1>12, <2>3, <3>2 DEF InStep, Dead
  <2> QED
    BY <1>1, <2>1, <2>2, <2>3, IdleWhere DEF Typed
<1>13. up # <<>> => InStep'
  BY <1>7 DEF InStep, SleptTooShort
<1> QED
  BY <1>10, <1>12, <1>13

\* Every js_* function begins.
LEMMA CallInStep ==
    ASSUME Typed, InStep, ~astray, Call
    PROVE  Typed' /\ InStep'
<1>1. ASSUME NEW c \in CommandNames, js_call(c)
      PROVE  Typed' /\ InStep'
  <2>1. c \notin Transfers /\ Calls(c, Client!Js(c, <<>>).asks, "answer")
    BY <1>1 DEF js_call
  <2>2. Asked(c) = Client!Js(c, <<>>).asks /\ FirstRead(c) = "answer"
    BY <2>1 DEF Asked, FirstRead, Transfers
  <2> QED
    BY <2>1, <2>2, CallsInStep
<1>2. CASE js_file_send
  <2>1. Asked("JS_FILE_SEND") = <<INT("env")>> \o FileUniq /\ FirstRead("JS_FILE_SEND") = "loaded"
    BY DEF Asked, FirstRead
  <2>2. "JS_FILE_SEND" \in CommandNames
    BY DEF CommandNames, Transfers
  <2> QED
    BY <1>2, <2>1, <2>2, CallsInStep DEF js_file_send
<1>3. CASE js_file_receive
  <2>1. Asked("JS_FILE_RECEIVE") = Ints(<<"env", "fid">>) /\ FirstRead("JS_FILE_RECEIVE") = "name"
    BY DEF Asked, FirstRead
  <2>2. "JS_FILE_RECEIVE" \in CommandNames
    BY DEF CommandNames, Transfers
  <2> QED
    BY <1>3, <2>1, <2>2, CallsInStep DEF js_file_receive
<1>4. CASE file_loaded_local_fails
  <2>1. cl' = [pc |-> "may_send", cmd |-> "JS_FILE_SEND", call |-> cl.call + 1, got |-> <<>>,
               dead |-> FALSE]
    BY <1>4 DEF file_loaded_local_fails, Starts
  <2>2. "may_send" \in ClientReads /\ "JS_FILE_SEND" \in CommandNames /\ cl.call + 1 \in Nat
        /\ <<>> \in Seq(Value)
    BY DEF ClientReads, CommandNames, Transfers, Typed
  <2>3. /\ cl' \in [pc : ClientReads, cmd : CommandNames \cup {"none"}, call : Nat,
                    got : Seq(Value), dead : BOOLEAN]
        /\ cl'.got = <<>>
    BY <2>1, <2>2
  <2>4. cr' \in Seq(AnyToken) /\ astray' /\ astray' \in BOOLEAN
    BY <1>4 DEF file_loaded_local_fails, snd_head
  <2>5. Typed'
    BY <1>4, <2>3, <2>4 DEF Typed, file_loaded_local_fails
  <2> QED
    BY <2>4, <2>5 DEF InStep
<1> QED
  BY <1>1, <1>2, <1>3, <1>4 DEF Call

----------------------------------------------------------------------------
(***************************************************************************)
(* The steps of the server.                                                *)
(***************************************************************************)
LEMMA ServerReads1 ==
    ASSUME Typed, NEW pc, ServerReading(pc), up' = up
    PROVE  /\ alive /\ srv.pc = pc /\ Upward # <<>> /\ SGot = Head(Upward)
           /\ Upward' = Tail(Upward) /\ SGot \in AnyToken
           /\ sr' \in Seq(AnyToken) /\ up' \in Seq(AnyToken)
  BY ReadUp DEF ServerReading

\* A step of the server keeps the types if it keeps those of what it changes.
LEMMA ServerMoves ==
    ASSUME Typed, ClientWaits, astray' \in {astray, TRUE}, sr' \in Seq(AnyToken), down' \in Seq(AnyToken),
           srv' \in [pc : ServerReads, call : Nat, takes : Seq(Field), gives : Seq(Filled)]
    PROVE  Typed'
  BY DEF Typed, ClientWaits

\* What srv is after the server has gone to another place.
LEMMA ServerRecords ==
    ASSUME Typed
    PROVE  /\ srv' = Top =>
                /\ srv' \in [pc : ServerReads, call : Nat, takes : Seq(Field), gives : Seq(Filled)]
                /\ srv'.pc = "top" /\ srv'.call = srv.call
           /\ \A pc \in ServerReads, takes \in Seq(Field) : Goes(pc, takes) =>
                /\ srv' \in [pc : ServerReads, call : Nat, takes : Seq(Field), gives : Seq(Filled)]
                /\ srv'.pc = pc /\ srv'.call = srv.call /\ srv'.takes = takes
<1>1. srv.call \in Nat /\ "top" \in ServerReads /\ <<>> \in Seq(Field) /\ <<>> \in Seq(Filled)
  BY DEF Typed, ServerReads
<1>2. ASSUME srv' = Top
      PROVE  /\ srv' \in [pc : ServerReads, call : Nat, takes : Seq(Field), gives : Seq(Filled)]
             /\ srv'.pc = "top" /\ srv'.call = srv.call
  <2>1. srv' = [pc |-> "top", call |-> srv.call, takes |-> <<>>, gives |-> <<>>]
    BY <1>2 DEF Top
  <2> QED
    BY <1>1, <2>1
<1>3. ASSUME NEW pc \in ServerReads, NEW takes \in Seq(Field), Goes(pc, takes)
      PROVE  /\ srv' \in [pc : ServerReads, call : Nat, takes : Seq(Field), gives : Seq(Filled)]
             /\ srv'.pc = pc /\ srv'.call = srv.call /\ srv'.takes = takes
  <2>1. srv' = [pc |-> pc, call |-> srv.call, takes |-> takes, gives |-> <<>>]
    BY <1>3 DEF Goes
  <2> QED
    BY <1>1, <2>1
<1> QED
  BY <1>2, <1>3

\* What follows the next argument.
LEMMA NextArg ==
    ASSUME Typed, NEW n \in Nat, NEW fields \in Seq(Field), fields # <<>>,
           Upward = Asks(n, fields), Upward' = Tail(Upward)
    PROVE  /\ Upward' = Asks(n, Tail(fields)) /\ Tail(fields) \in Seq(Field)
           /\ Len(fields) = 1 => Upward' = <<>>
           /\ Len(fields) > 1 => Tail(fields) # <<>>
<1> DEFINE rest == Tail(fields)
<1>1. Upward' = Asks(n, rest) /\ rest \in Seq(Field)
  BY FirstAsked
<1>2. Len(rest) = Len(fields) - 1 /\ Len(fields) \in Nat
  OBVIOUS
<1> HIDE DEF rest
<1>3. ASSUME Len(fields) = 1
      PROVE  Upward' = <<>>
  <2>1. rest = <<>>
    BY <1>1, <1>2, <1>3, EmptySeq
  <2>2. Asks(n, rest) = <<>>
    BY <1>1, <2>1, FirstAsked
  <2> QED
    BY <1>1, <2>2
<1>4. Len(fields) > 1 => rest # <<>>
  <2>1. rest = <<>> => Len(rest) = 0
    OBVIOUS
  <2> QED
    BY <1>2, <2>1
<1> QED
  BY <1>1, <1>3, <1>4 DEF rest

\* When nothing is on the way, both buffers are empty.
LEMMA NothingUp ==
    ASSUME sr' \in Seq(AnyToken), up' \in Seq(AnyToken), Upward' = <<>>
    PROVE  sr' = <<>> /\ up' = <<>>
  BY ConcatEqualIffEmpty DEF Upward

\* The answer has been given, and nothing of it is read.
LEMMA AnswerGiven ==
    ASSUME cl.call \in Nat, cl' = cl, cl.pc = "answer", cl.got = <<>>, cl.cmd \in CommandNames,
           NEW g \in Answers(cl.cmd), Downward' = Of(cl.call, g)
    PROVE  AnswerIsThere'
<1>1. g \in Seq(Filled) /\ Agrees(cl.cmd, g)
  BY AnswersAgree
<1>2. ReadOf(cl.cmd, g) \in 1 .. Len(g) /\ Len(g) \in Nat
  BY <1>1 DEF Agrees
<1>3. 0 \in 0 .. ReadOf(cl.cmd, g) /\ 0 \in 0 .. Len(g)
  BY <1>2
<1>4. Values(g, 0) = <<>> /\ Left(cl.call, g, 0) = Of(cl.call, g)
  BY <1>1, <1>3, ValuesKeep, LeftKeeps
<1> QED
  BY <1>3, <1>4 DEF AnswerIsThere

\* do_command reads the command.
LEMMA DoCommandInStep ==
    ASSUME Typed, InStep, ~astray, do_command
    PROVE  Typed' /\ InStep'
<1> USE DEF do_command
<1>1. /\ alive /\ srv.pc = "command" /\ Upward # <<>> /\ SGot = Head(Upward)
      /\ Upward' = Tail(Upward) /\ SGot \in AnyToken
      /\ sr' \in Seq(AnyToken) /\ up' \in Seq(AnyToken)
  BY ServerReads1 DEF ClientWaits
<1>2. Started /\ Upward = Request /\ cl.call \in Nat
  BY <1>1 DEF InStep, Course, AtCommand, Typed
<1>3. /\ cl.cmd \in CommandNames /\ cl.pc = FirstRead(cl.cmd) /\ cl.got = <<>>
      /\ Downward = <<>>
  BY <1>2 DEF Started, Awaits
<1>4. SGot = Header(cl.call, cl.cmd) /\ Upward' = Asks(cl.call, Asked(cl.cmd))
  BY <1>1, <1>2, <1>3, RequestTyped DEF Request
<1>5. SGot.k = "hdr" /\ SGot.v = cl.cmd /\ SGot.call = cl.call
  BY <1>4 DEF Header
<1>6. Asked(cl.cmd) \in Seq(Field)
  BY <1>3, AskedTyped
<1>7. ClientWaits /\ astray' = astray /\ cl' = cl /\ cr' = cr /\ up' = up /\ alive' = alive
  BY DEF ClientWaits
<1>8. ASSUME down' = down
      PROVE  Downward' = Downward /\ down' \in Seq(AnyToken) /\ Started'
  <2>1. Downward' = Downward /\ down' \in Seq(AnyToken)
    BY <1>7, <1>8 DEF Downward, Typed
  <2> QED
    BY <1>2, <1>7, <2>1, SameForTheClient
<1>9. CASE SGot.k # "hdr"
  BY <1>5, <1>9
<1>10. CASE /\ SGot.k = "hdr" /\ SGot.v \notin Transfers
            /\ \E course \in Server!Table[SGot.v] : Follows(SGot.call, course)
  <2>1. PICK course \in Server!Table[cl.cmd] : Follows(cl.call, course)
    BY <1>5, <1>10
  <2>2. cl.cmd \notin Transfers /\ Right(cl.cmd) /\ cl.pc = "answer"
    BY <1>3, <1>5, <1>10, EveryCommandRight DEF FirstRead, Transfers
  <2>3. /\ course.takes = Asked(cl.cmd) /\ course.gives \in Seq(Filled)
        /\ course.gives \in Answers(cl.cmd)
    BY <2>1, <2>2 DEF Right, Answers
  <2>4. CASE course.takes = <<>>
    <3>1. /\ srv' = [Top EXCEPT !.call = cl.call]
          /\ down' = down \o Of(cl.call, course.gives)
      BY <2>1, <2>4 DEF Follows
    <3>2. srv' = [pc |-> "top", call |-> cl.call, takes |-> <<>>, gives |-> <<>>]
      BY <3>1 DEF Top
    <3>3. /\ srv' \in [pc : ServerReads, call : Nat, takes : Seq(Field), gives : Seq(Filled)]
          /\ srv'.pc = "top"
      <4>1. "top" \in ServerReads /\ <<>> \in Seq(Field) /\ <<>> \in Seq(Filled)
        BY DEF ServerReads
      <4> QED
        BY <1>2, <3>2, <4>1
    <3>4. Of(cl.call, course.gives) \in Seq(AnyToken)
      BY <1>2, <2>3, OfKeeps
    <3>5. Downward' = Of(cl.call, course.gives) /\ down' \in Seq(AnyToken)
      BY <1>3, <1>7, <3>1, <3>4, WrittenDown
    <3>6. AnswerIsThere'
      BY <1>2, <1>3, <1>7, <2>2, <2>3, <3>5, AnswerGiven
    <3>7. Upward' = <<>>
      <4>1. <<>> \in Seq(Field)
        OBVIOUS
      <4>2. Asks(cl.call, <<>>) = <<>>
        BY <1>2, <4>1, FirstAsked
      <4> QED
        BY <1>4, <2>3, <2>4, <4>2
    <3>8. up' = <<>>
      BY <1>1, <3>7, NothingUp
    <3>9. Typed'
      BY <1>1, <1>7, <3>3, <3>5, ServerMoves
    <3>10. AtTop'
      BY <3>6, <3>8 DEF AtTop, Satisfied
    <3> QED
      BY <1>1, <1>7, <3>3, <3>9, <3>10 DEF InStep, Course
  <2>5. CASE course.takes # <<>>
    <3>1. /\ srv' = [pc |-> "args", call |-> cl.call, takes |-> course.takes, gives |-> course.gives]
          /\ down' = down
      BY <2>1, <2>5 DEF Follows
    <3>2. /\ srv' \in [pc : ServerReads, call : Nat, takes : Seq(Field), gives : Seq(Filled)]
          /\ srv'.pc = "args" /\ srv'.call = cl.call /\ srv'.takes = Asked(cl.cmd)
          /\ srv'.gives = course.gives
      <4>1. "args" \in ServerReads
        BY DEF ServerReads
      <4> QED
        BY <1>2, <1>6, <2>3, <3>1, <4>1
    <3>3. Typed'
      BY <1>1, <1>7, <1>8, <3>1, <3>2, ServerMoves
    <3>4. Started' /\ cl' = cl
      BY <1>7, <1>8, <3>1
    <3>5. AtArgs'
      BY <1>4, <2>2, <2>3, <2>5, <3>2, <3>4 DEF AtArgs, Args
    <3> QED
      BY <1>1, <1>7, <3>2, <3>3, <3>5 DEF InStep, Course
  <2> QED
    BY <2>4, <2>5
<1>11. CASE /\ SGot.k = "hdr" /\ SGot.v = "JS_FILE_SEND"
            /\ srv' = [pc |-> "uniq", call |-> SGot.call, takes |-> <<INT("env")>> \o FileUniq, gives |-> <<>>]
            /\ UNCHANGED down
  <2>1. Asked("JS_FILE_SEND") = <<INT("env")>> \o FileUniq
    BY DEF Asked
  <2>2. srv' = [pc |-> "uniq", call |-> cl.call, takes |-> Asked(cl.cmd), gives |-> <<>>]
    BY <1>5, <1>11, <2>1
  <2>3. cl.cmd = "JS_FILE_SEND" /\ Asked(cl.cmd) # <<>>
    <3>1. Asked("JS_FILE_SEND") # <<>>
      BY <2>1 DEF FileUniq, Ints, INT, Bytes
    <3> QED
      BY <1>5, <1>11, <3>1
  <2>4. /\ srv' \in [pc : ServerReads, call : Nat, takes : Seq(Field), gives : Seq(Filled)]
        /\ srv'.pc = "uniq" /\ srv'.call = cl.call /\ srv'.takes = Asked(cl.cmd)
    <3>1. "uniq" \in ServerReads /\ <<>> \in Seq(Filled)
      BY DEF ServerReads
    <3> QED
      BY <1>2, <1>6, <2>2, <3>1
  <2>5. Typed'
    BY <1>1, <1>7, <1>8, <1>11, <2>4, ServerMoves
  <2>6. Started' /\ cl' = cl
    BY <1>7, <1>8, <1>11
  <2>7. AtUniq'
    BY <1>4, <2>3, <2>4, <2>6 DEF AtUniq, Args, Here
  <2> QED
    BY <1>1, <1>7, <2>4, <2>5, <2>7 DEF InStep, Course
<1>12. CASE /\ SGot.k = "hdr" /\ SGot.v = "JS_FILE_RECEIVE"
            /\ srv' = [pc |-> "fid", call |-> SGot.call, takes |-> Ints(<<"env", "fid">>), gives |-> <<>>]
            /\ UNCHANGED down
  <2>1. Asked("JS_FILE_RECEIVE") = Ints(<<"env", "fid">>)
    BY DEF Asked
  <2>2. srv' = [pc |-> "fid", call |-> cl.call, takes |-> Asked(cl.cmd), gives |-> <<>>]
    BY <1>5, <1>12, <2>1
  <2>3. cl.cmd = "JS_FILE_RECEIVE" /\ Asked(cl.cmd) # <<>>
    <3>1. Asked("JS_FILE_RECEIVE") # <<>>
      BY <2>1 DEF Ints, INT
    <3> QED
      BY <1>5, <1>12, <3>1
  <2>4. /\ srv' \in [pc : ServerReads, call : Nat, takes : Seq(Field), gives : Seq(Filled)]
        /\ srv'.pc = "fid" /\ srv'.call = cl.call /\ srv'.takes = Asked(cl.cmd)
    <3>1. "fid" \in ServerReads /\ <<>> \in Seq(Filled)
      BY DEF ServerReads
    <3> QED
      BY <1>2, <1>6, <2>2, <3>1
  <2>5. Typed'
    BY <1>1, <1>7, <1>8, <1>12, <2>4, ServerMoves
  <2>6. Started' /\ cl' = cl
    BY <1>7, <1>8, <1>12
  <2>7. AtFid'
    BY <1>4, <2>3, <2>4, <2>6 DEF AtFid, Args, Here
  <2> QED
    BY <1>1, <1>7, <2>4, <2>5, <2>7 DEF InStep, Course
<1> QED
  BY <1>9, <1>10, <1>11, <1>12

\* The server reads an argument.
LEMMA GetArgInStep ==
    ASSUME Typed, InStep, ~astray, get_arg
    PROVE  Typed' /\ InStep'
<1> USE DEF get_arg
<1>1. PICK pc \in {"args", "uniq", "fid", "to_uniq"} : ServerReading(pc)
  OBVIOUS
<1>2. ClientWaits /\ UNCHANGED <<cl, cr, up, down, alive>> /\ astray' \in {astray, TRUE}
  BY DEF ClientWaits
<1>3. /\ alive /\ srv.pc = pc /\ Upward # <<>> /\ SGot = Head(Upward)
      /\ Upward' = Tail(Upward) /\ SGot \in AnyToken
      /\ sr' \in Seq(AnyToken) /\ up' \in Seq(AnyToken)
  BY <1>1, <1>2, ServerReads1
<1>4. /\ srv' = [srv EXCEPT !.takes = Tail(@)] /\ Len(srv.takes) > 1
      /\ srv.takes \in Seq(Field) /\ cl.call \in Nat
      /\ srv \in [pc : ServerReads, call : Nat, takes : Seq(Field), gives : Seq(Filled)]
  BY DEF Typed
<1>5. Args
  BY <1>1, <1>3 DEF InStep, Course, AtArgs, AtUniq, AtFid, AtToUniq
<1>6. /\ Upward' = Asks(cl.call, Tail(srv.takes)) /\ Tail(srv.takes) \in Seq(Field)
      /\ Tail(srv.takes) # <<>>
  <2>1. srv.takes # <<>> /\ Upward = Asks(cl.call, srv.takes)
    BY <1>5 DEF Args
  <2> QED
    BY <1>3, <1>4, <2>1, NextArg
<1> HIDE DEF get_arg
<1>7. /\ srv' \in [pc : ServerReads, call : Nat, takes : Seq(Field), gives : Seq(Filled)]
      /\ srv'.pc = pc /\ srv'.call = srv.call /\ srv'.takes = Tail(srv.takes)
      /\ srv'.gives = srv.gives
  BY <1>3, <1>4, <1>6
<1>8. Args'
  BY <1>2, <1>6, <1>7 DEF Args
<1>9. Typed'
  BY <1>2, <1>3, <1>7, ServerMoves DEF Typed
<1>10. Downward' = Downward
  BY <1>2 DEF Downward
<1>11. (Started' <=> Started) /\ (Awaits("mode")' <=> Awaits("mode"))
  BY <1>2, <1>10, SameForTheClient
<1>12. CASE pc = "args"
  <2>1. AtArgs
    BY <1>3, <1>12 DEF InStep, Course
  <2>2. AtArgs'
    BY <1>2, <1>7, <1>8, <1>11, <2>1 DEF AtArgs
  <2> QED
    BY <1>2, <1>3, <1>7, <1>9, <1>12, <2>2 DEF InStep, Course
<1>13. CASE pc = "uniq"
  <2>1. AtUniq
    BY <1>3, <1>13 DEF InStep, Course
  <2>2. AtUniq'
    BY <1>2, <1>7, <1>8, <1>11, <2>1 DEF AtUniq, Here
  <2> QED
    BY <1>2, <1>3, <1>7, <1>9, <1>13, <2>2 DEF InStep, Course
<1>14. CASE pc = "fid"
  <2>1. AtFid
    BY <1>3, <1>14 DEF InStep, Course
  <2>2. AtFid'
    BY <1>2, <1>7, <1>8, <1>11, <2>1 DEF AtFid, Here
  <2> QED
    BY <1>2, <1>3, <1>7, <1>9, <1>14, <2>2 DEF InStep, Course
<1>15. CASE pc = "to_uniq"
  <2>1. AtToUniq
    BY <1>3, <1>15 DEF InStep, Course
  <2>2. AtToUniq'
    BY <1>2, <1>7, <1>8, <1>11, <2>1 DEF AtToUniq, Here
  <2> QED
    BY <1>2, <1>3, <1>7, <1>9, <1>15, <2>2 DEF InStep, Course
<1> QED
  BY <1>12, <1>13, <1>14, <1>15

\* The last argument has been read.
LEMMA LastArg ==
    ASSUME Typed, NEW pc, GetsLast(pc), Args, ClientWaits
    PROVE  /\ alive /\ srv.pc = pc /\ sr' = <<>> /\ up' = <<>> /\ Upward' = <<>>
           /\ sr' \in Seq(AnyToken)
           /\ UNCHANGED <<cl, cr, up, alive>> /\ cl.call \in Nat
<1>1. ServerReading(pc) /\ Len(srv.takes) = 1 /\ UNCHANGED <<cl, cr, up, alive>>
  BY DEF GetsLast, ClientWaits
<1>2. /\ alive /\ srv.pc = pc /\ Upward' = Tail(Upward)
      /\ sr' \in Seq(AnyToken) /\ up' \in Seq(AnyToken)
  BY <1>1, ServerReads1
<1>3. srv.takes \in Seq(Field) /\ cl.call \in Nat
  BY DEF Typed
<1>4. Upward' = <<>>
  BY <1>1, <1>2, <1>3, NextArg DEF Args
<1> QED
  BY <1>1, <1>2, <1>3, <1>4, NothingUp

\* The server answers.
LEMMA AnswerInStep ==
    ASSUME Typed, InStep, ~astray, answer
    PROVE  Typed' /\ InStep'
<1>1. /\ GetsLast("args") /\ Puts(srv.gives) /\ srv' = Top /\ ClientWaits
      /\ astray' \in {astray, TRUE}
  BY DEF answer
<1>2. AtArgs
  BY <1>1 DEF GetsLast, ServerReading, InStep, Course
<1>3. /\ Args /\ srv.call = cl.call /\ cl.cmd \notin Transfers /\ srv.gives \in Answers(cl.cmd)
      /\ cl.cmd \in CommandNames /\ cl.pc = "answer" /\ cl.got = <<>> /\ Downward = <<>>
  BY <1>2 DEF AtArgs, Started, Awaits, FirstRead, Transfers
<1>4. /\ alive /\ up' = <<>> /\ Upward' = <<>> /\ sr' \in Seq(AnyToken)
      /\ UNCHANGED <<cl, cr, up, alive>> /\ cl.call \in Nat
  BY <1>1, <1>3, LastArg
<1>5. srv.gives \in Seq(Filled)
  BY <1>3, AnswersAgree
<1>6. Of(cl.call, srv.gives) \in Seq(AnyToken)
  BY <1>4, <1>5, OfKeeps
<1>7. Downward' = Of(cl.call, srv.gives) /\ down' \in Seq(AnyToken)
  <2>1. down' = down \o Of(cl.call, srv.gives)
    BY <1>1, <1>3 DEF Puts
  <2> QED
    BY <1>3, <1>4, <1>6, <2>1, WrittenDown
<1>8. AnswerIsThere'
  BY <1>3, <1>4, <1>7, AnswerGiven
<1>9. /\ srv' \in [pc : ServerReads, call : Nat, takes : Seq(Field), gives : Seq(Filled)]
      /\ srv'.pc = "top"
  BY <1>1, ServerRecords
<1>10. Typed'
  BY <1>1, <1>4, <1>7, <1>9, ServerMoves
<1> QED
  BY <1>4, <1>8, <1>9, <1>10 DEF InStep, Course, AtTop, Satisfied

(***************************************************************************)
(* JS_FILE_SEND in the server.                                             *)
(***************************************************************************)
LEMMA LoadedTyped ==
    ASSUME cl.call \in Nat, NEW v \in Int, NEW r \in Statuses
    PROVE  Loaded(v, r) \in Seq(AnyToken)
<1>1. "loaded" \in Names /\ r \in Seq(Filled)
  BY StatusesTyped DEF Names
<1> QED
  BY <1>1, FirstGiven DEF Loaded

\* js_file_send in the server: the client says which file.
LEMMA FileSendInStep ==
    ASSUME Typed, InStep, ~astray, file_send
    PROVE  Typed' /\ InStep'
<1>1. GetsLast("uniq") /\ ClientWaits /\ astray' = astray
  BY DEF file_send
<1>2. AtUniq
  BY <1>1 DEF GetsLast, ServerReading, InStep, Course
<1>3. /\ Args /\ srv.call = cl.call /\ cl.cmd = "JS_FILE_SEND" /\ cl.pc = "loaded"
      /\ cl.got = <<>> /\ Downward = <<>>
  BY <1>2 DEF AtUniq, Here, Started, Awaits, FirstRead
<1>4. /\ alive /\ up' = <<>> /\ Upward' = <<>> /\ sr' \in Seq(AnyToken)
      /\ UNCHANGED <<cl, cr, up, alive>> /\ cl.call \in Nat
  BY <1>1, <1>3, LastArg
<1>5. ASSUME NEW v \in Int, NEW r \in Statuses, Puts(Server!put4("loaded", v) \o r)
      PROVE  Downward' = Loaded(v, r) /\ down' \in Seq(AnyToken)
  <2>1. down' = down \o Loaded(v, r)
    BY <1>3, <1>5 DEF Puts, Loaded
  <2>2. Loaded(v, r) \in Seq(AnyToken)
    BY <1>4, LoadedTyped
  <2> QED
    BY <1>3, <1>4, <2>1, <2>2, WrittenDown
<1>6. \/ \E r \in Statuses : Puts(Server!put4("loaded", 1) \o r) /\ srv' = Top
      \/ Puts(Server!put4("loaded", -1) \o Server!error_ret("status")) /\ srv' = Top
      \/ /\ Puts(Server!put4("loaded", -1) \o Server!put4("status", 1))
         /\ Goes("name", <<Str("name")>>)
  BY DEF file_send, Statuses
<1>7. {Server!error_ret("status"), Server!put4("status", 1)} \subseteq Statuses /\ {1, -1} \subseteq Int
  BY DEF Statuses
<1>8. ASSUME srv' = Top, LoadedIsThere', down' \in Seq(AnyToken)
      PROVE  Typed' /\ InStep'
  <2>1. /\ srv' \in [pc : ServerReads, call : Nat, takes : Seq(Field), gives : Seq(Filled)]
        /\ srv'.pc = "top"
    BY <1>8, ServerRecords
  <2>2. Typed'
    BY <1>1, <1>4, <1>8, <2>1, ServerMoves
  <2> QED
    BY <1>4, <1>8, <2>1, <2>2 DEF InStep, Course, AtTop, Satisfied
<1>9. CASE \E r \in Statuses : Puts(Server!put4("loaded", 1) \o r) /\ srv' = Top
  <2>1. PICK r \in Statuses : Puts(Server!put4("loaded", 1) \o r) /\ srv' = Top
    BY <1>9
  <2>2. Downward' = Loaded(1, r) /\ down' \in Seq(AnyToken)
    BY <1>5, <1>7, <2>1
  <2>3. LoadedIsThere'
    BY <1>3, <1>4, <2>2 DEF LoadedIsThere, Loaded
  <2> QED
    BY <1>8, <2>1, <2>2, <2>3
<1>10. CASE Puts(Server!put4("loaded", -1) \o Server!error_ret("status")) /\ srv' = Top
  <2>1. Downward' = Loaded(-1, Server!error_ret("status")) /\ down' \in Seq(AnyToken)
    <3> DEFINE v == -1
               r == Server!error_ret("status")
    <3>1. v \in Int /\ r \in Statuses /\ Puts(Server!put4("loaded", v) \o r)
      BY <1>7, <1>10
    <3> HIDE DEF v, r
    <3>2. Downward' = Loaded(v, r) /\ down' \in Seq(AnyToken)
      BY <1>5, <3>1
    <3> QED
      BY <3>2 DEF v, r
  <2>2. LoadedIsThere'
    BY <1>3, <1>4, <2>1 DEF LoadedIsThere, Loaded
  <2> QED
    BY <1>8, <1>10, <2>1, <2>2
<1>11. CASE /\ Puts(Server!put4("loaded", -1) \o Server!put4("status", 1))
            /\ Goes("name", <<Str("name")>>)
  <2>1. Downward' = Loaded(-1, Server!put4("status", 1)) /\ down' \in Seq(AnyToken)
    <3> DEFINE v == -1
               r == Server!put4("status", 1)
    <3>1. v \in Int /\ r \in Statuses /\ Puts(Server!put4("loaded", v) \o r)
      BY <1>7, <1>11
    <3> HIDE DEF v, r
    <3>2. Downward' = Loaded(v, r) /\ down' \in Seq(AnyToken)
      BY <1>5, <3>1
    <3> QED
      BY <3>2 DEF v, r
  <2>2. MaySend'
    BY <1>3, <1>4, <2>1 DEF MaySend, Loaded
  <2>3. /\ srv' \in [pc : ServerReads, call : Nat, takes : Seq(Field), gives : Seq(Filled)]
        /\ srv'.pc = "name" /\ srv'.call = srv.call /\ srv'.takes = <<Str("name")>>
    <3>1. "name" \in ServerReads /\ <<Str("name")>> \in Seq(Field)
      BY DEF ServerReads, Str, Field, Kinds, Names
    <3> QED
      BY <1>11, <3>1, ServerRecords
  <2>4. Typed'
    BY <1>1, <1>4, <2>1, <2>3, ServerMoves
  <2>5. AtName'
    BY <1>3, <1>4, <2>2, <2>3 DEF AtName, Here
  <2> QED
    BY <1>4, <2>3, <2>4, <2>5 DEF InStep, Course
<1> QED
  BY <1>6, <1>9, <1>10, <1>11

\* The server reads the name of the file it is sent.
LEMMA FileSendNameInStep ==
    ASSUME Typed, InStep, ~astray, file_send_name
    PROVE  Typed' /\ InStep'
<1>1. ServerReading("name") /\ Goes("file", <<>>) /\ ClientWaits /\ UNCHANGED <<down, astray>>
  BY DEF file_send_name
<1>2. UNCHANGED <<cl, cr, up, alive>>
  BY <1>1 DEF ClientWaits
<1>3. /\ alive /\ srv.pc = "name" /\ Upward # <<>> /\ Upward' = Tail(Upward)
      /\ sr' \in Seq(AnyToken) /\ up' \in Seq(AnyToken)
  BY <1>1, <1>2, ServerReads1
<1>4. AtName
  BY <1>3 DEF InStep, Course
<1>5. /\ srv.call = cl.call /\ cl.cmd = "JS_FILE_SEND" /\ Awaits("answer") /\ cl.call \in Nat
  BY <1>3, <1>4 DEF AtName, Here, Typed
<1>6. PICK n \in 1 .. MaxContents :
        Upward = Asks(cl.call, <<Str("name")>>) \o FileStream(cl.call, n)
  BY <1>3, <1>4 DEF AtName
<1>7. Upward' = FileStream(cl.call, n)
  <2> DEFINE a == Asks(cl.call, <<Str("name")>>)
             b == FileStream(cl.call, n)
             s == <<Str("name")>>
  <2>1. s \in Seq(Field) /\ s # <<>> /\ Tail(s) = <<>> /\ <<>> \in Seq(Field)
    BY DEF Str, Field, Kinds, Names
  <2>2. a = Asks(cl.call, s) /\ Upward' = Tail(a \o b)
    BY <1>3, <1>6
  <2>3. n \in Nat /\ <<>> \in Seq(AnyToken)
    BY <1>6, BoundsAssumption
  <2>4. b \in Seq(AnyToken)
    BY <1>5, <2>3, FirstOfStream
  <2> HIDE DEF a, b, s
  <2>5. a \in Seq(AnyToken) /\ a # <<>> /\ Tail(a) = Asks(cl.call, Tail(s))
    BY <1>5, <2>1, <2>2, FirstAsked
  <2>6. Asks(cl.call, <<>>) = <<>>
    BY <1>5, <2>1, FirstAsked
  <2>7. Tail(a \o b) = Tail(a) \o b
    BY <2>4, <2>5, ReadsFirst
  <2>8. <<>> \o b = b
    BY <2>4, Joined
  <2> QED
    BY <2>1, <2>2, <2>5, <2>6, <2>7, <2>8 DEF b
<1>8. /\ srv' \in [pc : ServerReads, call : Nat, takes : Seq(Field), gives : Seq(Filled)]
      /\ srv'.pc = "file" /\ srv'.call = srv.call
  <2>1. "file" \in ServerReads /\ <<>> \in Seq(Field)
    BY DEF ServerReads
  <2> QED
    BY <1>1, <2>1, ServerRecords
<1>9. Typed'
  BY <1>1, <1>2, <1>3, <1>8, ServerMoves DEF Typed
<1>10. Awaits("answer")'
  <2>1. Downward' = Downward
    BY <1>1, <1>2 DEF Downward
  <2> QED
    BY <1>2, <1>5, <2>1, SameForTheClient
<1>11. n \in 0 .. MaxContents
  BY BoundsAssumption
<1>12. AtFile'
  BY <1>2, <1>5, <1>7, <1>8, <1>10, <1>11 DEF AtFile, Here
<1> QED
  BY <1>2, <1>3, <1>8, <1>9, <1>12 DEF InStep, Course

\* Only the last token of a stream is its end.
LEMMA StreamMarks ==
    ASSUME NEW n \in Nat, NEW len \in Nat
    PROVE  /\ Len(FileStream(n, len)) = len + 1 /\ FileStream(n, len) \in Seq(AnyToken)
           /\ \A i \in 1 .. len : FileStream(n, len)[i].k # "eof"
<1> DEFINE a == Contents(n, len)
           b == <<Piece(n, "eof", 0)>>
<1>1. /\ Piece(n, "file", 0) \in AnyToken /\ Piece(n, "file", 1) \in AnyToken
      /\ Piece(n, "eof", 0) \in AnyToken
  BY PieceTyped
<1>2. /\ a \in Seq(AnyToken) /\ Len(a) = len
      /\ \A i \in 1 .. len : a[i] = Piece(n, "file", IF i = len THEN 1 ELSE 0)
  BY <1>1 DEF Contents
<1>3. b \in Seq(AnyToken) /\ Len(b) = 1
  BY <1>1
<1>4. \A v : Piece(n, "file", v).k # "eof"
  BY DEF Piece
<1>5. FileStream(n, len) = a \o b
  BY DEF FileStream
<1> HIDE DEF a, b
<1>6. /\ a \o b \in Seq(AnyToken) /\ Len(a \o b) = len + 1
      /\ \A i \in 1 .. len : (a \o b)[i] = a[i]
  <2>1. /\ a \o b \in Seq(AnyToken) /\ Len(a \o b) = Len(a) + Len(b)
        /\ \A i \in 1 .. Len(a) + Len(b) : (a \o b)[i] = IF i <= Len(a) THEN a[i] ELSE b[i - Len(a)]
    BY <1>2, <1>3, ConcatProperties
  <2> QED
    BY <1>2, <1>3, <2>1
<1>7. \A i \in 1 .. len : (a \o b)[i].k # "eof"
  BY <1>2, <1>4, <1>6
<1> QED
  BY <1>5, <1>6, <1>7

\* When read_file has the end of the stream in rcv_buf, nothing of it is in the socket.
LEMMA WholeStream ==
    ASSUME Typed, NEW n \in Nat, NEW len \in Nat, Upward = FileStream(n, len), sr # <<>>,
           ~StreamUnread
    PROVE  up = <<>>
<1>1. sr \in Seq(AnyToken) /\ up \in Seq(AnyToken)
  BY DEF Typed
<1>2. PICK i \in 1 .. Len(sr) : sr[i].k = "eof"
  <2>1. SGot = sr[1] /\ 1 \in 1 .. Len(sr) /\ \A i \in 2 .. Len(sr) : i \in 1 .. Len(sr)
    BY <1>1 DEF SGot
  <2>2. SGot.k = "eof" \/ \E i \in 2 .. Len(sr) : sr[i].k = "eof"
    BY DEF StreamUnread
  <2> QED
    BY <2>1, <2>2
<1>3. /\ Len(sr \o up) = Len(sr) + Len(up) /\ Len(sr) \in Nat /\ Len(up) \in Nat
      /\ (sr \o up)[i] = sr[i]
  BY <1>1, ConcatProperties
<1>4. /\ Len(sr \o up) = len + 1
      /\ \A j \in 1 .. len : (sr \o up)[j].k # "eof"
  BY StreamMarks DEF Upward
<1>5. i \notin 1 .. len
  BY <1>2, <1>3, <1>4
<1>6. Len(up) = 0
  BY <1>2, <1>3, <1>4, <1>5
<1> QED
  BY <1>1, <1>6, EmptySeq

\* A file on its way when one piece has been read.
LEMMA StreamGoesOn ==
    ASSUME NEW n \in Nat, NEW len \in Nat, len > 0, NEW rest \in Seq(AnyToken)
    PROVE  Tail(FileStream(n, len) \o rest) = FileStream(n, len - 1) \o rest
  BY FirstOfStream

\* The server reads the file it is sent.
LEMMA ReadFileInStep ==
    ASSUME Typed, InStep, ~astray, read_file
    PROVE  Typed' /\ InStep'
<1>1. ServerReading("file") /\ ClientWaits
  BY DEF read_file
<1>2. UNCHANGED <<cl, cr, up, alive>>
  BY <1>1 DEF ClientWaits
<1>3. /\ alive /\ srv.pc = "file" /\ Upward # <<>> /\ SGot = Head(Upward) /\ Upward' = Tail(Upward)
      /\ sr' \in Seq(AnyToken) /\ up' \in Seq(AnyToken) /\ sr # <<>> /\ sr' = Tail(sr)
  BY <1>1, <1>2, ServerReads1 DEF ServerReading
<1>4. AtFile
  BY <1>3 DEF InStep, Course
<1>5. /\ srv.call = cl.call /\ cl.cmd = "JS_FILE_SEND" /\ Awaits("answer") /\ cl.call \in Nat
      /\ cl.pc = "answer" /\ cl.got = <<>> /\ Downward = <<>>
  BY <1>3, <1>4 DEF AtFile, Here, Typed, Awaits
<1>6. PICK n \in 0 .. MaxContents : Upward = FileStream(cl.call, n)
  BY <1>4 DEF AtFile
<1>7. n \in Nat /\ MaxContents \in Nat
  BY <1>6, BoundsAssumption
<1>8. CASE SGot.k # "eof" /\ UNCHANGED <<srv, down, astray>>
  <2>1. n > 0 /\ Upward' = FileStream(cl.call, n - 1)
    <3> DEFINE e == <<>>
               s == FileStream(cl.call, n)
               t == FileStream(cl.call, n - 1)
    <3>1. e \in Seq(AnyToken) /\ e = <<>>
      OBVIOUS
    <3> HIDE DEF e
    <3>2. s \in Seq(AnyToken)
      BY <1>5, <1>7, StreamMarks
    <3>3. s = s \o e
      <4> HIDE DEF s
      <4> QED
        BY <3>1, <3>2, Joined
    <3>4. n = 0 => Head(s) = Piece(cl.call, "eof", 0)
      <4>1. Head(FileStream(cl.call, 0) \o e) = Piece(cl.call, "eof", 0)
        BY <1>5, <3>1, StreamEnds
      <4> QED
        BY <3>3, <4>1
    <3>5. n > 0
      BY <1>3, <1>6, <1>7, <1>8, <3>4 DEF Piece
    <3>6. Tail(s \o e) = t \o e
      BY <1>5, <1>7, <3>1, <3>5, StreamGoesOn
    <3>7. t \o e = t
      <4>1. n - 1 \in Nat
        BY <1>7, <3>5
      <4>2. t \in Seq(AnyToken)
        BY <1>5, <4>1, StreamMarks
      <4> HIDE DEF t
      <4> QED
        BY <3>1, <4>2, Joined
    <3> QED
      BY <1>3, <1>6, <3>3, <3>5, <3>6, <3>7
  <2>2. n - 1 \in 0 .. MaxContents
    BY <1>6, <1>7, <2>1
  <2>3. Typed'
    <3>1. srv' = srv /\ down' = down /\ astray' = astray
      BY <1>8
    <3> QED
      BY <1>1, <1>3, <3>1, ServerMoves DEF Typed
  <2>4. Awaits("answer")'
    <3>1. Downward' = Downward
      BY <1>2, <1>8 DEF Downward
    <3> QED
      BY <1>2, <1>5, <3>1, SameForTheClient
  <2>5. AtFile'
    BY <1>2, <1>5, <1>8, <2>1, <2>2, <2>4 DEF AtFile, Here
  <2> QED
    BY <1>2, <1>3, <1>8, <2>3, <2>5 DEF InStep, Course
<1>9. ASSUME NEW r \in Statuses, AnswersSend(r)
      PROVE  Typed' /\ InStep'
  <2>1. Puts(r) /\ srv' = Top /\ astray' = (astray \/ StreamUnread)
    BY <1>9 DEF AnswersSend
  <2>2. Of(cl.call, r) \in Seq(AnyToken)
    BY <1>5, StatusesTyped, OfKeeps
  <2>3. Downward' = Of(cl.call, r) /\ down' \in Seq(AnyToken)
    <3>1. down' = down \o Of(cl.call, r)
      BY <1>5, <2>1 DEF Puts
    <3> QED
      BY <1>2, <1>5, <2>2, <3>1, WrittenDown
  <2>4. /\ srv' \in [pc : ServerReads, call : Nat, takes : Seq(Field), gives : Seq(Filled)]
        /\ srv'.pc = "top"
    BY <2>1, ServerRecords
  <2>5. astray' \in BOOLEAN
    BY <2>1 DEF Typed, StreamUnread
  <2>6. Typed'
    BY <1>2, <1>3, <2>3, <2>4, <2>5 DEF Typed
  <2>7. ASSUME ~StreamUnread
        PROVE  InStep'
    <3>1. up' = <<>>
      BY <1>2, <1>3, <1>5, <1>6, <1>7, <2>7, WholeStream
    <3>2. AnswerIsThere'
      BY <1>2, <1>5, <2>3, LastTurn DEF Transfers
    <3> QED
      BY <1>2, <1>3, <2>4, <3>1, <3>2 DEF InStep, Course, AtTop, Satisfied
  <2> QED
    BY <2>1, <2>6, <2>7 DEF InStep
<1>10. {Server!error_ret("status"), Server!put4("status", 1)} \subseteq Statuses
  BY DEF Statuses
<1> QED
  BY <1>8, <1>9, <1>10 DEF read_file

\* A file on its way begins with a piece or with its end.
LEMMA FirstOfFile ==
    ASSUME NEW n \in Nat, NEW len \in Nat
    PROVE  /\ Head(FileStream(n, len)).k \in {"file", "eof"}
           /\ Head(FileStream(n, len)).call = n
<1> DEFINE e == <<>>
           s == FileStream(n, len)
<1>1. e \in Seq(AnyToken)
  OBVIOUS
<1> HIDE DEF e
<1>2. s \in Seq(AnyToken)
  BY StreamMarks
<1>3. s \o e = s
  <2> HIDE DEF s
  <2> QED
    BY <1>1, <1>2, Joined DEF e
<1>4. \/ Head(s \o e) = Piece(n, "file", IF len = 1 THEN 1 ELSE 0)
      \/ Head(s \o e) = Piece(n, "eof", 0)
  BY <1>1, FirstOfStream
<1> QED
  BY <1>3, <1>4 DEF Piece

(***************************************************************************)
(* JS_FILE_RECEIVE in the server.                                          *)
(***************************************************************************)
LEMMA FileReceiveInStep ==
    ASSUME Typed, InStep, ~astray, file_receive
    PROVE  Typed' /\ InStep'
<1>1. /\ GetsLast("fid") /\ Puts(Server!Puts(<<Str("name")>>)) /\ Goes("ack", <<INT("ack")>>)
      /\ ClientWaits /\ astray' = astray
  BY DEF file_receive
<1>2. AtFid
  BY <1>1 DEF GetsLast, ServerReading, InStep, Course
<1>3. /\ Args /\ srv.call = cl.call /\ cl.cmd = "JS_FILE_RECEIVE" /\ cl.pc = "name"
      /\ Downward = <<>>
  BY <1>2 DEF AtFid, Here, Started, Awaits, FirstRead
<1>4. /\ alive /\ up' = <<>> /\ Upward' = <<>> /\ sr' \in Seq(AnyToken)
      /\ UNCHANGED <<cl, cr, up, alive>> /\ cl.call \in Nat
  BY <1>1, <1>3, LastArg
<1>5. Name \in Seq(AnyToken)
  <2>1. <<Str("name")>> \in Seq(Field)
    BY DEF Str, Field, Kinds, Names
  <2> QED
    BY <1>4, <2>1, FirstAsked DEF Name, Asks
<1>6. Downward' = Name /\ down' \in Seq(AnyToken)
  <2>1. down' = down \o Name
    BY <1>1, <1>3 DEF Puts, Name
  <2> QED
    BY <1>3, <1>4, <1>5, <2>1, WrittenDown
<1>7. NameIsThere'
  BY <1>3, <1>4, <1>6 DEF NameIsThere, Name
<1>8. /\ srv' \in [pc : ServerReads, call : Nat, takes : Seq(Field), gives : Seq(Filled)]
      /\ srv'.pc = "ack" /\ srv'.call = srv.call /\ srv'.takes = <<INT("ack")>>
  <2>1. "ack" \in ServerReads /\ <<INT("ack")>> \in Seq(Field)
    BY DEF ServerReads, INT, Field, Kinds, Names
  <2> QED
    BY <1>1, <2>1, ServerRecords
<1>9. Typed'
  BY <1>1, <1>4, <1>6, <1>8, ServerMoves
<1>10. AtAck'
  BY <1>3, <1>4, <1>7, <1>8 DEF AtAck, Here
<1> QED
  BY <1>4, <1>8, <1>9, <1>10 DEF InStep, Course

\* A refusal is read, whether the client has called again or not.
LEMMA RefusalIsRead ==
    ASSUME Typed, Refused, NEW pc, ServerReading(pc), ClientWaits
    PROVE  SGot.v = -1 /\ (down' = down => AtTop')
<1>1. UNCHANGED <<cl, cr, up, alive>>
  BY DEF ClientWaits
<1>2. /\ Upward # <<>> /\ SGot = Head(Upward) /\ Upward' = Tail(Upward)
      /\ sr' \in Seq(AnyToken) /\ up' \in Seq(AnyToken) /\ sr # <<>> /\ sr' = Tail(sr)
      /\ SGot = Head(sr)
  BY <1>1, ServerReads1 DEF ServerReading, SGot
<1>3. cl.call \in Nat /\ srv.call \in Nat
  BY DEF Typed
<1>4. ASSUME NEW n \in Nat
      PROVE  LET s == Of(n, Server!put4("ack", -1))
             IN  Head(s) = IntToken(n, "ack", -1) /\ Tail(s) = <<>>
  <2> DEFINE v == -1
  <2>1. v \in Int
    OBVIOUS
  <2> HIDE DEF v
  <2>2. /\ Head(Of(n, Server!put4("ack", v))) = IntToken(n, "ack", v)
        /\ Tail(Of(n, Server!put4("ack", v))) = <<>>
    BY <2>1, AckTyped
  <2> QED
    BY <2>2 DEF v
<1>5. CASE cl.pc = "idle" /\ down = <<>> /\ srv.call = cl.call /\ Upward = Ack(-1)
  <2>1. SGot = IntToken(cl.call, "ack", -1) /\ Upward' = <<>>
    BY <1>2, <1>3, <1>4, <1>5 DEF Ack
  <2>2. SGot.v = -1
    BY <2>1 DEF IntToken
  <2>3. up' = <<>>
    BY <1>2, <2>1, NothingUp
  <2> QED
    BY <1>1, <1>5, <2>2, <2>3 DEF AtTop, Satisfied
<1>6. CASE Started /\ up = Request /\ sr = Of(srv.call, Server!put4("ack", -1))
  <2>1. SGot = IntToken(srv.call, "ack", -1)
    BY <1>2, <1>3, <1>4, <1>6
  <2>2. SGot.v = -1
    BY <2>1 DEF IntToken
  <2>3. ASSUME down' = down
        PROVE  AtTop'
    <3>1. Downward' = Downward
      BY <1>1, <2>3 DEF Downward
    <3>2. Started' /\ Request' = Request
      BY <1>1, <1>6, <3>1, SameForTheClient
    <3> QED
      BY <1>1, <1>6, <3>2 DEF AtTop
  <2> QED
    BY <2>2, <2>3
<1> QED
  BY <1>5, <1>6 DEF Refused

\* The server learns whether the client takes the file.
LEMMA FileReceiveAckInStep ==
    ASSUME Typed, InStep, ~astray, file_receive_ack
    PROVE  Typed' /\ InStep'
<1>1. /\ ServerReading("ack") /\ ClientWaits /\ UNCHANGED <<down, astray>>
      /\ SGot.v = -1 => srv' = Top
      /\ SGot.v # -1 => Goes("to_uniq", FileUniq)
  BY DEF file_receive_ack
<1>2. UNCHANGED <<cl, cr, up, alive>>
  BY <1>1 DEF ClientWaits
<1>3. /\ alive /\ srv.pc = "ack" /\ Upward # <<>> /\ SGot = Head(Upward) /\ Upward' = Tail(Upward)
      /\ sr' \in Seq(AnyToken) /\ up' \in Seq(AnyToken)
  BY <1>1, <1>2, ServerReads1
<1>4. AtAck
  BY <1>3 DEF InStep, Course
<1>5. FileUniq \in Seq(Field) /\ FileUniq # <<>> /\ "to_uniq" \in ServerReads
  BY DEF FileUniq, Ints, INT, Bytes, Field, Kinds, Names, ServerReads
<1>6. srv' \in [pc : ServerReads, call : Nat, takes : Seq(Field), gives : Seq(Filled)]
  BY <1>1, <1>5, ServerRecords
<1>7. Typed'
  BY <1>1, <1>2, <1>3, <1>6, ServerMoves DEF Typed
<1>8. CASE /\ Here("JS_FILE_RECEIVE") /\ Awaits("mode")
           /\ Upward = Ack(0) \o Asks(cl.call, FileUniq)
  <2> DEFINE a == Ack(0)
             b == Asks(cl.call, FileUniq)
  <2>1. cl.call \in Nat /\ 0 \in Int
    BY DEF Typed
  <2>2. /\ a \in Seq(AnyToken) /\ a # <<>> /\ Tail(a) = <<>>
        /\ Head(a) = IntToken(cl.call, "ack", 0)
    BY <2>1, AckTyped DEF Ack
  <2>3. b \in Seq(AnyToken)
    BY <1>5, <2>1, FirstAsked
  <2>4. Upward = a \o b
    BY <1>8
  <2> HIDE DEF a, b
  <2>5. Head(a \o b) = Head(a) /\ Tail(a \o b) = Tail(a) \o b
    BY <2>2, <2>3, ReadsFirst
  <2>6. <<>> \o b = b
    BY <2>3, Joined
  <2>7. SGot.v = 0 /\ Upward' = b
    <3>1. Upward' = b
      BY <1>3, <2>2, <2>4, <2>5, <2>6
    <3>2. SGot = IntToken(cl.call, "ack", 0)
      BY <1>3, <2>2, <2>4, <2>5
    <3> QED
      BY <3>1, <3>2 DEF IntToken
  <2>8. srv'.pc = "to_uniq" /\ srv'.call = srv.call /\ srv'.takes = FileUniq
    BY <1>1, <1>5, <2>7, ServerRecords
  <2>9. Awaits("mode")'
    <3>1. Downward' = Downward
      BY <1>1, <1>2 DEF Downward
    <3> QED
      BY <1>2, <1>8, <3>1, SameForTheClient
  <2>10. AtToUniq'
    BY <1>2, <1>5, <1>8, <2>7, <2>8, <2>9 DEF AtToUniq, Args, Here, b
  <2> QED
    BY <1>2, <1>3, <1>7, <2>8, <2>10 DEF InStep, Course
<1>9. CASE Refused
  <2>1. SGot.v = -1 /\ AtTop'
    BY <1>1, <1>9, RefusalIsRead
  <2>2. srv'.pc = "top"
    BY <1>1, <2>1, ServerRecords
  <2> QED
    BY <1>2, <1>3, <1>7, <2>1, <2>2 DEF InStep, Course
<1> QED
  BY <1>3, <1>4, <1>8, <1>9 DEF AtAck

\* The server has read which file the client has, and answers how it sends.
LEMMA FileReceiveModeInStep ==
    ASSUME Typed, InStep, ~astray, file_receive_mode
    PROVE  Typed' /\ InStep'
<1>1. GetsLast("to_uniq") /\ ClientWaits /\ astray' = astray
  BY DEF file_receive_mode
<1>2. AtToUniq
  BY <1>1 DEF GetsLast, ServerReading, InStep, Course
<1>3. /\ Args /\ srv.call = cl.call /\ cl.cmd = "JS_FILE_RECEIVE" /\ cl.pc = "mode"
      /\ Downward = <<>>
  BY <1>2 DEF AtToUniq, Here, Awaits
<1>4. /\ alive /\ up' = <<>> /\ Upward' = <<>> /\ sr' \in Seq(AnyToken)
      /\ UNCHANGED <<cl, cr, up, alive>> /\ cl.call \in Nat
  BY <1>1, <1>3, LastArg
<1>5. {"mode", "errno"} \subseteq Names
  BY DEF Names
<1>6. ASSUME NEW r \in Seq(Filled), Puts(r)
      PROVE  Downward' = Turn(r) /\ down' \in Seq(AnyToken)
  <2>1. down' = down \o Of(cl.call, r)
    BY <1>3, <1>6 DEF Puts
  <2>2. Of(cl.call, r) \in Seq(AnyToken)
    BY <1>4, OfKeeps
  <2> QED
    BY <1>3, <1>4, <2>1, <2>2, WrittenDown DEF Turn
<1>7. ASSUME NEW r \in {Server!error_ret("mode"), Server!put4("mode", 0)}, Puts(r), srv' = Top
      PROVE  Typed' /\ InStep'
  <2>1. r \in Seq(Filled)
    <3>1. Server!put4("mode", 0) \in Seq(Filled)
      <4>1. "mode" \in Names /\ 0 \in Int
        BY <1>5
      <4> QED
        BY <4>1, PutMatches DEF Matches
    <3>2. Server!error_ret("mode") \in Seq(Filled)
      <4> DEFINE v == -1
                 a == Server!put4("mode", v)
                 b == Server!put4("errno", 1)
      <4>1. v \in Int /\ 1 \in Int /\ "mode" \in Names /\ "errno" \in Names
        BY <1>5
      <4>2. Server!error_ret("mode") = a \o b
        BY DEF Server!error_ret
      <4> HIDE DEF v
      <4>3. a \in Seq(Filled)
        BY <4>1, PutMatches DEF Matches
      <4>4. b \in Seq(Filled)
        BY <4>1, PutMatches DEF Matches
      <4> HIDE DEF a, b
      <4> QED
        BY <4>2, <4>3, <4>4, ConcatProperties
    <3> QED
      BY <3>1, <3>2
  <2>2. Downward' = Turn(r) /\ down' \in Seq(AnyToken)
    BY <1>6, <1>7, <2>1
  <2>3. NoModeIsThere'
    <3>1. Turn(r)' = Turn(r)
      BY <1>4 DEF Turn
    <3> QED
      BY <1>3, <1>4, <1>7, <2>2, <3>1 DEF NoModeIsThere, Turn
  <2>4. /\ srv' \in [pc : ServerReads, call : Nat, takes : Seq(Field), gives : Seq(Filled)]
        /\ srv'.pc = "top"
    BY <1>7, ServerRecords
  <2>5. Typed'
    BY <1>1, <1>4, <2>2, <2>4, ServerMoves
  <2> QED
    BY <1>4, <2>3, <2>4, <2>5 DEF InStep, Course, AtTop, Satisfied
<1>8. ASSUME NEW m \in 1 .. 3, Puts(Server!put4("mode", m)), Goes("go", <<INT("ack")>>)
      PROVE  Typed' /\ InStep'
  <2>1. Server!put4("mode", m) \in Seq(Filled)
    <3>1. "mode" \in Names /\ m \in Int
      BY <1>5
    <3> QED
      BY <3>1, PutMatches DEF Matches
  <2>2. Downward' = Turn(Server!put4("mode", m)) /\ down' \in Seq(AnyToken)
    BY <1>6, <1>8, <2>1
  <2>3. ModeIsThere'
    BY <1>3, <1>4, <2>2 DEF ModeIsThere, Modes, Turn
  <2>4. /\ srv' \in [pc : ServerReads, call : Nat, takes : Seq(Field), gives : Seq(Filled)]
        /\ srv'.pc = "go" /\ srv'.call = srv.call /\ srv'.takes = <<INT("ack")>>
    <3>1. "go" \in ServerReads /\ <<INT("ack")>> \in Seq(Field)
      BY DEF ServerReads, INT, Field, Kinds, Names
    <3> QED
      BY <1>8, <3>1, ServerRecords
  <2>5. Typed'
    BY <1>1, <1>4, <2>2, <2>4, ServerMoves
  <2>6. AtGo'
    BY <1>3, <1>4, <2>3, <2>4 DEF AtGo, Here
  <2> QED
    BY <1>4, <2>4, <2>5, <2>6 DEF InStep, Course
<1> QED
  BY <1>7, <1>8 DEF file_receive_mode

\* rcv_file: the contents are sent, or not wanted.
LEMMA RcvFileInStep ==
    ASSUME Typed, InStep, ~astray, rcv_file
    PROVE  Typed' /\ InStep'
<1>1. ServerReading("go") /\ srv' = Top /\ ClientWaits /\ astray' = astray
  BY DEF rcv_file
<1>2. UNCHANGED <<cl, cr, up, alive>>
  BY <1>1 DEF ClientWaits
<1>3. /\ alive /\ srv.pc = "go" /\ Upward # <<>> /\ SGot = Head(Upward) /\ Upward' = Tail(Upward)
      /\ sr' \in Seq(AnyToken) /\ up' \in Seq(AnyToken)
  BY <1>1, <1>2, ServerReads1
<1>4. AtGo
  BY <1>3 DEF InStep, Course
<1>5. /\ srv' \in [pc : ServerReads, call : Nat, takes : Seq(Field), gives : Seq(Filled)]
      /\ srv'.pc = "top"
  BY <1>1, ServerRecords
<1>6. CASE Here("JS_FILE_RECEIVE") /\ Awaits("body") /\ Upward = Ack(0)
  <2>1. cl.call \in Nat /\ 0 \in Int /\ srv.call = cl.call /\ Downward = <<>>
        /\ cl.cmd = "JS_FILE_RECEIVE" /\ cl.pc = "body"
    BY <1>6 DEF Typed, Here, Awaits
  <2>2. Head(Ack(0)) = IntToken(cl.call, "ack", 0) /\ Tail(Ack(0)) = <<>>
    BY <2>1, AckTyped DEF Ack
  <2>3. SGot.v = 0 /\ Upward' = <<>>
    BY <1>3, <1>6, <2>2 DEF IntToken
  <2>4. PICK n \in 1 .. MaxContents, r \in Statuses : down' = down \o FileStream(cl.call, n) \o Of(cl.call, r)
    BY <2>1, <2>3 DEF rcv_file, Statuses
  <2>5. n \in Nat /\ n \in 0 .. MaxContents
    BY BoundsAssumption
  <2>6. Of(cl.call, r) \in Seq(AnyToken) /\ FileStream(cl.call, n) \in Seq(AnyToken)
    BY <2>1, <2>5, StatusesTyped, OfKeeps, StreamMarks
  <2>7. Stream(n, r) \in Seq(AnyToken) /\ down' = down \o Stream(n, r)
    <3>1. Stream(n, r) \in Seq(AnyToken)
      BY <2>6, Joined DEF Stream
    <3>2. down \in Seq(AnyToken)
      BY DEF Typed
    <3>3. down \o FileStream(cl.call, n) \o Of(cl.call, r)
            = down \o (FileStream(cl.call, n) \o Of(cl.call, r))
      <4> DEFINE f == FileStream(cl.call, n)
                 s == Of(cl.call, r)
      <4>1. f \in Seq(AnyToken) /\ s \in Seq(AnyToken)
        BY <2>6
      <4> HIDE DEF f, s
      <4>2. (down \o f) \o s = down \o (f \o s)
        BY <3>2, <4>1, Joined
      <4> QED
        BY <4>2 DEF f, s
    <3> QED
      BY <2>4, <3>1, <3>3 DEF Stream
  <2>8. Downward' = Stream(n, r) /\ down' \in Seq(AnyToken)
    BY <1>2, <2>1, <2>7, WrittenDown
  <2>9. FileIsThere'
    BY <1>2, <2>1, <2>5, <2>8 DEF FileIsThere, Stream
  <2>10. up' = <<>>
    BY <1>3, <2>3, NothingUp
  <2>11. Typed'
    BY <1>1, <1>3, <1>5, <2>8, ServerMoves
  <2> QED
    BY <1>2, <1>3, <1>5, <2>9, <2>10, <2>11 DEF InStep, Course, AtTop, Satisfied
<1>7. CASE Refused
  <2>1. SGot.v = -1 /\ (down' = down => AtTop')
    BY <1>1, <1>7, RefusalIsRead
  <2>2. down' = down
    BY <2>1 DEF rcv_file
  <2>3. Typed'
    BY <1>1, <1>3, <1>5, <2>2, ServerMoves DEF Typed
  <2> QED
    BY <1>2, <1>3, <1>5, <2>1, <2>2, <2>3 DEF InStep, Course
<1> QED
  BY <1>3, <1>4, <1>6, <1>7 DEF AtGo

\* The server dies, anywhere.
LEMMA ServerDiesInStep ==
    ASSUME Typed, InStep, ~astray, server_dies
    PROVE  Typed' /\ InStep'
<1> USE DEF server_dies
<1>1. Upward' = <<>> /\ Downward' = Downward /\ cl' = cl /\ ~alive' /\ alive /\ down' = down
      /\ cr' = cr
  <2>1. <<>> \in Seq(AnyToken)
    OBVIOUS
  <2>2. <<>> \o <<>> = <<>>
    BY <2>1, Joined
  <2> QED
    BY <2>2 DEF Upward, Downward
<1>2. Typed'
  <2>1. <<>> \in Seq(AnyToken)
    OBVIOUS
  <2> QED
    BY <2>1 DEF Typed
<1>3. (Satisfied' <=> Satisfied) /\ (Started' <=> Started)
      /\ (MaySend' <=> MaySend) /\ (NameIsThere' <=> NameIsThere) /\ (ModeIsThere' <=> ModeIsThere)
      /\ \A pc : Awaits(pc)' <=> Awaits(pc)
  BY <1>1, SameForTheClient DEF Satisfied
<1>4. \/ Satisfied \/ Started \/ MaySend \/ NameIsThere \/ ModeIsThere
      \/ cl.cmd = "JS_FILE_SEND" /\ Awaits("answer")
      \/ cl.cmd = "JS_FILE_RECEIVE" /\ (Awaits("mode") \/ Awaits("body"))
  <2>1. Course
    BY <1>1 DEF InStep
  <2>2. srv.pc \in ServerReads
    BY DEF Typed
  <2>3. Refused => Satisfied \/ Started
    BY DEF Refused, Satisfied
  <2> QED
    BY <2>1, <2>2, <2>3
       DEF ServerReads, Course, AtTop, AtCommand, AtArgs, AtUniq, AtName, AtFile, AtFid, AtAck,
           AtToUniq, AtGo, Here
<1>5. Dead'
  BY <1>1, <1>3, <1>4 DEF Dead
<1> QED
  BY <1>1, <1>2, <1>5 DEF InStep

----------------------------------------------------------------------------
(***************************************************************************)
(* Every step.                                                             *)
(***************************************************************************)
LEMMA InitInStep == Init => Typed /\ InStep
<1> SUFFICES ASSUME Init
             PROVE  Typed /\ InStep
  OBVIOUS
<1>1. "idle" \in ClientReads /\ "top" \in ServerReads
  BY DEF ClientReads, ServerReads
<1>2. Typed
  <2>1. /\ <<>> \in Seq(Value) /\ <<>> \in Seq(Field) /\ <<>> \in Seq(Filled) /\ <<>> \in Seq(AnyToken)
        /\ 0 \in Nat
    OBVIOUS
  <2>2. /\ cl = [pc |-> "idle", cmd |-> "none", call |-> 0, got |-> <<>>, dead |-> FALSE]
        /\ srv = [pc |-> "top", call |-> 0, takes |-> <<>>, gives |-> <<>>]
    BY DEF Init
  <2>3. /\ cl \in [pc : ClientReads, cmd : CommandNames \cup {"none"}, call : Nat,
                    got : Seq(Value), dead : BOOLEAN]
        /\ cl.pc # "answer" => cl.got = <<>>
    BY <1>1, <2>1, <2>2
  <2>4. srv \in [pc : ServerReads, call : Nat, takes : Seq(Field), gives : Seq(Filled)]
    BY <1>1, <2>1, <2>2
  <2> QED
    BY <2>1, <2>3, <2>4 DEF Init, Typed
<1>3. AtTop
  BY DEF Init, AtTop, Satisfied
<1> QED
  BY <1>2, <1>3 DEF Init, InStep, Course

\* No step.
LEMMA StutterInStep ==
    ASSUME Typed, InStep, UNCHANGED vars
    PROVE  Typed' /\ InStep'
<1> USE DEF vars
<1>1. Typed'
  BY DEF Typed
<1>2. cl' = cl /\ Downward' = Downward /\ Upward' = Upward
  BY DEF Downward, Upward
<1>3. Satisfied' <=> Satisfied
  BY <1>2, SameForTheClient DEF Satisfied
<1>4. Refused' <=> Refused
  BY <1>2, SameForTheClient DEF Refused, Ack
<1>5. Course => Course'
  BY <1>2, <1>3, <1>4, SameForTheClient
     DEF Course, AtTop, AtCommand, AtArgs, AtUniq, AtName, AtFile, AtFid, AtAck, AtToUniq, AtGo, Here, Args, Ack
<1>6. Dead => Dead'
  BY <1>2, <1>3, SameForTheClient DEF Dead
<1> QED
  BY <1>1, <1>5, <1>6 DEF InStep

\* Every step keeps the invariant while no answer is astray.
LEMMA NextInStep ==
    ASSUME Typed, InStep, Next
    PROVE  Typed' /\ InStep'
<1>1. ~astray
  BY DEF Next, Call, ClientStep, ServerStep
<1>2. CASE Call
  BY <1>1, <1>2, CallInStep
<1>3. CASE ClientStep
  BY <1>1, <1>3, RecvInStep, DaemonDeadInStep, GetFieldInStep, JsReturnInStep, GetLoadedInStep,
     GetMaySendInStep, PutFileInStep, PutFileFailsInStep, GetNameInStep, GetModeInStep,
     GetBodyInStep DEF ClientStep
<1>4. CASE ServerStep
  BY <1>1, <1>4, GetClientInStep, Rcv1ClientInStep, DoCommandInStep, GetArgInStep, AnswerInStep,
     FileSendInStep, FileSendNameInStep, ReadFileInStep, FileReceiveInStep,
     FileReceiveAckInStep, FileReceiveModeInStep, RcvFileInStep DEF ServerStep
<1>5. CASE server_dies
  BY <1>1, <1>5, ServerDiesInStep
<1> QED
  BY <1>2, <1>3, <1>4, <1>5 DEF Next

\* In every state, what is on its way is what the places of the client and of
\* the server say that it is.
THEOREM StayInStep == Spec => [](Typed /\ InStep)
<1>1. Init => Typed /\ InStep
  BY InitInStep
<1>2. Typed /\ InStep /\ [Next]_vars => (Typed /\ InStep)'
  BY NextInStep, StutterInStep
<1> QED
  BY <1>1, <1>2, PTL DEF Spec

\* The first member is the head.
LEMMA FirstIsHead ==
    ASSUME NEW s \in Seq(AnyToken), s # <<>>
    PROVE  s[1] = Head(s)
  OBVIOUS

\* The acknowledgements of a transfer are integers of that call.
LEMMA AcksAre ==
    ASSUME NEW n \in Nat, NEW v \in {0, -1}
    PROVE  LET t == Head(Of(n, Server!put4("ack", v)))
           IN  t.call = n /\ Is(t, INT("ack"))
<1>1. v \in Int
  OBVIOUS
<1>2. Head(Of(n, Server!put4("ack", v))) = IntToken(n, "ack", v)
  BY <1>1, AckTyped
<1> QED
  BY <1>2 DEF IntToken, Is, INT

\* The invariant says that the server reads what was written for it.
LEMMA ServerReadsItsOwn ==
    ASSUME Typed, InStep
    PROVE  ServerInStep
<1> SUFFICES ASSUME ~astray, alive
             PROVE  /\ srv.pc = "top" /\ up # <<>> => up[1].k = "hdr"
                    /\ srv.pc # "top" /\ Upward # <<>> =>
                         CASE srv.pc = "command" -> Upward[1].k = "hdr"
                           [] srv.pc = "file" -> Upward[1].k \in {"file", "eof"} /\ Upward[1].call = srv.call
                           [] OTHER -> Is(Upward[1], Head(srv.takes)) /\ Upward[1].call = srv.call
  BY DEF ServerInStep, Upward
<1>1. Course /\ cl.call \in Nat /\ srv.call \in Nat
  BY DEF InStep, Typed
<1>2. Started => Head(Request).k = "hdr"
  <2> SUFFICES ASSUME Started
               PROVE  Head(Request).k = "hdr"
    OBVIOUS
  <2>1. cl.cmd \in CommandNames
    BY DEF Started
  <2>2. Head(Request) = Header(cl.call, cl.cmd)
    BY <1>1, <2>1, RequestTyped DEF Request
  <2> QED
    BY <2>2 DEF Header
<1>3. ASSUME srv.pc = "top", up # <<>>
      PROVE  up[1].k = "hdr"
  <2>1. Started /\ up = Request
    BY <1>1, <1>3 DEF Course, AtTop
  <2>2. up[1] = Head(up)
    BY <1>3, FirstIsHead DEF Typed
  <2> QED
    BY <1>2, <2>1, <2>2
<1>4. ASSUME srv.pc # "top", Upward # <<>>
      PROVE  CASE srv.pc = "command" -> Upward[1].k = "hdr"
               [] srv.pc = "file" -> Upward[1].k \in {"file", "eof"} /\ Upward[1].call = srv.call
               [] OTHER -> Is(Upward[1], Head(srv.takes)) /\ Upward[1].call = srv.call
  <2>1. Upward \in Seq(AnyToken) /\ Upward[1] = Head(Upward)
    BY <1>4, NothingOnTheWay, FirstIsHead
  <2>2. CASE srv.pc = "command"
    BY <1>1, <1>2, <2>1, <2>2 DEF Course, AtCommand
  <2>3. CASE srv.pc = "file"
    <3>1. AtFile
      BY <1>1, <2>3 DEF Course
    <3>2. PICK n \in 0 .. MaxContents : Upward = FileStream(cl.call, n)
      BY <3>1 DEF AtFile
    <3>3. n \in Nat
      BY <3>2, BoundsAssumption
    <3>4. Head(FileStream(cl.call, n)).k \in {"file", "eof"} /\ Head(FileStream(cl.call, n)).call = cl.call
      BY <1>1, <3>3, FirstOfFile
    <3> QED
      BY <2>1, <2>3, <3>1, <3>2, <3>4 DEF AtFile, Here
  <2>4. CASE srv.pc \in {"args", "uniq", "fid", "to_uniq"}
    <3>1. Args /\ srv.call = cl.call /\ srv.takes \in Seq(Field)
      BY <1>1, <2>4 DEF Course, AtArgs, AtUniq, AtFid, AtToUniq, Here, Typed
    <3>2. Head(Upward).call = cl.call /\ Is(Head(Upward), srv.takes[1])
      BY <1>1, <3>1, FirstAsked DEF Args
    <3>3. srv.takes[1] = Head(srv.takes)
      BY <3>1 DEF Args
    <3> QED
      BY <2>1, <2>4, <3>1, <3>2, <3>3
  <2>5. CASE srv.pc = "name"
    <3>1. AtName
      BY <1>1, <2>5 DEF Course
    <3>2. PICK n \in 1 .. MaxContents :
            Upward = Asks(cl.call, <<Str("name")>>) \o FileStream(cl.call, n)
      BY <1>4, <3>1 DEF AtName
    <3> DEFINE s == <<Str("name")>>
               a == Asks(cl.call, s)
               b == FileStream(cl.call, n)
    <3>3. s \in Seq(Field) /\ s # <<>> /\ s[1] = Head(s)
      BY DEF Str, Field, Kinds, Names
    <3>4. n \in Nat
      BY <3>2, BoundsAssumption
    <3>5. b \in Seq(AnyToken)
      BY <1>1, <3>4, StreamMarks
    <3> HIDE DEF s
    <3>6. a \in Seq(AnyToken) /\ a # <<>> /\ Head(a).call = cl.call /\ Is(Head(a), s[1])
      BY <1>1, <3>3, FirstAsked
    <3>7. Upward = a \o b /\ srv.takes = s /\ srv.call = cl.call
      BY <3>1, <3>2 DEF AtName, Here, s
    <3> HIDE DEF a, b
    <3>8. Head(Upward) = Head(a)
      BY <3>5, <3>6, <3>7, ReadsFirst
    <3> QED
      BY <2>1, <2>5, <3>3, <3>6, <3>7, <3>8
  <2>6. CASE srv.pc \in {"ack", "go"}
    <3> SUFFICES Head(Upward).call = srv.call /\ Is(Head(Upward), INT("ack"))
      <4>1. srv.takes = <<INT("ack")>>
        BY <1>1, <2>6 DEF Course, AtAck, AtGo
      <4>2. Head(srv.takes) = INT("ack")
        BY <4>1
      <4> QED
        BY <2>1, <2>6, <4>2
    <3>1. Head(Ack(0)).call = cl.call /\ Is(Head(Ack(0)), INT("ack"))
      BY <1>1, AcksAre DEF Ack
    <3>2. CASE Refused
      <4>1. CASE srv.call = cl.call /\ Upward = Ack(-1)
        BY <1>1, <4>1, AcksAre DEF Ack
      <4>2. CASE sr = Of(srv.call, Server!put4("ack", -1))
        <5>1. Head(sr).call = srv.call /\ Is(Head(sr), INT("ack"))
          BY <1>1, <4>2, AcksAre
        <5>2. sr \in Seq(AnyToken) /\ up \in Seq(AnyToken)
          BY DEF Typed
        <5>3. sr # <<>>
          <6> DEFINE v == -1
          <6>1. v \in Int
            OBVIOUS
          <6> HIDE DEF v
          <6>2. Of(srv.call, Server!put4("ack", v)) # <<>>
            BY <1>1, <6>1, AckTyped
          <6> QED
            BY <4>2, <6>2 DEF v
        <5>4. Head(Upward) = Head(sr)
          BY <5>2, <5>3, ReadsFirst DEF Upward
        <5> QED
          BY <5>1, <5>4
      <4> QED
        BY <3>2, <4>1, <4>2 DEF Refused
    <3>3. CASE /\ Here("JS_FILE_RECEIVE")
               /\ Upward = Ack(0) \o Asks(cl.call, FileUniq) \/ Upward = Ack(0)
      <4>1. Head(Upward) = Head(Ack(0))
        <5>1. FileUniq \in Seq(Field) /\ 0 \in Int
          BY DEF FileUniq, Ints, INT, Bytes, Field, Kinds, Names
        <5>2. Ack(0) \in Seq(AnyToken) /\ Ack(0) # <<>>
          BY <1>1, <5>1, AckTyped DEF Ack
        <5>3. Asks(cl.call, FileUniq) \in Seq(AnyToken)
          BY <1>1, <5>1, FirstAsked
        <5>4. Head(Ack(0) \o Asks(cl.call, FileUniq)) = Head(Ack(0))
          BY <5>2, <5>3, ReadsFirst
        <5> QED
          BY <3>3, <5>4
      <4> QED
        BY <3>1, <3>3, <4>1 DEF Here
    <3> QED
      BY <1>1, <1>4, <2>6, <3>2, <3>3 DEF Course, AtAck, AtGo
  <2> QED
    BY <1>4, <2>2, <2>3, <2>4, <2>5, <2>6 DEF Typed, ServerReads
<1> QED
  BY <1>3, <1>4

\* The invariant says that the client reads what was written for it.
LEMMA ClientReadsItsOwn ==
    ASSUME Typed, InStep
    PROVE  ClientInStep
<1> SUFFICES ASSUME ~astray, Waiting, Downward # <<>>
             PROVE  Downward[1].call = cl.call /\ Wants(Downward[1])
  BY DEF ClientInStep, Downward
<1>1. /\ cl.pc \notin {"idle", "put_file"} /\ ~HasReadAll /\ cl.call \in Nat
      /\ cl.pc \in ClientReads
  BY DEF Waiting, Typed
<1>2. Downward \in Seq(AnyToken) /\ Downward[1] = Head(Downward)
  BY NothingOnTheWay, FirstIsHead
<1>3. {"loaded", "status", "mode"} \subseteq Names /\ {1, -1, 0} \subseteq Int
  BY DEF Names
<1> SUFFICES Head(Downward).call = cl.call /\ Wants(Head(Downward))
  BY <1>2
<1>4. CASE AnswerIsThere
  <2>1. PICK g \in Answers(cl.cmd) : \E k \in 0 .. ReadOf(cl.cmd, g) :
          cl.got = Values(g, k) /\ Downward = Left(cl.call, g, k)
    BY <1>4 DEF AnswerIsThere
  <2>2. PICK k \in 0 .. ReadOf(cl.cmd, g) : cl.got = Values(g, k) /\ Downward = Left(cl.call, g, k)
    BY <2>1
  <2>3. g \in Seq(Filled) /\ Agrees(cl.cmd, g) /\ cl.pc = "answer"
    BY <1>4, AnswersAgree DEF AnswerIsThere
  <2>4. k \in 0 .. Len(g) /\ ReadOf(cl.cmd, g) \in 1 .. Len(g) /\ Len(g) \in Nat
    BY <2>3 DEF Agrees
  <2>5. Len(Values(g, k)) = k
    BY <2>3, <2>4, ValuesKeep
  <2>6. k # ReadOf(cl.cmd, g)
    BY <1>1, <2>2, <2>3, <2>5 DEF HasReadAll, Agrees
  <2>7. k \in 0 .. ReadOf(cl.cmd, g) - 1 /\ k < Len(g) /\ k + 1 \in 1 .. Len(g)
    BY <2>4, <2>6
  <2>8. Head(Downward) = Token(cl.call, g[k + 1])
    BY <1>1, <2>2, <2>3, <2>4, <2>7, LeftKeeps
  <2>9. Fits(cl.cmd, g[k + 1], Reads(cl.cmd, Values(g, k))[k + 1])
    BY <2>3, <2>7 DEF Agrees
  <2>10. g[k + 1] \in Filled
    BY <2>3, <2>7
  <2>11. /\ Head(Downward).call = cl.call /\ Head(Downward).k = g[k + 1].k
         /\ Head(Downward).f = g[k + 1].f
    BY <1>1, <2>8, <2>10, TokenTyped
  <2>12. Reads(cl.cmd, Values(g, k))[k + 1] = Reads(cl.cmd, cl.got)[Len(cl.got) + 1]
    BY <2>2, <2>5
  <2> DEFINE field == Reads(cl.cmd, cl.got)[Len(cl.got) + 1]
  <2>13. Is(Head(Downward), field) \/ (cl.cmd = "JS_DISCONNECT" /\ field = INT("errno"))
    BY <2>9, <2>11, <2>12 DEF Fits, Is
  <2> HIDE DEF field
  <2>14. Wants(Head(Downward))
    BY <2>3, <2>13 DEF Wants, field
  <2> QED
    BY <2>11, <2>14
<1>5. CASE cl.pc = "loaded" /\ \E v \in Int, r \in Statuses : Downward = Loaded(v, r)
  <2>1. PICK v \in Int, r \in Statuses : Downward = Loaded(v, r)
    BY <1>5
  <2>2. Head(Downward) = IntToken(cl.call, "loaded", v)
    BY <1>1, <2>1, LoadedIs
  <2> QED
    BY <1>5, <2>2 DEF Wants, IntToken, Is, INT
<1>6. ASSUME NEW v \in Int, Head(Downward) = IntToken(cl.call, "status", v), cl.pc = "may_send"
      PROVE  Head(Downward).call = cl.call /\ Wants(Head(Downward))
  BY <1>6 DEF Wants, IntToken, Is, INT
<1>6m. ASSUME NEW v \in Int, Head(Downward) = IntToken(cl.call, "mode", v), cl.pc = "mode"
       PROVE  Head(Downward).call = cl.call /\ Wants(Head(Downward))
  BY <1>6m DEF Wants, IntToken, Is, INT
<1>7. CASE /\ cl.pc = "may_send"
           /\ Downward \in {Turn(Server!error_ret("status")), Turn(Server!put4("status", 1))}
  <2>1. PICK v \in Int : Head(Downward) = IntToken(cl.call, "status", v)
    BY <1>1, <1>3, <1>7, TurnIs
  <2> QED
    BY <1>6, <1>7, <2>1
<1>8. CASE /\ cl.pc = "mode"
           /\ \/ Downward = Turn(Server!error_ret("mode"))
              \/ \E m \in 0 .. 3 : Downward = Turn(Server!put4("mode", m))
  <2>1. PICK v \in Int : Head(Downward) = IntToken(cl.call, "mode", v)
    BY <1>1, <1>3, <1>8, TurnIs
  <2> QED
    BY <1>8, <1>6m, <2>1
<1>9. CASE FileIsThere
  <2>1. PICK n \in 0 .. MaxContents, r \in Statuses : Downward = Stream(n, r)
    BY <1>9 DEF FileIsThere
  <2>2. n \in Nat
    BY BoundsAssumption
  <2>3. Of(cl.call, r) \in Seq(AnyToken)
    BY <1>1, StatusesTyped, OfKeeps
  <2>4. Head(Downward) = Head(FileStream(cl.call, n))
    <3> DEFINE s == FileStream(cl.call, n)
               t == Of(cl.call, r)
    <3>1. s \in Seq(AnyToken) /\ s # <<>>
      <4>1. s \in Seq(AnyToken) /\ Len(s) = n + 1
        BY <1>1, <2>2, StreamMarks
      <4> HIDE DEF s
      <4> QED
        BY <2>2, <4>1
    <3>2. Downward = s \o t
      BY <2>1 DEF Stream
    <3> HIDE DEF s, t
    <3>3. Head(Downward) = Head(s)
      BY <2>3, <3>1, <3>2, ReadsFirst DEF t
    <3> QED
      BY <3>3 DEF s
  <2>5. Head(Downward).k \in {"file", "eof"} /\ Head(Downward).call = cl.call
    BY <1>1, <2>2, <2>4, FirstOfFile
  <2>6. cl.pc = "body"
    BY <1>9 DEF FileIsThere
  <2> QED
    BY <2>5, <2>6 DEF Wants
<1>10. CASE NameIsThere
  <2> DEFINE s == <<Str("name")>>
  <2>1. s \in Seq(Field) /\ s # <<>> /\ s[1] = Str("name")
    BY DEF Str, Field, Kinds, Names
  <2>2. Downward = Asks(cl.call, s) /\ cl.pc = "name"
    BY <1>10 DEF NameIsThere, Name, Asks
  <2> HIDE DEF s
  <2>3. Head(Downward).call = cl.call /\ Is(Head(Downward), Str("name"))
    BY <1>1, <2>1, <2>2, FirstAsked
  <2> QED
    BY <2>2, <2>3 DEF Wants
<1>11. \/ Satisfied
       \/ MaySend \/ NameIsThere \/ ModeIsThere
  BY <1>1, HowItWaits
<1>12. CASE LoadedIsThere \/ MaySend
  <2>1. ~Awaits("put_file")
    BY DEF Awaits
  <2>2. {Server!error_ret("status"), Server!put4("status", 1)} \subseteq Statuses
    BY DEF Statuses
  <2> QED
    BY <1>3, <1>5, <1>7, <1>12, <2>1, <2>2 DEF LoadedIsThere, MaySend
<1>13. CASE RefusalIsThere
  BY <1>7, <1>13 DEF RefusalIsThere
<1>14. CASE NoModeIsThere \/ ModeIsThere
  <2>1. 0 \in 0 .. 3 /\ \A m \in 1 .. 3 : m \in 0 .. 3
    OBVIOUS
  <2> QED
    BY <1>8, <1>14, <2>1 DEF NoModeIsThere, ModeIsThere, Modes
<1> QED
  BY <1>1, <1>4, <1>9, <1>10, <1>11, <1>12, <1>13, <1>14 DEF Satisfied

\* The invariant says that nothing of an answer is left behind.
LEMMA WholeAnswerRead ==
    ASSUME Typed, InStep
    PROVE  AnswerReadWhole
<1> SUFFICES ASSUME ~astray, HasReadAll, ~(cl.cmd = "JS_DISCONNECT" /\ cl.got[1] = -1)
             PROVE  Downward = <<>>
  BY DEF AnswerReadWhole, Downward
<1>1. AnswerIsThere
  BY AnsweredRests
<1> QED
  BY <1>1, NothingLeft

\* However the requests are cut into packets, the server reads as a command only
\* what snd_head wrote, and every argument as what the client wrote it as: rcv_buf
\* is emptied (rbc = 0 in daemon_main) before the next command is read.
THEOREM ServerStaysInStep == Spec => []ServerInStep
<1>1. Typed /\ InStep => ServerInStep
  BY ServerReadsItsOwn
<1> QED
  BY <1>1, StayInStep, PTL

\* However the answers are cut into packets, a js_* function reads fields of its
\* own answer only, each as what the server gave it, in every course of every
\* command: snd_head forgets what is left of the previous answer (rbc = -1).
THEOREM ClientStaysInStep == Spec => []ClientInStep
<1>1. Typed /\ InStep => ClientInStep
  BY ClientReadsItsOwn
<1> QED
  BY <1>1, StayInStep, PTL

\* A js_* function that has read all that it reads leaves nothing in rcv_buf or
\* in the socket: the lists of js.c end where those of jserver/do_*.c end.
THEOREM AnswersReadWhole == Spec => []AnswerReadWhole
<1>1. Typed /\ InStep => AnswerReadWhole
  BY WholeAnswerRead
<1> QED
  BY <1>1, StayInStep, PTL

----------------------------------------------------------------------------
(***************************************************************************)
(* Room for an answer: the texts of n items are no longer than n times     *)
(* what the sum counts for one of them.                                    *)
(***************************************************************************)
\* Each i in into has a[i] + 1 of w places of one of n items, from at[i] on, and no
\* two have the same.
Placed(into, a, n, w, item, at) ==
    /\ item \in [into -> 1 .. n] /\ at \in [into -> Nat]
    /\ \A i \in into : a[i] \in Nat /\ at[i] + a[i] < w
    /\ \A i, j \in into : i # j /\ item[i] = item[j] =>
            at[i] + a[i] < at[j] \/ at[j] + a[j] < at[i]

\* The characters of the texts at into, and of their ends.
Stores(into, a) == UNION {{i} \X (0 .. a[i]) : i \in into}

\* What has places in n items of w places is no more than n * w.
LEMMA RoomFor ==
    ASSUME NEW into, NEW a, NEW n \in Nat, NEW w \in Nat, NEW item, NEW at,
           Placed(into, a, n, w, item, at)
    PROVE  /\ IsFiniteSet(Stores(into, a)) /\ Cardinality(Stores(into, a)) \in Nat
           /\ Cardinality(Stores(into, a)) <= n * w
<1> DEFINE S == Stores(into, a)
           T == (1 .. n) \X (0 .. w - 1)
           place == [p \in S |-> <<item[p[1]], at[p[1]] + p[2]>>]
<1> USE DEF Placed
<1>1. \A p \in S : \E i \in into : \E x \in 0 .. a[i] : p = <<i, x>>
  BY DEF Stores
<1> HIDE DEF S
<1>2. ASSUME NEW p \in S
      PROVE  place[p] \in T
  <2>1. PICK i \in into : \E x \in 0 .. a[i] : p = <<i, x>>
    BY <1>1
  <2>2. PICK x \in 0 .. a[i] : p = <<i, x>>
    BY <2>1
  <2>3. a[i] \in Nat /\ at[i] \in Nat /\ at[i] + a[i] < w /\ item[i] \in 1 .. n
    OBVIOUS
  <2>4. at[i] + x \in 0 .. w - 1
    BY <2>3
  <2> QED
    BY <2>2, <2>3, <2>4
<1>3. ASSUME NEW p \in S, NEW q \in S, place[p] = place[q]
      PROVE  p = q
  <2>1. PICK i \in into : \E x \in 0 .. a[i] : p = <<i, x>>
    BY <1>1
  <2>2. PICK j \in into : \E y \in 0 .. a[j] : q = <<j, y>>
    BY <1>1
  <2>3. PICK x \in 0 .. a[i] : p = <<i, x>>
    BY <2>1
  <2>4. PICK y \in 0 .. a[j] : q = <<j, y>>
    BY <2>2
  <2>5. item[i] = item[j] /\ at[i] + x = at[j] + y
    BY <1>3, <2>3, <2>4
  <2>6. a[i] \in Nat /\ at[i] \in Nat /\ a[j] \in Nat /\ at[j] \in Nat
    OBVIOUS
  <2>7. i = j
    BY <2>5, <2>6
  <2>8. x = y
    BY <2>5, <2>6, <2>7
  <2> QED
    BY <2>3, <2>4, <2>7, <2>8
<1>4. place \in Injection(S, T)
  BY <1>2, <1>3 DEF Injection, IsInjective
<1>5. IsFiniteSet(T) /\ Cardinality(T) = n * w
  <2>1. IsFiniteSet(1 .. n) /\ Cardinality(1 .. n) = n
    BY FS_Interval
  <2>2. IsFiniteSet(0 .. w - 1) /\ Cardinality(0 .. w - 1) = w
    BY FS_Interval
  <2> DEFINE A == 1 .. n
             B == 0 .. w - 1
  <2> HIDE DEF A, B
  <2>3. IsFiniteSet(A \X B) /\ Cardinality(A \X B) = Cardinality(A) * Cardinality(B)
    BY <2>1, <2>2, FS_Product DEF A, B
  <2>4. Cardinality(A) = n /\ Cardinality(B) = w
    BY <2>1, <2>2 DEF A, B
  <2>5. T = A \X B
    BY DEF A, B
  <2> HIDE DEF T
  <2> QED
    BY <2>3, <2>4, <2>5
<1> HIDE DEF T, place
<1>6. IsFiniteSet(S) /\ Cardinality(S) <= Cardinality(T)
  BY <1>4, <1>5, FS_Injection
<1>7. Cardinality(S) \in Nat
  BY <1>6, FS_CardinalityType
<1> QED
  BY <1>5, <1>6, <1>7 DEF S

\* The place of a member of n items of m members each.
LEMMA ItemAt ==
    ASSUME NEW m \in Nat \ {0}, NEW n \in Nat, NEW j \in 1 .. n * m
    PROVE  /\ 1 + ((j - 1) % m) \in 1 .. m /\ 1 + ((j - 1) \div m) \in 1 .. n
           /\ j = m * ((j - 1) \div m) + ((j - 1) % m) + 1
<1> DEFINE q == (j - 1) \div m
           r == (j - 1) % m
<1>1. n * m \in Nat /\ j \in Nat /\ j >= 1 /\ j <= n * m
  OBVIOUS
<1>2. q \in Int /\ r \in 0 .. m - 1
  BY <1>1
<1>3. j - 1 = m * q + r
  BY <1>1
<1> HIDE DEF q, r
<1>4. q >= 0
  <2>1. ASSUME q < 0 PROVE FALSE
    <3>1. m * q <= m * (-1)
      BY <1>2, <2>1
    <3> QED
      BY <1>1, <1>2, <1>3, <3>1
  <2> QED
    BY <1>2, <2>1
<1>5. q < n
  <2>1. ASSUME q >= n PROVE FALSE
    <3>1. m * q >= m * n
      BY <1>2, <2>1
    <3> QED
      BY <1>1, <1>2, <1>3, <3>1
  <2> QED
    BY <1>2, <2>1
<1> QED
  BY <1>2, <1>3, <1>4, <1>5 DEF q, r

(***************************************************************************)
(* The texts t of an item, and where those of one item begin in its part   *)
(* of the buffer, which has w places.                                      *)
(***************************************************************************)
Texts(t, w, off) ==
    /\ \E fields : Matches(t, fields)
    /\ Len(t) > 0 /\ w \in Nat /\ off \in [1 .. Len(t) -> Nat]
    /\ \A r \in 1 .. Len(t) : t[r].v \in Nat /\ off[r] + t[r].v < w
    /\ \A r \in 1 .. Len(t) : \A s \in 1 .. Len(t) : r < s => off[r] + t[r].v < off[s]

\* The texts of n items of an answer have room for n times the texts of an item.
LEMMA TextsFit ==
    ASSUME NEW h \in Seq(Filled), NEW t, NEW w, NEW off, Texts(t, w, off), NEW n \in Nat,
           NEW into \in SUBSET (Len(h) + 1 .. Len(h) + n * Len(t)),
           NEW g, g = h \o Server!Times(n, t)
    PROVE  LET S == Stores(into, Values(g, Len(g)))
           IN  IsFiniteSet(S) /\ Cardinality(S) \in Nat /\ Cardinality(S) <= n * w
<1> DEFINE m == Len(t)
           l == Len(h)
           b == Server!Times(n, t)
           a == Values(g, Len(g))
           col(i) == 1 + ((i - l - 1) % m)
           item == [i \in into |-> 1 + ((i - l - 1) \div m)]
           at == [i \in into |-> off[col(i)]]
<1>1. PICK fields : Matches(t, fields)
  BY DEF Texts
<1> USE DEF Texts
<1>2. /\ t \in Seq(Filled) /\ m \in Nat \ {0} /\ l \in Nat
      /\ b \in Seq(Filled) /\ Len(b) = n * m
      /\ \A i \in 1 .. n * m : b[i] = t[1 + ((i - 1) % m)]
  <2>1. /\ Matches(b, Client!Times(n, fields)) /\ Len(b) = n * Len(t)
        /\ \A i \in 1 .. n * Len(t) : b[i] = t[1 + ((i - 1) % Len(t))]
    BY <1>1, TimesMatch
  <2> HIDE DEF b
  <2> QED
    BY <1>1, <2>1 DEF Matches
<1>3. n * m \in Nat
  BY <1>2
<1> DEFINE N == n * m
<1>4. g = h \o b
  OBVIOUS
<1> HIDE DEF b, N
<1>5. /\ g \in Seq(Filled) /\ Len(g) = l + N
      /\ \A i \in l + 1 .. l + N : g[i] = b[i - l]
  <2>1. b \in Seq(Filled) /\ Len(b) = N /\ N \in Nat
    BY <1>2, <1>3 DEF N
  <2>2. /\ h \o b \in Seq(Filled) /\ Len(h \o b) = l + N
        /\ \A i \in 1 .. l + N : (h \o b)[i] = IF i <= l THEN h[i] ELSE b[i - l]
    BY <2>1, ConcatProperties
  <2>3. /\ g \in Seq(Filled) /\ Len(g) = l + N
        /\ \A i \in 1 .. l + N : g[i] = IF i <= l THEN h[i] ELSE b[i - l]
    BY <1>4, <2>2
  <2>4. \A i \in l + 1 .. l + N : i \in 1 .. l + N /\ ~(i <= l)
    BY <1>2, <2>1
  <2> HIDE DEF l
  <2> QED
    BY <2>3, <2>4
<1>6. ASSUME NEW i \in into
      PROVE  /\ a[i] = t[col(i)].v /\ col(i) \in 1 .. m /\ item[i] \in 1 .. n
             /\ i - l = m * (item[i] - 1) + col(i)
  <2>1. i \in l + 1 .. l + N /\ i - l \in 1 .. n * m
    BY <1>2, <1>3 DEF N
  <2>2. i \in 1 .. Len(g) /\ a[i] = g[i].v
    <3>1. i \in 1 .. Len(g) /\ Len(g) \in 0 .. Len(g)
      BY <1>2, <1>3, <1>5, <2>1 DEF N
    <3> QED
      BY <1>5, <3>1, ValuesKeep
  <2>3. g[i] = t[col(i)]
    BY <1>2, <1>5, <2>1
  <2>4. /\ col(i) \in 1 .. m /\ 1 + ((i - l - 1) \div m) \in 1 .. n
        /\ i - l = m * ((i - l - 1) \div m) + ((i - l - 1) % m) + 1
    BY <1>2, <2>1, ItemAt
  <2>5. (i - l - 1) \div m \in Int /\ (i - l - 1) % m \in Int
    BY <1>2, <2>1
  <2>6. item[i] - 1 = (i - l - 1) \div m
    BY <2>5
  <2> QED
    BY <2>2, <2>3, <2>4, <2>5, <2>6
<1>7. \A i \in into : a[i] \in Nat /\ at[i] \in Nat /\ at[i] + a[i] < w
  BY <1>6
<1>8. item \in [into -> 1 .. n] /\ at \in [into -> Nat]
  BY <1>6
<1>9. ASSUME NEW i \in into, NEW j \in into, i # j, item[i] = item[j]
      PROVE  at[i] + a[i] < at[j] \/ at[j] + a[j] < at[i]
  <2>1. col(i) # col(j)
    <3>1. i \in Int /\ j \in Int
      BY <1>2, <1>3
    <3>2. i - l = m * (item[i] - 1) + col(i) /\ j - l = m * (item[j] - 1) + col(j)
      BY <1>6
    <3>3. m * (item[i] - 1) = m * (item[j] - 1) /\ m * (item[i] - 1) \in Int
      <4>1. item[i] \in Int /\ item[i] = item[j] /\ m \in Int
        BY <1>2, <1>6, <1>9
      <4> HIDE DEF item, m
      <4> QED
        BY <4>1
    <3> DEFINE x == m * (item[i] - 1)
    <3>4. i - l = x + col(i) /\ j - l = x + col(j) /\ x \in Int
      BY <3>2, <3>3
    <3> HIDE DEF x, item
    <3>5. col(i) \in Int /\ col(j) \in Int
      BY <1>6
    <3> HIDE DEF col
    <3> QED
      BY <1>2, <1>9, <3>1, <3>4, <3>5
  <2>2. /\ col(i) \in 1 .. m /\ col(j) \in 1 .. m
        /\ a[i] = t[col(i)].v /\ a[j] = t[col(j)].v
        /\ at[i] = off[col(i)] /\ at[j] = off[col(j)]
    BY <1>6
  <2> HIDE DEF a, item, at, col, m
  <2>3. CASE col(i) < col(j)
    BY <2>2, <2>3 DEF m
  <2>4. CASE col(j) < col(i)
    BY <2>2, <2>4 DEF m
  <2> QED
    BY <2>1, <2>2, <2>3, <2>4
<1>10. Placed(into, a, n, w, item, at)
  BY <1>7, <1>8, <1>9 DEF Placed
<1>11. w \in Nat
  OBVIOUS
<1> DEFINE S == Stores(into, a)
<1> HIDE DEF a, item, at, col, m, Texts
<1>12. IsFiniteSet(S) /\ Cardinality(S) \in Nat /\ Cardinality(S) <= n * w
  BY <1>10, <1>11, RoomFor
<1> QED
  BY <1>12 DEF a

\* The characters of the reading, copied to every word.
Copies(c, a) ==
    IF c \in Client!WordCalls
    THEN Client!Val(Client!WordData(c, a), 1) * (Client!YomiLen(c, a) + 1) ELSE 0
TextPlaces(c, a) ==
    {i \in DOMAIN a : Client!Js(c, a).reads[i] \in
        {Client!Text(f) : f \in {"kanji", "comment", "yomi", "fuzoku", "hinsi_name"}}}
Into(c, a) == IF c = "JS_WORD_INFO" THEN TextPlaces(c, a) \ {2} ELSE TextPlaces(c, a)

\* What is stored is the copies of the reading, and the texts of the answer.
LEMMA StoredIs ==
    ASSUME NEW c, NEW a
    PROVE  Client!Stored(c, a) = Copies(c, a) + Cardinality(Stores(Into(c, a), a))
<1>1. \A S : Client!Cardinality(S) = Cardinality(S)
  BY Zenon DEF Cardinality, Client!Cardinality
<1> QED
  BY <1>1, Zenon DEF Client!Stored, Copies, TextPlaces, Into, Stores

\* Only texts of the answer are stored as texts.
LEMMA TextsOfAnswer ==
    ASSUME NEW c \in CommandNames \ Transfers, c # "JS_DISCONNECT", NEW g \in Seq(Filled), Agrees(c, g)
    PROVE  LET a == Values(g, Len(g))
           IN  /\ a \in Seq(Int) /\ Len(a) = Len(g)
               /\ \A i \in Into(c, a) : i \in 1 .. Len(g) /\ g[i].k = "text"
               /\ c = "JS_WORD_INFO" => 2 \notin Into(c, a)
<1> DEFINE a == Values(g, Len(g))
<1>1. a \in Seq(Int) /\ Len(a) = Len(g) /\ DOMAIN a = 1 .. Len(g)
  BY ValuesKeep
<1>2. ReadOf(c, g) = Len(g) /\ Reads(c, a) = Client!Js(c, a).reads
  BY DEF ReadOf, Reads
<1>3. \A i \in 1 .. Len(g) : Is(g[i], Client!Js(c, a).reads[i])
  BY <1>2 DEF Agrees, Fits
<1> HIDE DEF a
<1>4. ASSUME NEW i \in TextPlaces(c, a)
      PROVE  i \in 1 .. Len(g) /\ g[i].k = "text"
  <2>1. i \in 1 .. Len(g) /\ Client!Js(c, a).reads[i].k = "text"
    BY <1>1 DEF TextPlaces, Client!Text
  <2> QED
    BY <1>3, <2>1 DEF Is
<1>5. Into(c, a) \subseteq TextPlaces(c, a) /\ (c = "JS_WORD_INFO" => 2 \notin Into(c, a))
  BY DEF Into
<1> QED
  BY <1>1, <1>4, <1>5 DEF a

\* An answer of n items that ends with their texts: there is room for the texts in
\* n * w characters.
LEMMA StoredFit ==
    ASSUME NEW c \in CommandNames \ Transfers, c # "JS_DISCONNECT",
           NEW h \in Seq(Filled), NEW t, NEW w, NEW off, Texts(t, w, off), NEW n \in Nat,
           NEW g, g = h \o Server!Times(n, t), g \in Seq(Filled), Agrees(c, g),
           \A i \in 1 .. Len(h) : h[i].k = "text" => c = "JS_WORD_INFO" /\ i = 2,
           Copies(c, Values(g, Len(g))) \in Int
    PROVE  /\ Client!Stored(c, Values(g, Len(g))) \in Int
           /\ Client!Stored(c, Values(g, Len(g))) <= Copies(c, Values(g, Len(g))) + n * w
<1> DEFINE a == Values(g, Len(g))
           into == Into(c, a)
           S == Stores(into, a)
           l == Len(h)
           b == Server!Times(n, t)
<1>1. /\ \A i \in Into(c, a) : i \in 1 .. Len(g) /\ g[i].k = "text"
      /\ c = "JS_WORD_INFO" => 2 \notin Into(c, a)
  BY TextsOfAnswer
<1>2. PICK fields : Matches(t, fields)
  BY DEF Texts
<1> HIDE DEF a
<1>3. b \in Seq(Filled) /\ Len(b) = n * Len(t) /\ Len(t) \in Nat
  <2>1. Matches(b, Client!Times(n, fields)) /\ Len(b) = n * Len(t)
    BY <1>2, TimesMatch DEF Texts
  <2> HIDE DEF b
  <2> QED
    BY <1>2, <2>1 DEF Matches
<1> HIDE DEF b
<1>4. g = h \o b /\ l \in Nat
  BY DEF b
<1>5. Len(g) = l + n * Len(t) /\ \A i \in 1 .. l : g[i] = h[i]
  <2>1. /\ Len(h \o b) = Len(h) + Len(b)
        /\ \A i \in 1 .. Len(h) + Len(b) : (h \o b)[i] = IF i <= Len(h) THEN h[i] ELSE b[i - Len(h)]
    BY <1>3, ConcatProperties
  <2>2. \A i \in 1 .. l : i \in 1 .. Len(h) + Len(b) /\ i <= Len(h)
    BY <1>3
  <2> QED
    BY <1>3, <1>4, <2>1, <2>2
<1>6. into \in SUBSET (l + 1 .. l + n * Len(t))
  <2> SUFFICES ASSUME NEW i \in into
               PROVE  i \in l + 1 .. l + n * Len(t)
    OBVIOUS
  <2>1. i \in 1 .. Len(g) /\ g[i].k = "text" /\ (c = "JS_WORD_INFO" => i # 2)
    BY <1>1
  <2>2. ~(i \in 1 .. l)
    BY <1>5, <2>1
  <2>3. i \in 1 .. l + n * Len(t) /\ n * Len(t) \in Int
    BY <1>3, <1>5, <2>1
  <2> QED
    BY <1>4, <2>2, <2>3
<1> HIDE DEF into
<1>7. Client!Stored(c, a) = Copies(c, a) + Cardinality(S)
  BY StoredIs DEF into
<1>8. IsFiniteSet(S) /\ Cardinality(S) \in Nat /\ Cardinality(S) <= n * w
  BY <1>4, <1>6, TextsFit DEF a, b
<1>9. Copies(c, a) \in Int /\ n * w \in Int
  BY DEF Texts, a
<1>10. Client!Stored(c, a) \in Int /\ Client!Stored(c, a) <= Copies(c, a) + n * w
  BY <1>8, <1>7, <1>9
<1> QED
  BY <1>10 DEF a

\* The room that the sums announce, for each kind of answer.
LEMMA Announced ==
    ASSUME NEW c, NEW a
    PROVE  /\ c \in Client!DaiCalls => Client!re_alloc(c, a) = Client!Val(a, 3) /\ Copies(c, a) = 0
           /\ c \in Client!ShoCalls => Client!re_alloc(c, a) = Client!Val(a, 2) /\ Copies(c, a) = 0
           /\ c = "JS_HINSI_NAME" => Client!re_alloc(c, a) = Client!Val(a, 1) + 1 /\ Copies(c, a) = 0
           /\ c = "JS_HINSI_LIST" => Client!re_alloc(c, a) = Client!Val(a, 2) + 1 /\ Copies(c, a) = 0
           /\ c \in {"JS_WORD_SEARCH", "JS_WORD_SEARCH_BY_ENV"} =>
                /\ Client!re_alloc(c, a)
                     = Client!Val(a, 2) + Client!Val(a, 1) * 3 + Client!Val(a, 1) * 1
                /\ Copies(c, a) = Client!Val(a, 1) * (1 + 1)
           /\ c = "JS_WORD_INFO" =>
                LET w == SubSeq(a, 3, Len(a))
                IN  /\ Client!re_alloc(c, a)
                         = Client!Val(w, 2) + Client!Val(w, 1) * 3 + Client!Val(w, 1) * Client!Val(a, 2)
                    /\ Copies(c, a) = Client!Val(w, 1) * (Client!Val(a, 2) + 1)
<1> USE DEF Client!re_alloc, Copies, Client!DaiCalls, Client!ShoCalls, Client!WordCalls
<1>1. CASE c \in Client!DaiCalls
  BY <1>1
<1>2. CASE c \in Client!ShoCalls
  BY <1>2
<1>3. CASE c = "JS_HINSI_NAME"
  BY <1>3
<1>4. CASE c = "JS_HINSI_LIST"
  BY <1>4
<1>5. CASE c \in {"JS_WORD_SEARCH", "JS_WORD_SEARCH_BY_ENV"}
  BY <1>5 DEF Client!WordData, Client!YomiLen
<1>6. CASE c = "JS_WORD_INFO"
  BY <1>6 DEF Client!WordData, Client!YomiLen
<1> QED
  BY <1>1, <1>2, <1>3, <1>4, <1>5, <1>6

(***************************************************************************)
(* The part of an answer that has no texts.                                *)
(***************************************************************************)
Numbers(h) == h \in Seq(Filled) /\ \A i \in 1 .. Len(h) : h[i].k # "text"

\* An answer goes on as it began.
LEMMA Begins ==
    ASSUME NEW x \in Seq(Filled), NEW y \in Seq(Filled)
    PROVE  /\ x \o y \in Seq(Filled) /\ Len(x \o y) = Len(x) + Len(y)
           /\ Len(x) \in Nat /\ Len(y) \in Nat
           /\ \A i \in 1 .. Len(x) : (x \o y)[i] = x[i]
           /\ \A i \in 1 .. Len(y) : (x \o y)[Len(x) + i] = y[i]
           /\ Numbers(x) /\ Numbers(y) => Numbers(x \o y)
<1>1. /\ x \o y \in Seq(Filled) /\ Len(x \o y) = Len(x) + Len(y)
      /\ \A i \in 1 .. Len(x) + Len(y) : (x \o y)[i] = IF i <= Len(x) THEN x[i] ELSE y[i - Len(x)]
  BY ConcatProperties
<1>2. Len(x) \in Nat /\ Len(y) \in Nat
  OBVIOUS
<1> DEFINE z == x \o y
           m == Len(x)
           n == Len(y)
<1> HIDE DEF z, m, n
<1>3. /\ m \in Nat /\ n \in Nat /\ Len(z) = m + n
      /\ \A i \in 1 .. m + n : z[i] = IF i <= m THEN x[i] ELSE y[i - m]
  BY <1>1, <1>2 DEF z, m, n
<1>4. \A i \in 1 .. m : z[i] = x[i]
  BY <1>3
<1>5. \A i \in 1 .. n : z[m + i] = y[i]
  BY <1>3
<1>6. ASSUME \A i \in 1 .. m : x[i].k # "text", \A i \in 1 .. n : y[i].k # "text",
             NEW i \in 1 .. m + n
      PROVE  z[i].k # "text"
  <2>1. CASE i <= m
    <3>1. i \in 1 .. m /\ z[i] = x[i]
      BY <1>3, <2>1
    <3> QED
      BY <1>6, <3>1
  <2>2. CASE ~(i <= m)
    <3>1. i - m \in 1 .. n /\ z[i] = y[i - m]
      BY <1>3, <2>2
    <3> QED
      BY <1>6, <3>1
  <2> QED
    BY <2>1, <2>2
<1> QED
  BY <1>1, <1>2, <1>3, <1>4, <1>5, <1>6 DEF Numbers, z, m, n

\* An integer is no text.
LEMMA PutNumber ==
    ASSUME NEW f \in Names, NEW v \in Int
    PROVE  /\ Numbers(Server!put4(f, v)) /\ Server!put4(f, v) \in Seq(Filled)
           /\ Len(Server!put4(f, v)) = 1 /\ Server!put4(f, v)[1].v = v
<1> DEFINE g == Server!put4(f, v)
           d == <<INT(f)>>
<1>1. Matches(g, d) /\ Len(g) = 1 /\ g[1].v = v /\ d[1] = INT(f)
  BY PutMatches
<1> HIDE DEF g, d
<1>2. g[1].k = "int" /\ g \in Seq(Filled)
  BY <1>1 DEF Matches, Is, INT
<1>3. Numbers(g)
  BY <1>1, <1>2 DEF Numbers
<1> QED
  BY <1>1, <1>2, <1>3 DEF g

\* The numbers of n items are no texts.
LEMMA NumbersMatched ==
    ASSUME NEW n \in Nat, NEW s \in Seq(Field), Len(s) > 0, \A i \in 1 .. Len(s) : s[i].k = "int",
           NEW g, Matches(g, Client!Times(n, s))
    PROVE  Numbers(g) /\ g \in Seq(Filled)
<1> DEFINE u == Client!Times(n, s)
           L == Len(s)
           m == n * L
           at(i) == 1 + ((i - 1) % L)
<1>1. Len(u) = m /\ L \in Nat \ {0} /\ m \in Nat
  <2>1. u \in Seq(Field) /\ Len(u) = n * Len(s)
    BY TimesTyped
  <2>2. L \in Nat \ {0}
    OBVIOUS
  <2> HIDE DEF u, L
  <2>3. n * L \in Nat
    BY <2>2
  <2> QED
    BY <2>1, <2>2, <2>3 DEF L
<1>2. u = [i \in 1 .. m |-> s[at(i)]]
  BY DEF Client!Times
<1>3. \A i \in 1 .. m : at(i) \in 1 .. L
  BY <1>1
<1>4. Matches(g, u)
  OBVIOUS
<1> HIDE DEF u, m, at
<1>5. \A i \in 1 .. m : u[i].k = "int"
  BY <1>2, <1>3
<1>6. g \in Seq(Filled) /\ Len(g) = m /\ \A i \in 1 .. m : Is(g[i], u[i])
  BY <1>1, <1>4 DEF Matches
<1> QED
  BY <1>5, <1>6 DEF Numbers, Is

(***************************************************************************)
(* What js.c stores of each kind of answer fits into what it allocates.    *)
(***************************************************************************)
Room(c, a) == Client!Stored(c, a) <= Client!re_alloc(c, a)

\* A value of the answer as the client finds it.
LEMMA ValueAt ==
    ASSUME NEW g \in Seq(Filled), NEW i \in 1 .. Len(g)
    PROVE  Client!Val(Values(g, Len(g)), i) = g[i].v
<1> DEFINE a == Values(g, Len(g))
<1>1. Len(g) \in 0 .. Len(g)
  OBVIOUS
<1>2. Len(a) = Len(g) /\ a[i] = g[i].v
  BY <1>1, ValuesKeep
<1> HIDE DEF a
<1>3. Client!Val(a, i) = g[i].v
  BY <1>2 DEF Client!Val
<1> QED
  BY <1>3 DEF a

\* Two integers.
LEMMA TwoNumbers ==
    ASSUME NEW f1 \in Names, NEW f2 \in Names, NEW u \in Int, NEW v \in Int
    PROVE  LET z == Server!put4(f1, u) \o Server!put4(f2, v)
           IN  z \in Seq(Filled) /\ Numbers(z) /\ Len(z) = 2 /\ z[1].v = u /\ z[2].v = v
<1> DEFINE p == Server!put4(f1, u)
           q == Server!put4(f2, v)
<1>1. /\ Numbers(p) /\ p \in Seq(Filled) /\ Len(p) = 1 /\ p[1].v = u
      /\ Numbers(q) /\ q \in Seq(Filled) /\ Len(q) = 1 /\ q[1].v = v
  BY PutNumber
<1> HIDE DEF p, q
<1>2. /\ p \o q \in Seq(Filled) /\ Len(p \o q) = Len(p) + Len(q) /\ Numbers(p \o q)
      /\ \A i \in 1 .. Len(p) : (p \o q)[i] = p[i]
      /\ \A i \in 1 .. Len(q) : (p \o q)[Len(p) + i] = q[i]
  BY <1>1, Begins
<1>3. 1 \in 1 .. Len(p) /\ 1 \in 1 .. Len(q)
  BY <1>1
<1>4. (p \o q)[1] = p[1] /\ (p \o q)[Len(p) + 1] = q[1] /\ Len(p) + 1 = 2
  BY <1>1, <1>2, <1>3
<1> QED
  BY <1>1, <1>2, <1>4 DEF p, q

\* What an answer begins with, its value at i.
LEMMA NumbersAhead ==
    ASSUME NEW x \in Seq(Filled), Numbers(x), NEW y \in Seq(Filled), Numbers(y)
    PROVE  LET z == x \o y
           IN  /\ z \in Seq(Filled) /\ Numbers(z) /\ Len(z) >= Len(x)
               /\ \A i \in 1 .. Len(x) : z[i] = x[i]
<1>1. /\ x \o y \in Seq(Filled) /\ Len(x \o y) = Len(x) + Len(y) /\ Numbers(x \o y)
      /\ \A i \in 1 .. Len(x) : (x \o y)[i] = x[i]
      /\ Len(x) \in Nat /\ Len(y) \in Nat
  BY Begins
<1> QED
  BY <1>1

\* There is room for the texts of n items when the sum announces n times the
\* characters of an item, and the copies of the reading.
LEMMA SumIsRoom ==
    ASSUME NEW c \in CommandNames \ Transfers, c # "JS_DISCONNECT",
           NEW h \in Seq(Filled), NEW t, NEW w, NEW off, Texts(t, w, off), NEW n \in Nat,
           NEW g, g = h \o Server!Times(n, t), g \in Seq(Filled), Agrees(c, g),
           \A i \in 1 .. Len(h) : h[i].k = "text" => c = "JS_WORD_INFO" /\ i = 2,
           LET a == Values(g, Len(g))
           IN  /\ Copies(c, a) \in Int /\ Client!re_alloc(c, a) \in Int
               /\ Copies(c, a) + n * w <= Client!re_alloc(c, a)
    PROVE  Room(c, Values(g, Len(g)))
<1> DEFINE a == Values(g, Len(g))
<1>1. Copies(c, Values(g, Len(g))) \in Int
  OBVIOUS
<1>2. /\ Client!Stored(c, Values(g, Len(g))) \in Int
      /\ Client!Stored(c, Values(g, Len(g))) <= Copies(c, Values(g, Len(g))) + n * w
  BY <1>1, StoredFit
<1>3. /\ Client!Stored(c, a) <= Copies(c, a) + n * w /\ Copies(c, a) + n * w \in Int
      /\ Copies(c, a) + n * w <= Client!re_alloc(c, a) /\ Client!re_alloc(c, a) \in Int
  <2>1. w \in Nat
    BY DEF Texts
  <2>2. n * w \in Int
    BY <2>1
  <2> QED
    BY <1>1, <1>2, <2>2
<1>4. Client!Stored(c, a) \in Int
  BY <1>2
<1> HIDE DEF a
<1>5. Room(c, a)
  BY <1>3, <1>4 DEF Room
<1> QED
  BY <1>5 DEF a

\* A refusal has no texts.
LEMMA RefusalFits ==
    ASSUME NEW c \in Client!DaiCalls \cup Client!ShoCalls \cup {"JS_WORD_INFO", "JS_HINSI_NAME", "JS_HINSI_LIST"},
           NEW f \in Names, LET g == Server!error_ret(f) IN Agrees(c, g)
    PROVE  LET g == Server!error_ret(f) IN Room(c, Values(g, Len(g)))
<1> DEFINE g == Server!error_ret(f)
           a == Values(g, Len(g))
<1>1. /\ g \in Seq(Filled) /\ Len(g) = 2 /\ Numbers(g) /\ g[1].v = -1 /\ g[2].v = 1
  <2>1. "errno" \in Names /\ -1 \in Int /\ 1 \in Int
    BY DEF Names
  <2> QED
    BY <2>1, TwoNumbers DEF Server!error_ret
<1> HIDE DEF g
<1>2. a \in Seq(Int) /\ Len(a) = 2 /\ a[1] = -1 /\ a[2] = 1
  <2>1. 2 \in 0 .. Len(g) /\ 1 \in 1 .. 2 /\ 2 \in 1 .. 2
    BY <1>1
  <2>2. a \in Seq(Int) /\ Len(a) = 2 /\ \A i \in 1 .. 2 : a[i] = g[i].v
    BY <1>1, <2>1, ValuesKeep
  <2> QED
    BY <1>1, <2>1, <2>2
<1>3. c \in CommandNames \ Transfers /\ c # "JS_DISCONNECT"
  BY DEF CommandNames, Transfers, Server!Table, Client!DaiCalls, Client!ShoCalls
<1>4. \A i \in Into(c, a) : i \in 1 .. Len(g) /\ g[i].k = "text"
  <2>1. Agrees(c, g)
    BY DEF g
  <2> QED
    BY <1>1, <1>3, <2>1, TextsOfAnswer
<1> HIDE DEF a
<1>5. Into(c, a) = {}
  BY <1>1, <1>4 DEF Numbers
<1>6. Cardinality(Stores(Into(c, a), a)) = 0
  <2>1. Stores(Into(c, a), a) = {}
    BY <1>5 DEF Stores
  <2> QED
    BY <2>1, FS_EmptySet
<1>7. Client!Stored(c, a) = Copies(c, a) + 0
  BY <1>6, StoredIs
<1>8. Client!Val(a, 1) = -1 /\ Client!Val(a, 2) = 1 /\ Client!Val(a, 3) = 0
  BY <1>2 DEF Client!Val
<1>9. SubSeq(a, 3, Len(a)) = <<>>
  BY <1>2
<1>10. Client!Val(<<>>, 1) = 0 /\ Client!Val(<<>>, 2) = 0
  BY DEF Client!Val
<1>11. c = "JS_WORD_INFO" => Client!re_alloc(c, a) = 0 /\ Copies(c, a) = 0
  <2> DEFINE w == SubSeq(a, 3, Len(a))
  <2>1. Client!Val(w, 1) = 0 /\ Client!Val(w, 2) = 0
    BY <1>9, <1>10
  <2>2. c = "JS_WORD_INFO" =>
           /\ Client!re_alloc(c, a) = Client!Val(w, 2) + Client!Val(w, 1) * 3 + Client!Val(w, 1) * Client!Val(a, 2)
           /\ Copies(c, a) = Client!Val(w, 1) * (Client!Val(a, 2) + 1)
    BY Announced
  <2> HIDE DEF w
  <2> QED
    BY <1>8, <2>1, <2>2
<1>12. c # "JS_WORD_INFO" => Copies(c, a) = 0 /\ Client!re_alloc(c, a) \in {0, 1, 2}
  BY <1>8, Announced
<1>13. Room(c, a)
  BY <1>7, <1>11, <1>12 DEF Room
<1> QED
  BY <1>13 DEF a, g

\* Short phrases.
LEMMA ShoTexts ==
    ASSUME NEW f \in 0 .. 1
    PROVE  \E off : Texts(Server!ret_kanji(1, f), Server!count_kanji(1, f), off)
<1> DEFINE t == Server!ret_kanji(1, f)
           off == [r \in 1 .. 3 |-> IF r = 1 THEN 0 ELSE IF r = 2 THEN 2 ELSE 5 - f]
<1>1. Matches(t, Client!rcv_sho_kanji) /\ Len(t) = 3
  BY TextsOfSho
<1>2. t[1].v = 1 /\ t[2].v = 2 - f /\ t[3].v = f
  BY DEF Server!ret_kanji, Server!Put
<1>3. Server!count_kanji(1, f) = 6
  BY DEF Server!count_kanji
<1> HIDE DEF t
<1>4. off \in [1 .. 3 -> Nat]
  OBVIOUS
<1>5. \A r \in 1 .. 3 : t[r].v \in Nat /\ off[r] + t[r].v < 6
  BY <1>2
<1>6. \A r \in 1 .. 3 : \A s \in 1 .. 3 : r < s => off[r] + t[r].v < off[s]
  BY <1>2
<1> HIDE DEF off
<1>7. Texts(t, 6, off)
  BY <1>1, <1>4, <1>5, <1>6 DEF Texts
<1> QED
  BY <1>3, <1>7 DEF t

\* The records of n short phrases have no texts.
LEMMA PhraseNumbers ==
    ASSUME NEW n \in Nat
    PROVE  LET b == Server!Puts(Server!Times(n, Server!ret_sho_x))
           IN  Numbers(b) /\ b \in Seq(Filled)
<1> DEFINE s == Client!rcv_sho_x
           b == Server!Puts(Server!Times(n, Server!ret_sho_x))
<1>1. s \in Seq(Field) /\ Len(s) = 12
  BY NumbersOfSho
<1>2. \A i \in 1 .. 12 : s[i].k = "int"
  BY DEF Client!rcv_sho_x, Client!Ints, Client!INT
<1>3. Matches(b, Client!Times(n, s))
  BY ShoMatches, 0 \in 0 .. 1
<1> HIDE DEF s, b
<1>4. Len(s) > 0 /\ \A i \in 1 .. Len(s) : s[i].k = "int"
  BY <1>1, <1>2
<1>5. Numbers(b) /\ b \in Seq(Filled)
  BY <1>1, <1>3, <1>4, NumbersMatched
<1> QED
  BY <1>5 DEF b

\* js_kantan_sho and js_kanzen_sho keep the texts of n short phrases.
LEMMA ShoFits ==
    ASSUME NEW c \in Client!ShoCalls, NEW n \in Nat, NEW f \in 0 .. 1,
           LET g == Server!ret_sho(n, 1, f) IN g \in Seq(Filled) /\ Agrees(c, g)
    PROVE  LET g == Server!ret_sho(n, 1, f) IN Room(c, Values(g, Len(g)))
<1> DEFINE g == Server!ret_sho(n, 1, f)
           w == Server!count_kanji(1, f)
           t == Server!ret_kanji(1, f)
           z == Server!put4("count", n) \o Server!put4("kanji_sum", n * w)
           s == Server!ret_sho_x
           b == Server!Puts(Server!Times(n, s))
           h == z \o b
           e == Server!Times(n, t)
           a == Values(g, Len(g))
<1>1. g = h \o e
  BY DEF Server!ret_sho
<1>2. g \in Seq(Filled) /\ Agrees(c, g)
  OBVIOUS
<1>3. "count" \in Names /\ "kanji_sum" \in Names /\ n * w \in Int
  <2>1. w \in Nat
    BY TextsOfSho
  <2> HIDE DEF w
  <2> QED
    BY <2>1 DEF Names
<1>4. z \in Seq(Filled) /\ Numbers(z) /\ Len(z) = 2 /\ z[1].v = n /\ z[2].v = n * w
  <2> HIDE DEF w
  <2> QED
    BY <1>3, TwoNumbers
<1>5. Numbers(b) /\ b \in Seq(Filled)
  BY PhraseNumbers
<1>6. PICK off : Texts(t, w, off)
  BY ShoTexts
<1>7. e \in Seq(Filled)
  <2> HIDE DEF t, w
  <2>1. PICK fields : Matches(t, fields)
    BY <1>6 DEF Texts
  <2>2. Matches(e, Client!Times(n, fields))
    BY <1>6, <2>1, TimesMatch DEF Texts
  <2> HIDE DEF e
  <2> QED
    BY <2>2 DEF Matches
<1> HIDE DEF g, w, t, z, b, e
<1>8. /\ h \in Seq(Filled) /\ Numbers(h) /\ Len(h) >= Len(z)
      /\ \A i \in 1 .. Len(z) : h[i] = z[i]
  BY <1>4, <1>5, NumbersAhead
<1> HIDE DEF h
<1>9. Len(g) >= 2 /\ g[1].v = n /\ g[2].v = n * w
  <2>1. Len(g) = Len(h) + Len(e) /\ Len(e) \in Nat /\ \A i \in 1 .. Len(h) : g[i] = h[i]
    BY <1>1, <1>7, <1>8, Begins
  <2>2. /\ 1 \in 1 .. Len(z) /\ 2 \in 1 .. Len(z) /\ 1 \in 1 .. Len(h) /\ 2 \in 1 .. Len(h)
        /\ Len(h) \in Nat
    BY <1>4, <1>8
  <2> QED
    BY <1>4, <1>8, <2>1, <2>2
<1>10. Client!Val(a, 2) = n * w
  BY <1>2, <1>9, ValueAt
<1> HIDE DEF a
<1>11. c \in CommandNames \ Transfers /\ c # "JS_DISCONNECT"
  BY DEF CommandNames, Transfers, Server!Table, Client!ShoCalls
<1>12. /\ Copies(c, a) \in Int /\ Client!re_alloc(c, a) \in Int
       /\ Copies(c, a) + n * w <= Client!re_alloc(c, a)
  BY <1>3, <1>10, Announced
<1>13. \A i \in 1 .. Len(h) : h[i].k # "text"
  BY <1>8 DEF Numbers
<1>14. Room(c, Values(g, Len(g)))
  BY <1>1, <1>2, <1>6, <1>8, <1>11, <1>12, <1>13, SumIsRoom DEF a, e
<1> QED
  BY <1>14 DEF g

\* The records of the long phrases have no texts.
LEMMA DaiNumbers ==
    ASSUME NEW dai \in Seq(Nat)
    PROVE  Numbers(DaiPuts(dai)) /\ DaiPuts(dai) \in Seq(Filled)
<1> DEFINE s == Client!DaiRecord
           b == DaiPuts(dai)
           L == Len(dai)
<1>1. s \in Seq(Field) /\ Len(s) = 4
  BY RecordsOfDai
<1>2. \A i \in 1 .. 4 : s[i].k = "int"
  BY DEF Client!DaiRecord, Client!Ints, Client!INT
<1>3. Matches(b, Client!Times(L, s)) /\ L \in Nat
  BY DaiPutsMatch
<1> HIDE DEF s, b, L
<1>4. Len(s) > 0 /\ \A i \in 1 .. Len(s) : s[i].k = "int"
  BY <1>1, <1>2
<1>5. Numbers(b) /\ b \in Seq(Filled)
  BY <1>1, <1>3, <1>4, NumbersMatched
<1> QED
  BY <1>5 DEF b

\* js_kanren, js_kantan_dai and js_kanzen_dai keep the texts of the short phrases of
\* all the long ones.
LEMMA DaiFits ==
    ASSUME NEW c \in Client!DaiCalls, NEW dai \in Seq(Nat), NEW f \in 0 .. 1,
           LET g == Server!ret_dai(dai, 1, f) IN g \in Seq(Filled) /\ Agrees(c, g)
    PROVE  LET g == Server!ret_dai(dai, 1, f) IN Room(c, Values(g, Len(g)))
<1> DEFINE g == Server!ret_dai(dai, 1, f)
           n == ShortPhrases(dai)
           L == Len(dai)
           w == Server!count_kanji(1, f)
           t == Server!ret_kanji(1, f)
           x == Server!put4("count", L) \o Server!put4("sho_sum", n)
           y == Server!put4("kanji_sum", n * w)
           d == DaiPuts(dai)
           b == Server!Puts(Server!Times(n, Server!ret_sho_x))
           xy == x \o y
           xyd == xy \o d
           h == xyd \o b
           e == Server!Times(n, t)
           a == Values(g, Len(g))
<1>1. g = h \o e
  <2>1. Server!ShortPhrases(dai) = n
    BY SamePhrases
  <2> HIDE DEF n
  <2> QED
    BY <2>1 DEF Server!ret_dai, DaiPuts
<1>2. g \in Seq(Filled) /\ Agrees(c, g)
  OBVIOUS
<1>3. n \in Nat /\ L \in Nat
  <2>1. L \in Nat /\ DOMAIN dai = 1 .. L /\ \A i \in 1 .. L : dai[i] \in Int
    OBVIOUS
  <2> HIDE DEF L
  <2> QED
    BY <2>1, ShortPhrasesCounted
<1> HIDE DEF n, L
<1>4. {"count", "sho_sum", "kanji_sum"} \subseteq Names /\ n * w \in Int
  <2>1. w \in Nat
    BY TextsOfSho
  <2> HIDE DEF w
  <2> QED
    BY <1>3, <2>1 DEF Names
<1>5. x \in Seq(Filled) /\ Numbers(x) /\ Len(x) = 2
  <2>1. L \in Int /\ n \in Int /\ "count" \in Names /\ "sho_sum" \in Names
    BY <1>3, <1>4
  <2> QED
    BY <2>1, TwoNumbers
<1>6. y \in Seq(Filled) /\ Numbers(y) /\ Len(y) = 1 /\ y[1].v = n * w
  <2> HIDE DEF w
  <2> QED
    BY <1>4, PutNumber
<1>7. Numbers(d) /\ d \in Seq(Filled)
  BY DaiNumbers
<1>8. Numbers(b) /\ b \in Seq(Filled)
  BY <1>3, PhraseNumbers
<1>9. PICK off : Texts(t, w, off)
  BY ShoTexts
<1>10. e \in Seq(Filled)
  <2> HIDE DEF t, w
  <2>1. PICK fields : Matches(t, fields)
    BY <1>9 DEF Texts
  <2>2. Matches(e, Client!Times(n, fields))
    BY <1>3, <1>9, <2>1, TimesMatch DEF Texts
  <2> HIDE DEF e
  <2> QED
    BY <2>2 DEF Matches
<1> HIDE DEF g, w, t, x, y, d, b, e
<1>11. xy \in Seq(Filled) /\ Numbers(xy) /\ Len(xy) = 3 /\ xy[3].v = n * w
  <2>1. /\ xy \in Seq(Filled) /\ Len(xy) = Len(x) + Len(y) /\ Numbers(xy)
        /\ \A i \in 1 .. Len(y) : xy[Len(x) + i] = y[i]
    BY <1>5, <1>6, Begins
  <2>2. xy[Len(x) + 1] = y[1] /\ Len(x) + 1 = 3
    BY <1>5, <1>6, <2>1
  <2> QED
    BY <1>5, <1>6, <2>1, <2>2
<1> HIDE DEF xy
<1>12. /\ xyd \in Seq(Filled) /\ Numbers(xyd) /\ Len(xyd) >= 3
       /\ \A i \in 1 .. 3 : xyd[i] = xy[i]
  <2>1. /\ xy \o d \in Seq(Filled) /\ Numbers(xy \o d) /\ Len(xy \o d) >= Len(xy)
        /\ \A i \in 1 .. Len(xy) : (xy \o d)[i] = xy[i]
    BY <1>7, <1>11, NumbersAhead
  <2>2. Len(xy) = 3
    BY <1>11
  <2> QED
    BY <2>1, <2>2
<1> HIDE DEF xyd
<1>13. /\ h \in Seq(Filled) /\ Numbers(h) /\ Len(h) >= Len(xyd)
       /\ \A i \in 1 .. Len(xyd) : h[i] = xyd[i]
  BY <1>8, <1>12, NumbersAhead
<1> HIDE DEF h
<1>14. Len(g) >= 3 /\ g[3].v = n * w
  <2>1. Len(g) = Len(h) + Len(e) /\ Len(e) \in Nat /\ \A i \in 1 .. Len(h) : g[i] = h[i]
    BY <1>1, <1>10, <1>13, Begins
  <2>2. /\ 3 \in 1 .. Len(xyd) /\ 3 \in 1 .. Len(h) /\ 3 \in 1 .. 3
        /\ Len(h) \in Nat
    BY <1>12, <1>13
  <2> QED
    BY <1>11, <1>12, <1>13, <2>1, <2>2
<1>15. Client!Val(a, 3) = n * w
  BY <1>2, <1>14, ValueAt
<1> HIDE DEF a
<1>16. c \in CommandNames \ Transfers /\ c # "JS_DISCONNECT"
  BY DEF CommandNames, Transfers, Server!Table, Client!DaiCalls
<1>17. /\ Copies(c, a) \in Int /\ Client!re_alloc(c, a) \in Int
       /\ Copies(c, a) + n * w <= Client!re_alloc(c, a)
  BY <1>4, <1>15, Announced
<1>18. \A i \in 1 .. Len(h) : h[i].k # "text"
  BY <1>13 DEF Numbers
<1>19. Room(c, Values(g, Len(g)))
  BY <1>1, <1>2, <1>3, <1>9, <1>13, <1>16, <1>17, <1>18, SumIsRoom DEF a, e
<1> QED
  BY <1>19 DEF g

\* The name of a class.
LEMMA NameTexts ==
    ASSUME NEW v \in Nat
    PROVE  LET t == <<Server!Put(Server!Text("hinsi_name"), v)>>
           IN  /\ Matches(t, <<Text("hinsi_name")>>) /\ Len(t) = 1
               /\ Texts(t, v + 1, [r \in 1 .. 1 |-> 0])
<1> DEFINE t == <<Server!Put(Server!Text("hinsi_name"), v)>>
<1>1. Matches(t, <<Text("hinsi_name")>>) /\ Len(t) = 1
  BY TextMatches DEF Names
<1>2. t[1].v = v
  BY DEF Server!Put
<1> HIDE DEF t
<1> DEFINE off == [r \in 1 .. 1 |-> 0]
<1>3. off \in [1 .. 1 -> Nat] /\ \A r \in 1 .. 1 : t[r].v \in Nat /\ off[r] + t[r].v < v + 1
  BY <1>2
<1>4. \A r \in 1 .. 1 : \A s \in 1 .. 1 : ~(r < s)
  OBVIOUS
<1> HIDE DEF off
<1>5. Texts(t, v + 1, off)
  BY <1>1, <1>3, <1>4 DEF Texts
<1> QED
  BY <1>1, <1>5 DEF t, off

\* js_hinsi_name keeps the name.
LEMMA HinsiNameFits ==
    ASSUME LET g == Server!put4("size", 2) \o <<Server!Put(Server!Text("hinsi_name"), 2)>>
           IN  g \in Seq(Filled) /\ Agrees("JS_HINSI_NAME", g)
    PROVE  LET g == Server!put4("size", 2) \o <<Server!Put(Server!Text("hinsi_name"), 2)>>
           IN  Room("JS_HINSI_NAME", Values(g, Len(g)))
<1> DEFINE c == "JS_HINSI_NAME"
           h == Server!put4("size", 2)
           t == <<Server!Put(Server!Text("hinsi_name"), 2)>>
           g == h \o t
           off == [r \in 1 .. 1 |-> 0]
           a == Values(g, Len(g))
<1>1. Matches(t, <<Text("hinsi_name")>>) /\ Len(t) = 1 /\ Texts(t, 3, off)
  <2>1. 2 \in Nat /\ 2 + 1 = 3
    OBVIOUS
  <2> QED
    BY <2>1, NameTexts
<1>2. Numbers(h) /\ h \in Seq(Filled) /\ Len(h) = 1 /\ h[1].v = 2
  BY PutNumber DEF Names
<1>3. g \in Seq(Filled) /\ Agrees(c, g)
  OBVIOUS
<1>4. c \in CommandNames \ Transfers /\ c # "JS_DISCONNECT"
  BY DEF CommandNames, Transfers, Server!Table
<1>5. t \in Seq(Filled)
  BY <1>1 DEF Matches
<1> HIDE DEF h, t, off
<1>6. Server!Times(1, t) = t
  <2>1. Server!Times(1, t) = [i \in 1 .. 1 * 1 |-> t[1 + ((i - 1) % 1)]]
    BY <1>1 DEF Server!Times
  <2>2. 1 * 1 = 1 /\ \A i \in 1 .. 1 : 1 + ((i - 1) % 1) = i
    OBVIOUS
  <2>3. t = [i \in 1 .. 1 |-> t[i]]
    BY <1>1, <1>5
  <2> QED
    BY <2>1, <2>2, <2>3
<1>7. 1 \in 1 .. Len(g) /\ g[1].v = 2
  <2>1. Len(g) = Len(h) + Len(t) /\ \A i \in 1 .. Len(h) : g[i] = h[i]
    BY <1>2, <1>5, Begins
  <2> QED
    BY <1>1, <1>2, <2>1
<1>8. g = h \o Server!Times(1, t)
  BY <1>6
<1> HIDE DEF g
<1>9. Client!Val(a, 1) = 2
  BY <1>3, <1>7, ValueAt
<1> HIDE DEF a
<1>10. /\ Copies(c, a) \in Int /\ Client!re_alloc(c, a) \in Int
       /\ Copies(c, a) + 1 * 3 <= Client!re_alloc(c, a)
  BY <1>9, Announced
<1>11. \A i \in 1 .. Len(h) : h[i].k # "text"
  BY <1>2 DEF Numbers
<1> HIDE DEF c
<1>12. Room(c, Values(g, Len(g)))
  BY <1>1, <1>2, <1>3, <1>4, <1>8, <1>10, <1>11, SumIsRoom DEF a
<1> QED
  BY <1>12 DEF c, g, h, t

\* js_hinsi_list keeps the names.
LEMMA HinsiListFits ==
    ASSUME NEW n \in Nat,
           LET g == (Server!put4("count", n) \o Server!put4("size", 2 * n))
                        \o [i \in 1 .. n |-> Server!Put(Server!Text("hinsi_name"), 1)]
           IN  g \in Seq(Filled) /\ Agrees("JS_HINSI_LIST", g)
    PROVE  LET g == (Server!put4("count", n) \o Server!put4("size", 2 * n))
                        \o [i \in 1 .. n |-> Server!Put(Server!Text("hinsi_name"), 1)]
           IN  Room("JS_HINSI_LIST", Values(g, Len(g)))
<1> DEFINE c == "JS_HINSI_LIST"
           h == Server!put4("count", n) \o Server!put4("size", 2 * n)
           t == <<Server!Put(Server!Text("hinsi_name"), 1)>>
           names == [i \in 1 .. n |-> Server!Put(Server!Text("hinsi_name"), 1)]
           e == Server!Times(n, t)
           g == h \o names
           off == [r \in 1 .. 1 |-> 0]
           a == Values(g, Len(g))
<1>1. g \in Seq(Filled) /\ Agrees(c, g)
  OBVIOUS
<1>2. names = e
  BY NamesAre
<1>3. Matches(t, <<Text("hinsi_name")>>) /\ Len(t) = 1 /\ Texts(t, 2, off)
  <2>1. 1 \in Nat /\ 1 + 1 = 2
    OBVIOUS
  <2> QED
    BY <2>1, NameTexts
<1>4. h \in Seq(Filled) /\ Numbers(h) /\ Len(h) = 2 /\ h[1].v = n /\ h[2].v = 2 * n
  <2>1. "count" \in Names /\ "size" \in Names /\ n \in Int /\ 2 * n \in Int
    BY DEF Names
  <2> QED
    BY <2>1, TwoNumbers
<1>5. c \in CommandNames \ Transfers /\ c # "JS_DISCONNECT"
  BY DEF CommandNames, Transfers, Server!Table
<1> HIDE DEF h, t, off, names
<1>6. e \in Seq(Filled)
  <2>1. Len(t) > 0
    BY <1>3
  <2>2. Matches(e, Client!Times(n, <<Text("hinsi_name")>>))
    BY <1>3, <2>1, TimesMatch
  <2> QED
    BY <2>2 DEF Matches
<1>7. g = h \o e
  BY <1>2
<1> HIDE DEF g
<1>8. Len(g) >= 2 /\ g[2].v = 2 * n
  <2> HIDE DEF e
  <2>1. h \in Seq(Filled) /\ e \in Seq(Filled)
    BY <1>4, <1>6
  <2>2. Len(h \o e) = Len(h) + Len(e) /\ Len(e) \in Nat /\ \A i \in 1 .. Len(h) : (h \o e)[i] = h[i]
    BY <2>1, Begins
  <2>3. 2 \in 1 .. Len(h)
    BY <1>4
  <2> QED
    BY <1>4, <1>7, <2>2, <2>3
<1>9. Client!Val(a, 2) = 2 * n
  BY <1>1, <1>8, ValueAt
<1> HIDE DEF a
<1>10. /\ Copies(c, a) \in Int /\ Client!re_alloc(c, a) \in Int
       /\ Copies(c, a) + n * 2 <= Client!re_alloc(c, a)
  BY <1>9, Announced
<1>11. \A i \in 1 .. Len(h) : h[i].k # "text"
  BY <1>4 DEF Numbers
<1> HIDE DEF c
<1>12. Room(c, Values(g, Len(g)))
  BY <1>1, <1>3, <1>4, <1>5, <1>7, <1>10, <1>11, SumIsRoom DEF a, e
<1> QED
  BY <1>12 DEF c, g, h, names

\* An answer of n items begins with n and sum, and ends with the texts of the items,
\* which have w characters each.
GivesTexts(g, n, sum, w) ==
    \E h, t, off :
        /\ g = h \o Server!Times(n, t) /\ Server!Times(n, t) \in Seq(Filled)
        /\ Texts(t, w, off)
        /\ h \in Seq(Filled) /\ Numbers(h)
        /\ Len(h) >= 2 /\ h[1].v = n /\ h[2].v = sum

\* What return_jbiki gives.
LEMMA JbikiTexts ==
    ASSUME NEW n \in Nat, NEW k \in Nat, NEW c \in Nat
    PROVE  GivesTexts(Server!return_jbiki(n, k, c), n, n * (k + c), (k + c) + 2)
<1> DEFINE s == n * (k + c)
           x == Server!put4("words", n) \o Server!put4("kanji_sum", s)
           b == Server!Puts(Server!Times(n, Server!WordRecord))
           d == Server!put4("dic_no", -1)
           t == <<Server!Put(Server!Text("kanji"), k), Server!Put(Server!Text("comment"), c)>>
           e == Server!Times(n, t)
           xb == x \o b
           h == xb \o d
           off == [r \in 1 .. 2 |-> IF r = 1 THEN 0 ELSE k + 1]
<1>1. Server!return_jbiki(n, k, c) = h \o e
  BY DEF Server!return_jbiki, Server!count_jdata_kanji
<1>2. {"words", "kanji_sum", "dic_no"} \subseteq Names /\ n \in Int /\ s \in Int /\ -1 \in Int
  <2>1. n \in Int /\ k + c \in Int
    OBVIOUS
  <2> QED
    BY <2>1 DEF Names
<1>3. x \in Seq(Filled) /\ Numbers(x) /\ Len(x) = 2 /\ x[1].v = n /\ x[2].v = s
  <2> HIDE DEF s
  <2> QED
    BY <1>2, TwoNumbers
<1>4. d \in Seq(Filled) /\ Numbers(d)
  BY <1>2, PutNumber
<1>5. b \in Seq(Filled) /\ Numbers(b)
  <2> DEFINE r == Client!WordRecord
  <2>1. Server!WordRecord = r /\ r \in Seq(Field) /\ Len(r) = 7
    BY RecordsOfWords
  <2>2. \A i \in 1 .. 7 : r[i].k = "int"
    BY DEF Client!WordRecord, Client!Ints, Client!INT
  <2> HIDE DEF r
  <2>3. Len(r) > 0 /\ \A i \in 1 .. Len(r) : r[i].k = "int"
    BY <2>1, <2>2
  <2>4. Server!Times(n, r) = Client!Times(n, r) /\ Client!Times(n, r) \in Seq(Field)
    BY <2>1, <2>3, TimesTyped
  <2>5. Matches(b, Client!Times(n, r))
    BY <2>1, <2>4, PutsMatch
  <2> HIDE DEF b
  <2> QED
    BY <2>1, <2>3, <2>5, NumbersMatched
<1>6. Texts(t, (k + c) + 2, off) /\ e \in Seq(Filled)
  <2>1. Matches(t, TextsOfWord) /\ Len(t) = 2
    BY TextsOfWordMatch
  <2>2. t[1].v = k /\ t[2].v = c
    BY DEF Server!Put
  <2> HIDE DEF t
  <2>3. off \in [1 .. 2 -> Nat] /\ \A r \in 1 .. 2 : t[r].v \in Nat /\ off[r] + t[r].v < (k + c) + 2
    BY <2>2
  <2>4. \A r \in 1 .. 2 : \A q \in 1 .. 2 : r < q => off[r] + t[r].v < off[q]
    BY <2>2
  <2> HIDE DEF off
  <2>5. Texts(t, (k + c) + 2, off)
    BY <2>1, <2>3, <2>4 DEF Texts
  <2>6. Len(t) > 0
    BY <2>1
  <2>7. Matches(e, Client!Times(n, TextsOfWord))
    BY <2>1, <2>6, TimesMatch
  <2> QED
    BY <2>5, <2>7 DEF Matches
<1> HIDE DEF s, x, b, d, t, off
<1>7. xb \in Seq(Filled) /\ Numbers(xb) /\ Len(xb) >= Len(x) /\ \A i \in 1 .. Len(x) : xb[i] = x[i]
  BY <1>3, <1>5, NumbersAhead
<1> HIDE DEF xb
<1>8. h \in Seq(Filled) /\ Numbers(h) /\ Len(h) >= Len(xb) /\ \A i \in 1 .. Len(xb) : h[i] = xb[i]
  BY <1>4, <1>7, NumbersAhead
<1> HIDE DEF h
<1>9. Len(h) >= 2 /\ h[1].v = n /\ h[2].v = s
  <2>1. 1 \in 1 .. Len(x) /\ 2 \in 1 .. Len(x) /\ 1 \in 1 .. Len(xb) /\ 2 \in 1 .. Len(xb) /\ Len(h) \in Nat
    BY <1>3, <1>7, <1>8
  <2> QED
    BY <1>3, <1>7, <1>8, <2>1
<1> HIDE DEF e
<1>10. /\ Server!return_jbiki(n, k, c) = h \o Server!Times(n, t)
       /\ Server!Times(n, t) \in Seq(Filled)
  BY <1>1, <1>6 DEF e
<1>11. h[2].v = n * (k + c)
  BY <1>9 DEF s
<1> QED
  BY <1>6, <1>8, <1>9, <1>10, <1>11 DEF GivesTexts

\* js_word_search and js_word_search_by_env keep the texts of the words, and a copy of
\* the reading for each.
LEMMA WordsFit ==
    ASSUME NEW c \in {"JS_WORD_SEARCH", "JS_WORD_SEARCH_BY_ENV"},
           NEW n \in Nat, NEW k \in Nat, NEW m \in Nat,
           LET g == Server!return_jbiki(n, k, m) IN g \in Seq(Filled) /\ Agrees(c, g)
    PROVE  LET g == Server!return_jbiki(n, k, m) IN Room(c, Values(g, Len(g)))
<1> DEFINE g == Server!return_jbiki(n, k, m)
           a == Values(g, Len(g))
           w == (k + m) + 2
<1>1. GivesTexts(g, n, n * (k + m), w)
  BY JbikiTexts
<1>2. PICK h, t, off :
        /\ g = h \o Server!Times(n, t) /\ Server!Times(n, t) \in Seq(Filled)
        /\ Texts(t, w, off)
        /\ h \in Seq(Filled) /\ Numbers(h)
        /\ Len(h) >= 2 /\ h[1].v = n /\ h[2].v = n * (k + m)
  <2> HIDE DEF g, w
  <2> QED
    BY <1>1 DEF GivesTexts
<1>3. g \in Seq(Filled) /\ Agrees(c, g)
  OBVIOUS
<1> HIDE DEF g
<1>4. Len(g) >= 2 /\ g[1].v = n /\ g[2].v = n * (k + m)
  <2> DEFINE e == Server!Times(n, t)
  <2>1. e \in Seq(Filled) /\ g = h \o e
    BY <1>2
  <2> HIDE DEF e
  <2>2. Len(g) = Len(h) + Len(e) /\ Len(e) \in Nat /\ Len(h) \in Nat /\ \A i \in 1 .. Len(h) : g[i] = h[i]
    BY <2>1, Begins
  <2>3. 1 \in 1 .. Len(h) /\ 2 \in 1 .. Len(h)
    BY <1>2
  <2> QED
    BY <1>2, <2>2, <2>3
<1>5. Client!Val(a, 1) = n /\ Client!Val(a, 2) = n * (k + m)
  <2>1. 1 \in 1 .. Len(g) /\ 2 \in 1 .. Len(g)
    BY <1>4
  <2> QED
    BY <1>3, <1>4, <2>1, ValueAt
<1> HIDE DEF a
<1>6. c \in CommandNames \ Transfers /\ c # "JS_DISCONNECT"
  BY DEF CommandNames, Transfers, Server!Table
<1>7. /\ Copies(c, a) \in Int /\ Client!re_alloc(c, a) \in Int
      /\ Copies(c, a) + n * w <= Client!re_alloc(c, a)
  <2> DEFINE s == k + m
  <2>1. Client!re_alloc(c, a) = n * s + n * 3 + n * 1 /\ Copies(c, a) = n * (1 + 1)
    BY <1>5, Announced
  <2>2. s \in Nat /\ n * w = n * (s + 2)
    OBVIOUS
  <2> HIDE DEF s, w
  <2>3. n * (s + 2) = n * s + n * 2 /\ n * s \in Int
    BY <2>2
  <2> QED
    BY <2>1, <2>2, <2>3
<1>8. \A i \in 1 .. Len(h) : h[i].k # "text"
  BY <1>2 DEF Numbers
<1> HIDE DEF w
<1>9. Room(c, Values(g, Len(g)))
  BY <1>2, <1>3, <1>6, <1>7, <1>8, SumIsRoom DEF a
<1> QED
  BY <1>9 DEF g

\* js_word_info keeps the texts of the word and a copy of its reading; the reading
\* itself, which comes second, goes to a buffer of its own.
LEMMA WordInfoFits ==
    ASSUME NEW y \in Nat,
           LET g == (Server!put4("status", 0) \o <<Server!Put(Server!Text("yomi"), y)>>)
                        \o Server!return_jbiki(1, 1, 1)
           IN  g \in Seq(Filled) /\ Agrees("JS_WORD_INFO", g)
    PROVE  LET g == (Server!put4("status", 0) \o <<Server!Put(Server!Text("yomi"), y)>>)
                        \o Server!return_jbiki(1, 1, 1)
           IN  Room("JS_WORD_INFO", Values(g, Len(g)))
<1> DEFINE c == "JS_WORD_INFO"
           p == Server!put4("status", 0)
           q == <<Server!Put(Server!Text("yomi"), y)>>
           jb == Server!return_jbiki(1, 1, 1)
           pq == p \o q
           g == pq \o jb
           a == Values(g, Len(g))
<1>1. g \in Seq(Filled) /\ Agrees(c, g)
  OBVIOUS
<1>2. c \in CommandNames \ Transfers /\ c # "JS_DISCONNECT"
  BY DEF CommandNames, Transfers, Server!Table
<1>3. GivesTexts(jb, 1, 2, 4)
  <2>1. 1 \in Nat /\ 1 * (1 + 1) = 2 /\ (1 + 1) + 2 = 4
    OBVIOUS
  <2>2. GivesTexts(jb, 1, 1 * (1 + 1), (1 + 1) + 2)
    BY <2>1, JbikiTexts
  <2> HIDE DEF jb
  <2> QED
    BY <2>1, <2>2
<1>4. p \in Seq(Filled) /\ Numbers(p) /\ Len(p) = 1
  BY PutNumber DEF Names
<1>5. q \in Seq(Filled) /\ Len(q) = 1 /\ q[1].v = y
  <2>1. Matches(q, <<Text("yomi")>>) /\ Len(q) = 1
    <3>1. "yomi" \in Names /\ y \in Int
      BY DEF Names
    <3> QED
      BY <3>1, TextMatches
  <2>2. q[1].v = y
    BY DEF Server!Put
  <2> HIDE DEF q
  <2> QED
    BY <2>1, <2>2 DEF Matches
<1> HIDE DEF p, q, jb
<1>6. /\ pq \in Seq(Filled) /\ Len(pq) = 2 /\ pq[2].v = y
      /\ \A i \in 1 .. 2 : pq[i].k = "text" => i = 2
  <2>1. /\ pq \in Seq(Filled) /\ Len(pq) = Len(p) + Len(q)
        /\ \A i \in 1 .. Len(p) : pq[i] = p[i]
        /\ \A i \in 1 .. Len(q) : pq[Len(p) + i] = q[i]
    BY <1>4, <1>5, Begins
  <2>2. 1 \in 1 .. Len(p) /\ 1 \in 1 .. Len(q) /\ Len(p) + 1 = 2
    BY <1>4, <1>5
  <2>3. pq[1] = p[1] /\ pq[2] = q[1] /\ p[1].k # "text"
    BY <1>4, <2>1, <2>2 DEF Numbers
  <2>4. \A i \in 1 .. 2 : i # 2 => i = 1
    OBVIOUS
  <2> QED
    BY <1>4, <1>5, <2>1, <2>3, <2>4
<1> HIDE DEF pq
<1>7. PICK h, t, off :
        /\ jb = h \o Server!Times(1, t) /\ Server!Times(1, t) \in Seq(Filled)
        /\ Texts(t, 4, off)
        /\ h \in Seq(Filled) /\ Numbers(h)
        /\ Len(h) >= 2 /\ h[1].v = 1 /\ h[2].v = 2
  BY <1>3 DEF GivesTexts
<1> DEFINE e == Server!Times(1, t)
           ph == pq \o h
<1>8. g = ph \o e
  <2>1. e \in Seq(Filled) /\ jb = h \o e
    BY <1>7
  <2> HIDE DEF e
  <2>2. (pq \o h) \o e = pq \o (h \o e)
    BY <1>6, <1>7, <2>1, Regrouped
  <2> QED
    BY <2>1, <2>2
<1>9. e \in Seq(Filled)
  BY <1>7
<1> HIDE DEF e, g
<1>10. /\ ph \in Seq(Filled) /\ Len(ph) >= 4
       /\ ph[2].v = y /\ ph[3].v = 1 /\ ph[4].v = 2
       /\ \A i \in 1 .. Len(ph) : ph[i].k = "text" => i = 2
  <2>1. /\ ph \in Seq(Filled) /\ Len(ph) = Len(pq) + Len(h) /\ Len(h) \in Nat
        /\ \A i \in 1 .. Len(pq) : ph[i] = pq[i]
        /\ \A i \in 1 .. Len(h) : ph[Len(pq) + i] = h[i]
    BY <1>6, <1>7, Begins
  <2> HIDE DEF ph
  <2>2. /\ \A i \in 1 .. 2 : ph[i] = pq[i]
        /\ \A i \in 1 .. Len(h) : ph[2 + i] = h[i]
    BY <1>6, <2>1
  <2>3. /\ ph[2] = pq[2]
        /\ ph[2 + 1] = h[1] /\ ph[2 + 2] = h[2]
    <3>1. 2 \in 1 .. 2 /\ 1 \in 1 .. Len(h) /\ 2 \in 1 .. Len(h)
      BY <1>7, <2>1
    <3> QED
      BY <2>2, <3>1
  <2>4. ASSUME NEW i \in 1 .. Len(ph), ph[i].k = "text"
        PROVE  i = 2
    <3>1. CASE i \in 1 .. 2
      BY <1>6, <2>2, <2>4, <3>1
    <3>2. CASE ~(i \in 1 .. 2)
      <4>1. i - 2 \in 1 .. Len(h) /\ 2 + (i - 2) = i
        BY <1>6, <2>1, <3>2
      <4>2. ph[i] = h[i - 2]
        BY <2>2, <4>1
      <4> QED
        BY <1>7, <2>4, <4>1, <4>2 DEF Numbers
    <3> QED
      BY <3>1, <3>2
  <2> QED
    BY <1>6, <1>7, <2>1, <2>3, <2>4
<1> HIDE DEF ph
<1>11. Len(g) >= 4 /\ \A i \in 1 .. 4 : g[i] = ph[i]
  <2>1. /\ Len(ph \o e) = Len(ph) + Len(e) /\ Len(e) \in Nat /\ Len(ph) \in Nat
        /\ \A i \in 1 .. Len(ph) : (ph \o e)[i] = ph[i]
    BY <1>9, <1>10, Begins
  <2> QED
    BY <1>8, <1>10, <2>1
<1>12. a \in Seq(Int) /\ Len(a) >= 4 /\ a[2] = y /\ a[3] = 1 /\ a[4] = 2
  <2>1. Len(g) \in 0 .. Len(g) /\ 2 \in 1 .. Len(g) /\ 3 \in 1 .. Len(g) /\ 4 \in 1 .. Len(g)
    BY <1>1, <1>11
  <2>2. a \in Seq(Int) /\ Len(a) = Len(g) /\ \A i \in 1 .. Len(g) : a[i] = g[i].v
    BY <1>1, <2>1, ValuesKeep
  <2>3. g[2] = ph[2] /\ g[3] = ph[3] /\ g[4] = ph[4]
    BY <1>11
  <2> HIDE DEF a
  <2> QED
    BY <1>10, <1>11, <2>1, <2>2, <2>3
<1> HIDE DEF a
<1> DEFINE w == SubSeq(a, 3, Len(a))
<1>13. Client!Val(a, 2) = y /\ Client!Val(w, 1) = 1 /\ Client!Val(w, 2) = 2
  <2>1. /\ w \in Seq(Int) /\ Len(w) = Len(a) - 2
        /\ \A i \in 1 .. Len(a) - 2 : w[i] = a[i + 2]
    <3> DEFINE n == Len(a)
    <3>1. n \in Nat /\ n >= 4 /\ 3 \in 1 .. n + 1 /\ n \in 3 - 1 .. n
      BY <1>12
    <3>2. w \in Seq(Int) /\ Len(w) = n - 3 + 1 /\ \A i \in 1 .. n - 3 + 1 : w[i] = a[3 + i - 1]
      BY <1>12, <3>1
    <3> QED
      BY <3>1, <3>2
  <2>2. w[1] = 1 /\ w[2] = 2 /\ Len(w) >= 2
    <3>1. 1 \in 1 .. Len(a) - 2 /\ 2 \in 1 .. Len(a) - 2 /\ 1 + 2 = 3 /\ 2 + 2 = 4
      BY <1>12
    <3> HIDE DEF w
    <3>2. w[1] = a[1 + 2] /\ w[2] = a[2 + 2] /\ Len(w) = Len(a) - 2
      BY <2>1, <3>1
    <3> QED
      BY <1>12, <3>1, <3>2
  <2> HIDE DEF w
  <2> QED
    BY <1>12, <2>2 DEF Client!Val
<1>14. /\ Client!re_alloc(c, a) = Client!Val(w, 2) + Client!Val(w, 1) * 3 + Client!Val(w, 1) * Client!Val(a, 2)
       /\ Copies(c, a) = Client!Val(w, 1) * (Client!Val(a, 2) + 1)
  BY Announced
<1> HIDE DEF w, c
<1>15. Client!re_alloc(c, a) = 2 + 1 * 3 + 1 * y /\ Copies(c, a) = 1 * (y + 1)
  BY <1>13, <1>14
<1>16. /\ Copies(c, a) \in Int /\ Client!re_alloc(c, a) \in Int
       /\ Copies(c, a) + 1 * 4 <= Client!re_alloc(c, a)
  BY <1>15
<1>17. \A i \in 1 .. Len(ph) : ph[i].k = "text" => c = "JS_WORD_INFO" /\ i = 2
  BY <1>10 DEF c
<1>18. Room(c, Values(g, Len(g)))
  BY <1>1, <1>2, <1>7, <1>8, <1>10, <1>16, <1>17, SumIsRoom DEF a, e
<1> QED
  BY <1>18 DEF c, g, pq, p, q, jb

----------------------------------------------------------------------------
\* The calls whose answers js.c stores where it allocated room for them.
Allocating == Client!DaiCalls \cup Client!ShoCalls \cup Client!WordCalls \cup {"JS_HINSI_NAME", "JS_HINSI_LIST"}

\* What the server gives to these calls, and that the client reads it as it is given.
LEMMA GivesWhat ==
    ASSUME NEW c \in Allocating, NEW course \in Server!Table[c]
    PROVE  /\ course.gives \in Seq(Filled) /\ Agrees(c, course.gives)
           /\ c \in Client!DaiCalls =>
                \/ course.gives = Server!error_ret("count")
                \/ \E dai \in Seq(Nat), f \in 0 .. 1 : course.gives = Server!ret_dai(dai, 1, f)
           /\ c \in Client!ShoCalls =>
                \/ course.gives = Server!error_ret("count")
                \/ \E n \in Nat, f \in 0 .. 1 : course.gives = Server!ret_sho(n, 1, f)
           /\ c \in {"JS_WORD_SEARCH", "JS_WORD_SEARCH_BY_ENV"} =>
                \E n \in Nat, k \in Nat, m \in Nat : course.gives = Server!return_jbiki(n, k, m)
           /\ c = "JS_WORD_INFO" =>
                \/ course.gives = Server!error_ret("status")
                \/ \E y \in Nat : course.gives =
                     (Server!put4("status", 0) \o <<Server!Put(Server!Text("yomi"), y)>>)
                        \o Server!return_jbiki(1, 1, 1)
           /\ c = "JS_HINSI_NAME" =>
                course.gives \in {Server!error_ret("size"),
                                  Server!put4("size", 2) \o <<Server!Put(Server!Text("hinsi_name"), 2)>>}
           /\ c = "JS_HINSI_LIST" =>
                \/ course.gives = Server!error_ret("count")
                \/ \E n \in Nat : course.gives =
                     (Server!put4("count", n) \o Server!put4("size", 2 * n))
                        \o [i \in 1 .. n |-> Server!Put(Server!Text("hinsi_name"), 1)]
<1>1. c \in CommandNames \ Transfers
  BY DEF Allocating, CommandNames, Transfers, Server!Table, Client!DaiCalls, Client!ShoCalls, Client!WordCalls
<1>2. course.gives \in Seq(Filled) /\ Agrees(c, course.gives)
  BY <1>1, EveryCommandRight DEF Right
<1>3. MaxItems \in Nat
  BY BoundsAssumption
<1>4. c \in Client!DaiCalls =>
        \E takes : Server!Table[c] = Server!Courses(takes, Server!DaiAnswers)
  BY DEF Client!DaiCalls, Server!Table, Server!do_kanren, Server!do_kantan_dai, Server!do_kanzen_dai
<1>5. c \in Client!ShoCalls =>
        \E takes : Server!Table[c] = Server!Courses(takes, Server!ShoAnswers)
  BY DEF Client!ShoCalls, Server!Table, Server!do_kantan_sho, Server!do_kanzen_sho
<1>6. c \in {"JS_WORD_SEARCH", "JS_WORD_SEARCH_BY_ENV"} =>
        \E takes : Server!Table[c] = Server!Courses(takes, Server!WordLists)
  BY DEF Server!Table, Server!js_word_search, Server!js_word_search_by_env
<1>7. \A takes, answers : \A x \in Server!Courses(takes, answers) : x.gives \in answers
  BY DEF Server!Courses
<1>8. c \in Client!DaiCalls =>
        \/ course.gives = Server!error_ret("count")
        \/ \E dai \in Seq(Nat), f \in 0 .. 1 : course.gives = Server!ret_dai(dai, 1, f)
  <2> DEFINE D == {<<>>, <<1>>, <<2>>, <<2, 1>>}
  <2>1. D \subseteq Seq(Nat)
    OBVIOUS
  <2>2. Server!DaiAnswers
          = {Server!error_ret("count")} \cup {Server!ret_dai(dai, 1, f) : dai \in D, f \in 0 .. 1}
    BY DEF Server!DaiAnswers
  <2> HIDE DEF D
  <2> QED
    BY <1>4, <1>7, <2>1, <2>2
<1>9. c \in Client!ShoCalls =>
        \/ course.gives = Server!error_ret("count")
        \/ \E n \in Nat, f \in 0 .. 1 : course.gives = Server!ret_sho(n, 1, f)
  <2>1. Server!ShoAnswers
          = {Server!error_ret("count")} \cup {Server!ret_sho(n, 1, f) : n \in 0 .. MaxItems, f \in 0 .. 1}
    BY DEF Server!ShoAnswers
  <2>2. \A x \in Server!ShoAnswers : \/ x = Server!error_ret("count")
                                    \/ \E n \in Nat, f \in 0 .. 1 : x = Server!ret_sho(n, 1, f)
    BY <1>3, <2>1
  <2>3. c \in Client!ShoCalls => course.gives \in Server!ShoAnswers
    BY <1>5, <1>7
  <2> QED
    BY <2>2, <2>3
<1>10. c \in {"JS_WORD_SEARCH", "JS_WORD_SEARCH_BY_ENV"} =>
         \E n \in Nat, k \in Nat, m \in Nat : course.gives = Server!return_jbiki(n, k, m)
  <2>1. Server!WordLists
          = {Server!return_jbiki(n, k, m) : n \in 0 .. MaxItems, k \in 1 .. 2, m \in 0 .. 1}
    BY DEF Server!WordLists
  <2>2. \A x \in Server!WordLists : \E n \in Nat, k \in Nat, m \in Nat : x = Server!return_jbiki(n, k, m)
    BY <1>3, <2>1
  <2>3. c \in {"JS_WORD_SEARCH", "JS_WORD_SEARCH_BY_ENV"} => course.gives \in Server!WordLists
    BY <1>6, <1>7
  <2> QED
    BY <2>2, <2>3
<1>11. c = "JS_WORD_INFO" =>
         \/ course.gives = Server!error_ret("status")
         \/ \E y \in Nat : course.gives =
              (Server!put4("status", 0) \o <<Server!Put(Server!Text("yomi"), y)>>)
                 \o Server!return_jbiki(1, 1, 1)
  <2> DEFINE info(y) == (Server!put4("status", 0) \o <<Server!Put(Server!Text("yomi"), y)>>)
                           \o Server!return_jbiki(1, 1, 1)
             answers == {Server!error_ret("status")} \cup {info(y) : y \in 1 .. 2}
  <2>1. Server!js_word_info
          = Server!Courses(Server!envhandle(Server!Ints(<<"dic_no", "entry">>)), answers)
    BY DEF Server!js_word_info
  <2>2. Server!Table["JS_WORD_INFO"] = Server!js_word_info
    BY DEF Server!Table
  <2> HIDE DEF info
  <2>3. \A x \in answers : x = Server!error_ret("status") \/ \E y \in Nat : x = info(y)
    OBVIOUS
  <2> HIDE DEF answers
  <2>4. c = "JS_WORD_INFO" => course.gives \in answers
    BY <1>7, <2>1, <2>2
  <2>5. c = "JS_WORD_INFO" =>
           course.gives = Server!error_ret("status") \/ \E y \in Nat : course.gives = info(y)
    BY <2>3, <2>4
  <2> QED
    BY <2>5 DEF info
<1>12. c = "JS_HINSI_NAME" =>
         course.gives \in {Server!error_ret("size"),
                           Server!put4("size", 2) \o <<Server!Put(Server!Text("hinsi_name"), 2)>>}
  BY <1>7 DEF Server!Table, Server!js_hinsi_name
<1>13. c = "JS_HINSI_LIST" =>
         \/ course.gives = Server!error_ret("count")
         \/ \E n \in Nat : course.gives =
              (Server!put4("count", n) \o Server!put4("size", 2 * n))
                 \o [i \in 1 .. n |-> Server!Put(Server!Text("hinsi_name"), 1)]
  <2> DEFINE list(n) == (Server!put4("count", n) \o Server!put4("size", 2 * n))
                           \o [i \in 1 .. n |-> Server!Put(Server!Text("hinsi_name"), 1)]
             answers == {Server!error_ret("count")} \cup {list(n) : n \in 0 .. MaxItems}
             takes == Server!envhandle(<<Server!INT("dic_no"), Server!Text("hinsi_name")>>)
  <2>1. Server!js_hinsi_list = Server!Courses(takes, answers)
    BY DEF Server!js_hinsi_list, Server!HinsiSizes
  <2>2. Server!Table["JS_HINSI_LIST"] = Server!js_hinsi_list
    BY DEF Server!Table
  <2> HIDE DEF list, takes
  <2>3. \A x \in answers : x = Server!error_ret("count") \/ \E n \in Nat : x = list(n)
    BY <1>3
  <2> HIDE DEF answers
  <2>4. c = "JS_HINSI_LIST" => course.gives \in answers
    BY <1>7, <2>1, <2>2
  <2>5. c = "JS_HINSI_LIST" =>
           course.gives = Server!error_ret("count") \/ \E n \in Nat : course.gives = list(n)
    BY <2>3, <2>4
  <2> QED
    BY <2>5 DEF list
<1> QED
  BY <1>2, <1>8, <1>9, <1>10, <1>11, <1>12, <1>13

\* Every answer finds room.
LEMMA AnswerHasRoom ==
    ASSUME NEW c \in Allocating, NEW course \in Server!Table[c]
    PROVE  Room(c, Values(course.gives, Len(course.gives)))
<1> DEFINE g == course.gives
<1>1. g \in Seq(Filled) /\ Agrees(c, g)
  BY GivesWhat
<1>2. ASSUME NEW f \in Names, g = Server!error_ret(f),
             c \notin {"JS_WORD_SEARCH", "JS_WORD_SEARCH_BY_ENV"}
      PROVE  Room(c, Values(g, Len(g)))
  <2>1. c \in Client!DaiCalls \cup Client!ShoCalls \cup {"JS_WORD_INFO", "JS_HINSI_NAME", "JS_HINSI_LIST"}
    BY <1>2 DEF Allocating, Client!WordCalls
  <2> HIDE DEF g
  <2> QED
    BY <1>1, <1>2, <2>1, RefusalFits
<1>3. {"count", "status", "size"} \subseteq Names
  BY DEF Names
<1>4. CASE c \in Client!DaiCalls
  <2>1. c \notin {"JS_WORD_SEARCH", "JS_WORD_SEARCH_BY_ENV"}
    BY <1>4 DEF Client!DaiCalls
  <2>2. g = Server!error_ret("count") \/ \E dai \in Seq(Nat), f \in 0 .. 1 : g = Server!ret_dai(dai, 1, f)
    BY <1>4, GivesWhat
  <2> HIDE DEF g
  <2>3. ASSUME NEW dai \in Seq(Nat), NEW f \in 0 .. 1, g = Server!ret_dai(dai, 1, f)
        PROVE  Room(c, Values(g, Len(g)))
    BY <1>1, <1>4, <2>3, DaiFits
  <2> QED
    BY <1>2, <1>3, <2>1, <2>2, <2>3 DEF g
<1>5. CASE c \in Client!ShoCalls
  <2>1. c \notin {"JS_WORD_SEARCH", "JS_WORD_SEARCH_BY_ENV"}
    BY <1>5 DEF Client!ShoCalls
  <2>2. g = Server!error_ret("count") \/ \E n \in Nat, f \in 0 .. 1 : g = Server!ret_sho(n, 1, f)
    BY <1>5, GivesWhat
  <2> HIDE DEF g
  <2>3. ASSUME NEW n \in Nat, NEW f \in 0 .. 1, g = Server!ret_sho(n, 1, f)
        PROVE  Room(c, Values(g, Len(g)))
    BY <1>1, <1>5, <2>3, ShoFits
  <2> QED
    BY <1>2, <1>3, <2>1, <2>2, <2>3 DEF g
<1>6. CASE c \in {"JS_WORD_SEARCH", "JS_WORD_SEARCH_BY_ENV"}
  <2>1. PICK n \in Nat, k \in Nat, m \in Nat : g = Server!return_jbiki(n, k, m)
    BY <1>6, GivesWhat
  <2> HIDE DEF g
  <2>2. Room(c, Values(g, Len(g)))
    BY <1>1, <1>6, <2>1, WordsFit
  <2> QED
    BY <2>2 DEF g
<1>7. CASE c = "JS_WORD_INFO"
  <2> DEFINE info(y) == (Server!put4("status", 0) \o <<Server!Put(Server!Text("yomi"), y)>>)
                           \o Server!return_jbiki(1, 1, 1)
  <2>1. g = Server!error_ret("status") \/ \E y \in Nat : g = info(y)
    BY <1>7, GivesWhat
  <2>2. \A y \in Nat : info(y) \in Seq(Filled) /\ Agrees("JS_WORD_INFO", info(y)) =>
            Room("JS_WORD_INFO", Values(info(y), Len(info(y))))
    BY WordInfoFits
  <2> HIDE DEF g, info
  <2>3. ASSUME NEW y \in Nat, g = info(y)
        PROVE  Room(c, Values(g, Len(g)))
    BY <1>1, <1>7, <2>2, <2>3
  <2> QED
    BY <1>2, <1>3, <1>7, <2>1, <2>3 DEF g
<1>8. CASE c = "JS_HINSI_NAME"
  <2> DEFINE name == Server!put4("size", 2) \o <<Server!Put(Server!Text("hinsi_name"), 2)>>
  <2>1. g = Server!error_ret("size") \/ g = name
    BY <1>8, GivesWhat
  <2>2. name \in Seq(Filled) /\ Agrees("JS_HINSI_NAME", name) =>
            Room("JS_HINSI_NAME", Values(name, Len(name)))
    BY HinsiNameFits
  <2> HIDE DEF g, name
  <2>3. g = name => Room(c, Values(g, Len(g)))
    BY <1>1, <1>8, <2>2
  <2> QED
    BY <1>2, <1>3, <1>8, <2>1, <2>3 DEF g
<1>9. CASE c = "JS_HINSI_LIST"
  <2> DEFINE list(n) == (Server!put4("count", n) \o Server!put4("size", 2 * n))
                           \o [i \in 1 .. n |-> Server!Put(Server!Text("hinsi_name"), 1)]
  <2>1. g = Server!error_ret("count") \/ \E n \in Nat : g = list(n)
    BY <1>9, GivesWhat
  <2>2. \A n \in Nat : list(n) \in Seq(Filled) /\ Agrees("JS_HINSI_LIST", list(n)) =>
            Room("JS_HINSI_LIST", Values(list(n), Len(list(n))))
    BY HinsiListFits
  <2> HIDE DEF g, list
  <2>3. ASSUME NEW n \in Nat, g = list(n)
        PROVE  Room(c, Values(g, Len(g)))
    BY <1>1, <1>9, <2>2, <2>3
  <2> QED
    BY <1>2, <1>3, <1>9, <2>1, <2>3 DEF g
<1> QED
  BY <1>4, <1>5, <1>6, <1>7, <1>8, <1>9 DEF Allocating, Client!WordCalls

----------------------------------------------------------------------------
(***************************************************************************)
(* What has been read has room, also when the answer is astray.            *)
(***************************************************************************)
Fitting == HasReadAll /\ cl.cmd \in Allocating => Room(cl.cmd, cl.got)

\* While client and server are in step, an answer that has been read is one the
\* server gave.
LEMMA InStepFits ==
    ASSUME Typed, InStep, ~astray
    PROVE  Fitting
<1> SUFFICES ASSUME HasReadAll, cl.cmd \in Allocating
             PROVE  Room(cl.cmd, cl.got)
  BY DEF Fitting
<1>1. AnswerIsThere
  BY AnsweredRests
<1>2. PICK g \in Answers(cl.cmd) : cl.got = Values(g, ReadOf(cl.cmd, g))
  BY <1>1, AllRead
<1>3. cl.cmd \notin Transfers /\ cl.cmd # "JS_DISCONNECT"
  BY DEF Allocating, Transfers, Client!DaiCalls, Client!ShoCalls, Client!WordCalls
<1>4. PICK course \in Server!Table[cl.cmd] : g = course.gives
  BY <1>3 DEF Answers
<1>5. cl.got = Values(g, Len(g))
  BY <1>2, <1>3 DEF ReadOf
<1>6. Room(cl.cmd, Values(course.gives, Len(course.gives)))
  BY AnswerHasRoom
<1> QED
  BY <1>4, <1>5, <1>6

\* A step after which bytes are read as other fields than they were written as
\* does not end an answer.
LEMMA AstrayFits ==
    ASSUME Typed, InStep, Fitting, Next, astray'
    PROVE  Fitting'
<1>1. ~astray
  BY DEF Next, Call, ClientStep, ServerStep
<1>2. ASSUME cl'.pc # "answer"
      PROVE  Fitting'
  BY <1>2 DEF Fitting, HasReadAll
<1>3. ASSUME NEW c \in CommandNames, js_call(c)
      PROVE  Fitting'
  <2>1. cl'.cmd = c /\ cl'.got = <<>>
    BY <1>3 DEF js_call, Calls, Starts
  <2>2. Len(Reads(cl'.cmd, cl'.got)) > 0 /\ Len(<<>>) = 0
    BY <2>1, ReadsSome
  <2> QED
    BY <2>1, <2>2 DEF Fitting, HasReadAll
<1>4. ASSUME js_file_send \/ js_file_receive \/ file_loaded_local_fails
      PROVE  cl'.pc # "answer"
  <2>1. \A c, first : Starts(c, first) => cl'.pc = first
    BY DEF Starts
  <2>2. \A c, asks, first : Calls(c, asks, first) => Starts(c, first)
    BY DEF Calls
  <2>3. CASE js_file_send
    BY <2>1, <2>2, <2>3 DEF js_file_send
  <2>4. CASE js_file_receive
    BY <2>1, <2>2, <2>4 DEF js_file_receive
  <2>5. CASE file_loaded_local_fails
    BY <2>1, <2>5 DEF file_loaded_local_fails
  <2> QED
    BY <1>4, <2>3, <2>4, <2>5
<1>5. ASSUME js_return \/ put_file_fails
      PROVE  cl'.pc # "answer"
  <2>1. cl \in [pc : ClientReads, cmd : CommandNames \cup {"none"}, call : Nat,
                got : Seq(Value), dead : BOOLEAN]
    BY DEF Typed
  <2>2. ASSUME js_return
        PROVE  cl'.pc # "answer"
    <3> DEFINE dead == (cl.cmd = "JS_CLOSE")
    <3>1. cl' = [cl EXCEPT !.pc = "idle", !.got = <<>>, !.dead = dead]
      BY <2>2 DEF js_return
    <3> HIDE DEF dead
    <3> QED
      BY <2>1, <3>1
  <2>3. ASSUME put_file_fails
        PROVE  cl'.pc # "answer"
    BY <2>1, <2>3 DEF put_file_fails, Next_read
  <2> QED
    BY <1>5, <2>2, <2>3
<1>6. ASSUME read_file \/ get_arg \/ answer
      PROVE  Fitting'
  <2>1. cl' = cl
    BY <1>6 DEF read_file, get_arg, answer, ClientWaits
  <2> QED
    BY <2>1 DEF Fitting, HasReadAll
<1>7. CASE Call
  BY <1>2, <1>3, <1>4, <1>7 DEF Call
<1>8. CASE ClientStep
  BY <1>1, <1>2, <1>5, <1>8
     DEF ClientStep, recv, daemon_dead, get_field, get_loaded, get_may_send, put_file, get_name,
         get_mode, get_body, OnlyReads
<1>9. CASE ServerStep
  BY <1>1, <1>6, <1>9
     DEF ServerStep, get_client, rcv_1_client, do_command, file_send,
         file_send_name, file_receive, file_receive_ack, file_receive_mode, rcv_file
<1>10. CASE server_dies
  BY <1>1, <1>10 DEF server_dies
<1> QED
  BY <1>7, <1>8, <1>9, <1>10 DEF Next

\* The sums that the server sends ahead of an answer are enough room for all that
\* the client copies to the buffer that it allocates by them, in every course of
\* every command and for every number of words, phrases and class names: neither
\* getwscom nor wnn_Strcpy in js.c runs over the end of what re_alloc gave.
THEOREM AnswersFit == Spec => []AnswerFits
<1>1. Init => Typed /\ InStep /\ Fitting
  <2> SUFFICES ASSUME Init PROVE Typed /\ InStep /\ Fitting
    OBVIOUS
  <2>1. ~HasReadAll
    BY DEF Init, HasReadAll
  <2> QED
    BY <2>1, InitInStep DEF Fitting
<1>2. Typed /\ InStep /\ Fitting /\ [Next]_vars => (Typed /\ InStep)' /\ (astray' => Fitting')
  <2> SUFFICES ASSUME Typed, InStep, Fitting, [Next]_vars
               PROVE  Typed' /\ InStep' /\ (astray' => Fitting')
    OBVIOUS
  <2>1. Typed' /\ InStep'
    BY NextInStep, StutterInStep
  <2>2. CASE UNCHANGED vars
    BY <2>1, <2>2 DEF vars, Fitting, HasReadAll
  <2>3. CASE Next
    BY <2>1, <2>3, AstrayFits
  <2> QED
    BY <2>2, <2>3
<1>3. Typed /\ InStep /\ ~astray => Fitting
  BY InStepFits
<1>4. Fitting => AnswerFits
  BY DEF Fitting, AnswerFits, Room, Allocating
<1> QED
  BY <1>1, <1>2, <1>3, <1>4, PTL DEF Spec
=============================================================================
