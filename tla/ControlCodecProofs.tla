-------------------------- MODULE ControlCodecProofs --------------------------
(***************************************************************************)
(* Proofs about ControlCodec: what either side makes of the bytes is what  *)
(* the other meant.  In order: fields, and bytes that hold them; commands, *)
(* and what dinit reads in each; replies, how much of each is read and     *)
(* what is made of it; information packets; the environment block and the  *)
(* directories, texts of any number; whole packets in a row (Flat) with    *)
(* what they say (Said); a packet partly read (Waiting); what the client   *)
(* is owed (Owed) and what it has of a list (Collected); the inductive     *)
(* invariant IInv, kept by the client's steps and by the daemon's.         *)
(***************************************************************************)
EXTENDS ControlCodec, SequenceInduction

-----------------------------------------------------------------------------
(* Fields of bytes.                                                        *)

\* What a field holds, a byte, and a field.
Things == Nat \union Texts \union {None}
Byte == [of : Things, part : Nat, size : Nat]
Field == Things \X Nat

(* The n bytes after the first `at' of b are the whole of a field with x. *)
Holds(b, at, x, n) ==
  /\ at + n <= Len(b)
  /\ \A i \in 1 .. n : b[at + i] = [of |-> x, part |-> i, size |-> n]

LEMMA BytesType ==
  ASSUME NEW x \in Things, NEW n \in Nat
  PROVE  Bytes(x, n) \in Seq(Byte) /\ Len(Bytes(x, n)) = n /\ Holds(Bytes(x, n), 0, x, n)
<1>1. Bytes(x, n) \in [1 .. n -> Byte]
  BY DEF Bytes, Byte
<1>2. Bytes(x, n) \in Seq(Byte) /\ Len(Bytes(x, n)) = n
  BY <1>1
<1>3. \A i \in 1 .. n : Bytes(x, n)[0 + i] = [of |-> x, part |-> i, size |-> n]
  BY DEF Bytes
<1>. QED
  BY <1>2, <1>3 DEF Holds

LEMMA HoldsMore ==
  ASSUME NEW b \in Seq(Byte), NEW c \in Seq(Byte), NEW at \in Nat, NEW n \in Nat, NEW x, Holds(b, at, x, n)
  PROVE  Holds(b \o c, at, x, n)
<1>1. /\ Len(b \o c) = Len(b) + Len(c) /\ Len(b) \in Nat /\ Len(c) \in Nat
      /\ \A i \in 1 .. Len(b) : (b \o c)[i] = b[i]
  BY ConcatProperties, LenProperties
<1>2. at + n <= Len(b) /\ \A i \in 1 .. n : b[at + i] = [of |-> x, part |-> i, size |-> n]
  BY DEF Holds
<1>3. \A i \in 1 .. n : at + i \in 1 .. Len(b)
  BY <1>1, <1>2
<1>4. \A i \in 1 .. n : (b \o c)[at + i] = [of |-> x, part |-> i, size |-> n]
  BY <1>1, <1>2, <1>3
<1>5. at + n <= Len(b \o c)
  BY <1>1, <1>2
<1>. QED
  BY <1>4, <1>5 DEF Holds

LEMMA HoldsBehind ==
  ASSUME NEW b \in Seq(Byte), NEW c \in Seq(Byte), NEW at \in Nat, NEW n \in Nat, NEW x, Holds(c, at, x, n)
  PROVE  Holds(b \o c, Len(b) + at, x, n)
<1>1. /\ Len(b \o c) = Len(b) + Len(c) /\ Len(b) \in Nat /\ Len(c) \in Nat
      /\ \A i \in 1 .. Len(c) : (b \o c)[Len(b) + i] = c[i]
  BY ConcatProperties, LenProperties
<1>2. at + n <= Len(c) /\ \A i \in 1 .. n : c[at + i] = [of |-> x, part |-> i, size |-> n]
  BY DEF Holds
<1>3. ASSUME NEW i \in 1 .. n PROVE (b \o c)[(Len(b) + at) + i] = [of |-> x, part |-> i, size |-> n]
  <2>1. at + i \in 1 .. Len(c) /\ (Len(b) + at) + i = Len(b) + (at + i)
    BY <1>1, <1>2
  <2>2. (b \o c)[Len(b) + (at + i)] = c[at + i]
    BY <1>1, <2>1
  <2>. QED
    BY <1>2, <2>1, <2>2
<1>4. (Len(b) + at) + n <= Len(b \o c)
  BY <1>1, <1>2
<1>. QED
  BY <1>3, <1>4 DEF Holds

LEMMA HoldsIn ==
  ASSUME NEW b \in Seq(Byte), NEW at \in Nat, NEW n \in Nat, NEW x, Holds(b, at, x, n),
         NEW k \in Nat, at + n <= k, k <= Len(b)
  PROVE  Holds(SubSeq(b, 1, k), at, x, n)
<1>1. Len(SubSeq(b, 1, k)) = k /\ \A i \in 1 .. k : SubSeq(b, 1, k)[i] = b[i]
  BY LenProperties
<1>2. \A i \in 1 .. n : at + i \in 1 .. k
  OBVIOUS
<1>. QED
  BY <1>1, <1>2 DEF Holds

(* What a field holds is what is read of it. *)
LEMMA ValueRead ==
  ASSUME NEW b, NEW at \in Nat, NEW n \in Nat, n > 0, NEW x, Holds(b, at, x, n)
  PROVE  Value(b, at, n) = x /\ (x \in Nat => Number(b, at, n) = x)
<1>1. b[at + 1] = [of |-> x, part |-> 1, size |-> n]
  BY 1 \in 1 .. n DEF Holds
<1>2. b[at + 1].of = x
  BY <1>1
<1>3. Value(b, at, n) = x
  BY <1>2 DEF Value, Holds
<1>. QED
  BY <1>3 DEF Number

LEMMA NothingRead ==
  ASSUME NEW b, NEW at PROVE Value(b, at, 0) = None
BY DEF Value

-----------------------------------------------------------------------------
(* Fields packed one after the other.                                      *)

Packed == [f \in Field |-> Bytes(f[1], f[2])]

LEMMA PackedType == Packed \in [Field -> Seq(Byte)] /\ \A f \in Field : Packed[f] = Bytes(f[1], f[2])
<1>1. \A f \in Field : f[1] \in Things /\ f[2] \in Nat
  BY DEF Field
<1>2. \A f \in Field : Bytes(f[1], f[2]) \in Seq(Byte)
  BY <1>1, BytesType
<1>. QED
  BY <1>2 DEF Packed

LEMMA PackIsJoined ==
  ASSUME NEW fields \in Seq(Field)
  PROVE  Pack(fields) = Joined(Packed, fields)
<1>1. \A i \in DOMAIN fields : fields[i] \in Field
  OBVIOUS
<1>2. [i \in DOMAIN fields |-> Bytes(fields[i][1], fields[i][2])] = Mapped(Packed, fields)
  BY <1>1, PackedType DEF Mapped
<1>. QED
  BY <1>2 DEF Pack, Joined

LEMMA PackNothing == Pack(<< >>) = << >>
<1>1. << >> \in Seq(Field)
  OBVIOUS
<1>. QED
  BY <1>1, PackIsJoined, JoinedNothing

LEMMA PackType ==
  ASSUME NEW fields \in Seq(Field) PROVE Pack(fields) \in Seq(Byte)
BY PackIsJoined, PackedType, JoinedType

LEMMA PackMore ==
  ASSUME NEW fields \in Seq(Field), NEW f \in Field
  PROVE  Pack(Append(fields, f)) = Pack(fields) \o Bytes(f[1], f[2])
<1>1. Append(fields, f) \in Seq(Field)
  BY AppendProperties
<1>2. Joined(Packed, Append(fields, f)) = Joined(Packed, fields) \o Packed[f]
  BY PackedType, JoinedMore
<1>. QED
  BY <1>1, <1>2, PackIsJoined, PackedType

LEMMA PackConcat ==
  ASSUME NEW f \in Seq(Field), NEW g \in Seq(Field)
  PROVE  Pack(f \o g) = Pack(f) \o Pack(g)
<1>1. f \o g \in Seq(Field)
  BY ConcatProperties
<1>2. Joined(Packed, f \o g) = Joined(Packed, f) \o Joined(Packed, g)
  BY PackedType, JoinedConcat, SMTT(40)
<1>. QED
  BY <1>1, <1>2, PackIsJoined

(* The numbers `at' are where the fields begin, and where the last one ends. *)
Offsets(fields, at) ==
  at[1] = 0 /\ \A i \in 1 .. Len(fields) : at[i] \in Nat /\ at[i + 1] = at[i] + fields[i][2]

LEMMA PackLaidAll ==
  \A fields \in Seq(Field) : \A at : Offsets(fields, at) =>
     /\ Len(Pack(fields)) = at[Len(fields) + 1]
     /\ \A i \in 1 .. Len(fields) : Holds(Pack(fields), at[i], fields[i][1], fields[i][2])
<1>. DEFINE Laid(fields, at) == 
                /\ Len(Pack(fields)) = at[Len(fields) + 1]
                /\ \A i \in 1 .. Len(fields) : Holds(Pack(fields), at[i], fields[i][1], fields[i][2])
            T == {fields \in Seq(Field) : \A at : Offsets(fields, at) => Laid(fields, at)}
<1>1. << >> \in T
  BY PackNothing, EmptySeq DEF Offsets
<1>2. ASSUME NEW fields \in Seq(Field), NEW f \in Field, fields \in T PROVE Append(fields, f) \in T
  <2>. DEFINE more == Append(fields, f)
              n == Len(fields)
  <2>1. /\ more \in Seq(Field) /\ n \in Nat /\ Len(more) = n + 1 /\ more[n + 1] = f
        /\ \A i \in 1 .. n : more[i] = fields[i] /\ fields[i] \in Field
    BY AppendProperties, LenProperties
  <2>2. f[1] \in Things /\ f[2] \in Nat /\ \A i \in 1 .. n : fields[i][1] \in Things /\ fields[i][2] \in Nat
    BY <2>1 DEF Field
  <2>3. Pack(more) = Pack(fields) \o Bytes(f[1], f[2]) /\ Pack(fields) \in Seq(Byte)
    BY PackMore, PackType
  <2>4. /\ Bytes(f[1], f[2]) \in Seq(Byte) /\ Len(Bytes(f[1], f[2])) = f[2]
        /\ Holds(Bytes(f[1], f[2]), 0, f[1], f[2])
    BY <2>2, BytesType
  <2>. HIDE DEF more
  <2>5. ASSUME NEW at, Offsets(more, at) PROVE Laid(more, at)
    <3>1. /\ at[1] = 0 /\ at[n + 1] \in Nat /\ at[(n + 1) + 1] = at[n + 1] + f[2]
          /\ \A i \in 1 .. n : at[i] \in Nat /\ at[i + 1] = at[i] + fields[i][2]
      BY <2>1, <2>5 DEF Offsets
    <3>2. Offsets(fields, at)
      BY <3>1 DEF Offsets
    <3>3. Len(Pack(fields)) = at[n + 1] /\ \A i \in 1 .. n : Holds(Pack(fields), at[i], fields[i][1], fields[i][2])
      BY <1>2, <3>2
    <3>4. Len(Pack(more)) = at[n + 1] + f[2]
      BY <2>3, <2>4, <3>3, ConcatProperties, SMTT(40)
    <3>5. \A i \in 1 .. n : Holds(Pack(more), at[i], fields[i][1], fields[i][2])
      BY <2>2, <2>3, <2>4, <3>1, <3>3, HoldsMore, SMTT(40)
    <3>6. Holds(Pack(more), at[n + 1] + 0, f[1], f[2])
      <4>1. Holds(Pack(fields) \o Bytes(f[1], f[2]), Len(Pack(fields)) + 0, f[1], f[2])
        BY <2>2, <2>3, <2>4, HoldsBehind
      <4>. QED
        BY <2>3, <3>3, <4>1
    <3>7. at[n + 1] + 0 = at[n + 1]
      BY <3>1
    <3>8. \A i \in 1 .. n + 1 : Holds(Pack(more), at[i], more[i][1], more[i][2])
      BY <2>1, <3>5, <3>6, <3>7
    <3>. QED
      BY <2>1, <3>1, <3>4, <3>8
  <2>. QED
    BY <2>1, <2>5 DEF more
<1>. HIDE DEF T
<1>3. Seq(Field) \subseteq T
  BY <1>1, <1>2, SeqInduct
<1>. QED
  BY <1>3 DEF T

(* The fields begin where the sizes of those before them say. *)
LEMMA PackLaid ==
  ASSUME NEW fields \in Seq(Field), NEW at, Offsets(fields, at)
  PROVE  /\ Len(Pack(fields)) = at[Len(fields) + 1]
         /\ \A i \in 1 .. Len(fields) : Holds(Pack(fields), at[i], fields[i][1], fields[i][2])
BY PackLaidAll

-----------------------------------------------------------------------------
(* The constants.                                                          *)

LEMMA ConstantsTyped ==
  /\ Versions \subseteq Nat \ {0} /\ LongSize \in Nat /\ LongSize > 0 /\ MaxInfo \in Nat /\ Most \in Nat
  /\ None \notin Nat /\ None \notin Texts /\ None \notin Requests /\ None \notin Commanded /\ 0 \notin Texts
  /\ Services \subseteq Texts /\ Services # {} /\ Found \subseteq Statuses
  /\ \A t \in Texts : Size[t] \in Nat /\ Size[t] > 0
  /\ \A s \in Services : Handle[s] \in Nat
  /\ \A s, t \in Services : Handle[s] = Handle[t] => s = t
  /\ SizeT = LongSize /\ IntSize = 4
BY CodecAssumption DEF IsInjective, SizeT, IntSize

LEMMA StatusTyped ==
  ASSUME NEW c \in Statuses
  PROVE  /\ c = [state |-> c.state, target |-> c.target, active |-> c.active, reason |-> c.reason, how |-> c.how,
                 stage |-> c.stage, first |-> c.first, second |-> c.second, changed |-> c.changed]
         /\ c.state \in Range(ServiceState) /\ c.target \in Range(ServiceState) /\ c.active \in BOOLEAN
         /\ c.reason \in Range(StoppedReason) /\ c.how \in {"pid", "exit", "exec"}
         /\ c.first \in Nat /\ c.second \in Nat /\ c.changed \in Nat
         /\ c.how = "exec" <=> c.reason = "EXECFAILED"
         /\ IF c.how = "exec" THEN c.stage \in Nat ELSE c.stage = None
<1>1. c \in Conditions
  BY CodecAssumption
<1>2. /\ c = [state |-> c.state, target |-> c.target, active |-> c.active, reason |-> c.reason, how |-> c.how,
              stage |-> c.stage, first |-> c.first, second |-> c.second, changed |-> c.changed]
      /\ c.state \in Range(ServiceState) /\ c.target \in Range(ServiceState) /\ c.active \in BOOLEAN
      /\ c.reason \in Range(StoppedReason) /\ c.how \in {"pid", "exit", "exec"} /\ c.first \in Nat
  BY <1>1 DEF Conditions
<1>3. /\ c.second \in Nat /\ c.changed \in Nat
      /\ IF c.reason = "EXECFAILED" THEN c.how = "exec" /\ c.stage \in Nat ELSE c.how # "exec" /\ c.stage = None
  BY CodecAssumption
<1>. QED
  BY <1>2, <1>3

(* A member of an enumeration is read back from its number. *)
LEMMA EnumRead ==
  ASSUME NEW enum, NEW n \in Nat, DOMAIN enum = 1 .. n, Len(enum) = n, NEW x \in Range(enum)
  PROVE  Code(enum, x) \in Nat /\ Member(enum, Code(enum, x)) = x
<1>1. PICK i \in 1 .. n : enum[i] = x
  BY DEF Range
<1>2. i - 1 \in 0 .. n - 1 /\ enum[(i - 1) + 1] = x
  BY <1>1
<1>3. Code(enum, x) \in 0 .. n - 1 /\ enum[Code(enum, x) + 1] = x
  BY <1>2 DEF Code
<1>. QED
  BY <1>3 DEF Member

LEMMA EnumsRead ==
  /\ \A x \in Range(ServiceState) : Code(ServiceState, x) \in Nat /\ Member(ServiceState, Code(ServiceState, x)) = x
  /\ \A x \in Range(StoppedReason) : Code(StoppedReason, x) \in Nat /\ Member(StoppedReason, Code(StoppedReason, x)) = x
  /\ \A x \in Range(ServiceEvent) : Code(ServiceEvent, x) \in Nat /\ Member(ServiceEvent, Code(ServiceEvent, x)) = x
  /\ Code(LoaderType, "DIRLOAD") \in Nat /\ Member(LoaderType, Code(LoaderType, "DIRLOAD")) = "DIRLOAD"
<1>1. /\ DOMAIN ServiceState = 1 .. 4 /\ Len(ServiceState) = 4
      /\ DOMAIN StoppedReason = 1 .. 7 /\ Len(StoppedReason) = 7
      /\ DOMAIN ServiceEvent = 1 .. 5 /\ Len(ServiceEvent) = 5
      /\ DOMAIN LoaderType = 1 .. 2 /\ Len(LoaderType) = 2
  BY DEF ServiceState, StoppedReason, ServiceEvent, LoaderType
<1>2. "DIRLOAD" \in Range(LoaderType)
  BY 2 \in 1 .. 2 DEF LoaderType, Range
<1>3. 4 \in Nat /\ 7 \in Nat /\ 5 \in Nat /\ 2 \in Nat
  OBVIOUS
<1>4. \A x \in Range(ServiceState) : Code(ServiceState, x) \in Nat /\ Member(ServiceState, Code(ServiceState, x)) = x
  BY <1>1, <1>3, EnumRead
<1>5. \A x \in Range(StoppedReason) : Code(StoppedReason, x) \in Nat /\ Member(StoppedReason, Code(StoppedReason, x)) = x
  BY <1>1, <1>3, EnumRead
<1>6. \A x \in Range(ServiceEvent) : Code(ServiceEvent, x) \in Nat /\ Member(ServiceEvent, Code(ServiceEvent, x)) = x
  BY <1>1, <1>3, EnumRead
<1>7. Code(LoaderType, "DIRLOAD") \in Nat /\ Member(LoaderType, Code(LoaderType, "DIRLOAD")) = "DIRLOAD"
  BY <1>1, <1>2, <1>3, EnumRead
<1>. QED
  BY <1>4, <1>5, <1>6, <1>7

-----------------------------------------------------------------------------
(* The condition of a service in the layout of a version.                  *)

StageOf(c) == IF c.how = "exec" THEN c.stage ELSE 0
FlagsOf(c) == (IF c.how = "pid" THEN FLAG_HAS_PID ELSE 0) + (IF c.active THEN FLAG_MARKED_ACTIVE ELSE 0)
First(c) ==
  <<<<Code(ServiceState, c.state), 1>>, <<Code(ServiceState, c.target), 1>>, <<FlagsOf(c), 1>>,
    <<Code(StoppedReason, c.reason), 1>>, <<StageOf(c), 2>>, <<c.first, IntSize>>>>
Second(c, v) == IF v >= 5 THEN <<<<c.second, IntSize>>>> ELSE << >>
Third(c, v) == IF v >= 6 THEN <<<<c.changed, LongSize>>, <<0, LongSize>>>> ELSE << >>

LEMMA FlagsRead ==
  ASSUME NEW c \in Statuses
  PROVE  /\ FlagsOf(c) \in Nat
         /\ IsSet(FlagsOf(c), FLAG_HAS_PID) <=> c.how = "pid"
         /\ IsSet(FlagsOf(c), FLAG_MARKED_ACTIVE) <=> c.active
<1>1. FlagsOf(c) = (IF c.how = "pid" THEN 16 ELSE 0) + (IF c.active THEN 8 ELSE 0)
  BY DEF FlagsOf, FLAG_HAS_PID, FLAG_MARKED_ACTIVE
<1>2. CASE c.how = "pid" /\ c.active
  <2>1. FlagsOf(c) = 24
    BY <1>1, <1>2
  <2>. QED
    BY <1>2, <2>1 DEF IsSet, FLAG_HAS_PID, FLAG_MARKED_ACTIVE
<1>3. CASE c.how = "pid" /\ ~ c.active
  <2>1. FlagsOf(c) = 16
    BY <1>1, <1>3
  <2>. QED
    BY <1>3, <2>1 DEF IsSet, FLAG_HAS_PID, FLAG_MARKED_ACTIVE
<1>4. CASE c.how # "pid" /\ c.active
  <2>1. FlagsOf(c) = 8
    BY <1>1, <1>4
  <2>. QED
    BY <1>4, <2>1 DEF IsSet, FLAG_HAS_PID, FLAG_MARKED_ACTIVE
<1>5. CASE c.how # "pid" /\ ~ c.active
  <2>1. FlagsOf(c) = 0
    BY <1>1, <1>5
  <2>. QED
    BY <1>5, <2>1 DEF IsSet, FLAG_HAS_PID, FLAG_MARKED_ACTIVE
<1>. QED
  BY <1>2, <1>3, <1>4, <1>5

LEMMA LayoutTyped ==
  ASSUME NEW c \in Statuses, NEW v \in Nat
  PROVE  /\ First(c) \in Seq(Field) /\ Second(c, v) \in Seq(Field) /\ Third(c, v) \in Seq(Field)
         /\ Layout(c, v) \in Seq(Field)
         /\ Pack(Layout(c, v)) = (Pack(First(c)) \o Pack(Second(c, v))) \o Pack(Third(c, v))
<1>1. /\ Code(ServiceState, c.state) \in Nat /\ Code(ServiceState, c.target) \in Nat
      /\ Code(StoppedReason, c.reason) \in Nat /\ FlagsOf(c) \in Nat /\ StageOf(c) \in Nat
      /\ c.first \in Nat /\ c.second \in Nat /\ c.changed \in Nat
  BY StatusTyped, EnumsRead, FlagsRead DEF StageOf
<1>2. \A x \in Nat, n \in Nat : <<x, n>> \in Field
  BY DEF Field, Things
<1>3. 1 \in Nat /\ 2 \in Nat /\ IntSize \in Nat /\ LongSize \in Nat /\ 0 \in Nat
  BY ConstantsTyped
<1>4. First(c) \in Seq(Field)
  BY <1>1, <1>2, <1>3 DEF First
<1>5. Second(c, v) \in Seq(Field)
  BY <1>1, <1>2, <1>3 DEF Second
<1>6. Third(c, v) \in Seq(Field)
  BY <1>1, <1>2, <1>3 DEF Third
<1>7. Layout(c, v) = (First(c) \o Second(c, v)) \o Third(c, v)
  BY DEF Layout, First, Second, Third, FlagsOf, StageOf
<1>8. First(c) \o Second(c, v) \in Seq(Field)
  BY <1>4, <1>5, ConcatProperties
<1>9. Layout(c, v) \in Seq(Field)
  BY <1>6, <1>7, <1>8, ConcatProperties
<1>10. Pack(Layout(c, v)) = Pack(First(c) \o Second(c, v)) \o Pack(Third(c, v))
  BY <1>6, <1>7, <1>8, PackConcat
<1>11. Pack(First(c) \o Second(c, v)) = Pack(First(c)) \o Pack(Second(c, v))
  BY <1>4, <1>5, PackConcat
<1>. QED
  BY <1>4, <1>5, <1>6, <1>9, <1>10, <1>11

LEMMA StatusHolds ==
  ASSUME NEW c \in Statuses, NEW v \in Nat, NEW b, b = Pack(Layout(c, v))
  PROVE  /\ b \in Seq(Byte) /\ Len(b) = StatusSize(v)
         /\ Holds(b, 0, Code(ServiceState, c.state), 1) /\ Holds(b, 1, Code(ServiceState, c.target), 1)
         /\ Holds(b, 2, FlagsOf(c), 1) /\ Holds(b, 3, Code(StoppedReason, c.reason), 1)
         /\ Holds(b, 4, StageOf(c), 2) /\ Holds(b, 6, c.first, 4)
         /\ v >= 5 => Holds(b, 10, c.second, 4)
         /\ v >= 6 => Holds(b, StatusSize(5), c.changed, LongSize)
<1>. DEFINE x == Pack(First(c))
            y == Pack(Second(c, v))
            z == Pack(Third(c, v))
<1>0. x \in Seq(Byte) /\ y \in Seq(Byte) /\ z \in Seq(Byte) /\ b = (x \o y) \o z
  BY LayoutTyped, PackType
<1>1. /\ Len(x) = 10
      /\ Holds(x, 0, Code(ServiceState, c.state), 1) /\ Holds(x, 1, Code(ServiceState, c.target), 1)
      /\ Holds(x, 2, FlagsOf(c), 1) /\ Holds(x, 3, Code(StoppedReason, c.reason), 1)
      /\ Holds(x, 4, StageOf(c), 2) /\ Holds(x, 6, c.first, 4)
  <2>. DEFINE f == First(c)
              at == <<0, 1, 2, 3, 4, 6, 10>>
  <2>1. /\ Len(f) = 6 /\ f[1] = <<Code(ServiceState, c.state), 1>> /\ f[2] = <<Code(ServiceState, c.target), 1>>
        /\ f[3] = <<FlagsOf(c), 1>> /\ f[4] = <<Code(StoppedReason, c.reason), 1>> /\ f[5] = <<StageOf(c), 2>>
        /\ f[6] = <<c.first, 4>>
    BY DEF First, IntSize
  <2>2. f \in Seq(Field)
    BY LayoutTyped
  <2>6. at[7] = 10 /\ at[1] = 0 /\ at[2] = 1 /\ at[3] = 2 /\ at[4] = 3 /\ at[5] = 4 /\ at[6] = 6
    OBVIOUS
  <2>. HIDE DEF f
  <2>3. Offsets(f, at)
    BY <2>1 DEF Offsets
  <2>. HIDE DEF at
  <2>7. Len(Pack(f)) = at[Len(f) + 1] /\ \A i \in 1 .. Len(f) : Holds(Pack(f), at[i], f[i][1], f[i][2])
    BY <2>2, <2>3, PackLaid
  <2>4. Len(Pack(f)) = at[7] /\ \A i \in 1 .. 6 : Holds(Pack(f), at[i], f[i][1], f[i][2])
    BY <2>1, <2>7
  <2>5. /\ Len(Pack(f)) = 10 /\ Holds(Pack(f), at[1], f[1][1], f[1][2]) /\ Holds(Pack(f), at[2], f[2][1], f[2][2])
        /\ Holds(Pack(f), at[3], f[3][1], f[3][2]) /\ Holds(Pack(f), at[4], f[4][1], f[4][2])
        /\ Holds(Pack(f), at[5], f[5][1], f[5][2]) /\ Holds(Pack(f), at[6], f[6][1], f[6][2])
    BY <2>4, <2>6
  <2>. QED
    BY <2>1, <2>5, <2>6 DEF f
<1>2. IF v >= 5 THEN Len(y) = 4 /\ Holds(y, 0, c.second, 4) ELSE y = << >>
  <2>1. CASE v >= 5
    <3>. DEFINE f == <<<<c.second, 4>>>>
                at == <<0, 4>>
    <3>1. f = Second(c, v) /\ f \in Seq(Field)
      BY <2>1, LayoutTyped DEF Second, IntSize
    <3>2. Offsets(f, at)
      BY DEF Offsets
    <3>3. Len(f) = 1 /\ f[1][1] = c.second /\ f[1][2] = 4 /\ at[1] = 0 /\ at[2] = 4
      OBVIOUS
    <3>. HIDE DEF f, at
    <3>5. Len(Pack(f)) = at[Len(f) + 1] /\ \A i \in 1 .. Len(f) : Holds(Pack(f), at[i], f[i][1], f[i][2])
      BY <3>1, <3>2, PackLaid
    <3>4. Len(Pack(f)) = at[2] /\ Holds(Pack(f), at[1], f[1][1], f[1][2])
      BY <3>3, <3>5
    <3>. QED
      BY <2>1, <3>1, <3>3, <3>4
  <2>2. CASE ~(v >= 5)
    BY <2>2, PackNothing DEF Second
  <2>. QED
    BY <2>1, <2>2
<1>3. IF v >= 6 THEN Len(z) = 2 * LongSize /\ Holds(z, 0, c.changed, LongSize) ELSE z = << >>
  <2>1. CASE v >= 6
    <3>. DEFINE f == <<<<c.changed, LongSize>>, <<0, LongSize>>>>
                at == <<0, LongSize, LongSize + LongSize>>
    <3>1. f = Third(c, v) /\ f \in Seq(Field)
      BY <2>1, LayoutTyped DEF Third
    <3>2. Offsets(f, at)
      BY ConstantsTyped DEF Offsets
    <3>3. /\ Len(f) = 2 /\ f[1][1] = c.changed /\ f[1][2] = LongSize /\ at[1] = 0 /\ at[3] = 2 * LongSize
      BY ConstantsTyped
    <3>. HIDE DEF f, at
    <3>5. Len(Pack(f)) = at[Len(f) + 1] /\ \A i \in 1 .. Len(f) : Holds(Pack(f), at[i], f[i][1], f[i][2])
      BY <3>1, <3>2, PackLaid
    <3>4. Len(Pack(f)) = at[3] /\ Holds(Pack(f), at[1], f[1][1], f[1][2])
      BY <3>3, <3>5
    <3>. QED
      BY <2>1, <3>1, <3>3, <3>4
  <2>2. CASE ~(v >= 6)
    BY <2>2, PackNothing DEF Third
  <2>. QED
    BY <2>1, <2>2
<1>. HIDE DEF x, y, z
<1>4. x \o y \in Seq(Byte) /\ b \in Seq(Byte) /\ Len(x \o y) = Len(x) + Len(y) /\ Len(b) = Len(x \o y) + Len(z)
  BY <1>0, ConcatProperties
<1>5. Len(b) = StatusSize(v)
  <2>1. Len(y) = (IF v >= 5 THEN 4 ELSE 0) /\ Len(z) = (IF v >= 6 THEN 2 * LongSize ELSE 0)
    BY <1>2, <1>3, EmptySeq
  <2>. QED
    BY <1>1, <1>4, <2>1, ConstantsTyped DEF StatusSize, IntSize
<1>6. ASSUME NEW at \in Nat, NEW n \in Nat, NEW w, Holds(x, at, w, n) PROVE Holds(b, at, w, n)
  <2>1. Holds(x \o y, at, w, n)
    BY <1>0, <1>6, HoldsMore
  <2>. QED
    BY <1>0, <1>4, <2>1, HoldsMore
<1>7. ASSUME v >= 5 PROVE Holds(b, 10, c.second, 4)
  <2>1. Holds(x \o y, Len(x) + 0, c.second, 4)
    BY <1>0, <1>2, <1>7, HoldsBehind
  <2>2. Holds(x \o y, 10, c.second, 4)
    BY <1>1, <2>1
  <2>. QED
    BY <1>0, <1>4, <2>2, HoldsMore
<1>8. ASSUME v >= 6 PROVE Holds(b, StatusSize(5), c.changed, LongSize)
  <2>1. Holds((x \o y) \o z, Len(x \o y) + 0, c.changed, LongSize)
    BY <1>0, <1>3, <1>4, <1>8, ConstantsTyped, HoldsBehind
  <2>2. Len(x \o y) + 0 = StatusSize(5)
    <3>1. v >= 5
      BY <1>8
    <3>2. StatusSize(5) = 14
      BY DEF StatusSize, IntSize
    <3>3. Len(x \o y) = Len(x) + Len(y) /\ Len(x) = 10 /\ Len(y) = 4
      BY <1>1, <1>2, <1>4, <3>1
    <3>. QED
      BY <3>2, <3>3
  <2>. QED
    BY <1>0, <2>1, <2>2
<1>9. /\ Holds(b, 0, Code(ServiceState, c.state), 1) /\ Holds(b, 1, Code(ServiceState, c.target), 1)
      /\ Holds(b, 2, FlagsOf(c), 1) /\ Holds(b, 3, Code(StoppedReason, c.reason), 1)
      /\ Holds(b, 4, StageOf(c), 2) /\ Holds(b, 6, c.first, 4)
  BY <1>1, <1>6
<1>. QED
  BY <1>4, <1>5, <1>7, <1>8, <1>9

(* A condition is decoded to what its layout tells of it. *)
LEMMA StatusRead ==
  ASSUME NEW c \in Statuses, NEW v \in Nat
  PROVE  DecodeStatus(Pack(Layout(c, v)), v) = Told(c, v)
<1>. DEFINE b == Pack(Layout(c, v))
            d == DecodeStatus(b, v)
<1>0. /\ Code(ServiceState, c.state) \in Nat /\ Code(ServiceState, c.target) \in Nat
      /\ Code(StoppedReason, c.reason) \in Nat /\ FlagsOf(c) \in Nat /\ StageOf(c) \in Nat
      /\ c.first \in Nat /\ c.second \in Nat /\ c.changed \in Nat
      /\ StatusSize(5) \in Nat
  BY StatusTyped, EnumsRead, FlagsRead DEF StageOf, StatusSize, IntSize
<1>11. /\ Holds(b, 0, Code(ServiceState, c.state), 1) /\ Holds(b, 1, Code(ServiceState, c.target), 1)
       /\ Holds(b, 2, FlagsOf(c), 1) /\ Holds(b, 3, Code(StoppedReason, c.reason), 1)
       /\ Holds(b, 4, StageOf(c), 2) /\ Holds(b, 6, c.first, 4)
       /\ v >= 5 => Holds(b, 10, c.second, 4)
       /\ v >= 6 => Holds(b, StatusSize(5), c.changed, LongSize)
  BY StatusHolds
<1>. HIDE DEF b
<1>12. \A at, n, x \in Nat : n > 0 /\ Holds(b, at, x, n) => Number(b, at, n) = x
  BY ValueRead
<1>1. /\ Number(b, 0, 1) = Code(ServiceState, c.state) /\ Number(b, 1, 1) = Code(ServiceState, c.target)
      /\ Number(b, 2, 1) = FlagsOf(c) /\ Number(b, 3, 1) = Code(StoppedReason, c.reason)
      /\ Number(b, 4, 2) = StageOf(c) /\ Number(b, 6, IntSize) = c.first
  BY <1>0, <1>11, <1>12 DEF IntSize
<1>2. v >= 5 => Number(b, 10, IntSize) = c.second
  BY <1>0, <1>11, <1>12 DEF IntSize
<1>3. v >= 6 => Number(b, StatusSize(5), LongSize) = c.changed
  BY <1>0, <1>11, <1>12, ConstantsTyped
<1>4. /\ Member(ServiceState, Number(b, 0, 1)) = c.state /\ Member(ServiceState, Number(b, 1, 1)) = c.target
      /\ Member(StoppedReason, Number(b, 3, 1)) = c.reason
  BY <1>1, StatusTyped, EnumsRead
<1>5. /\ IsSet(Number(b, 2, 1), FLAG_HAS_PID) <=> c.how = "pid"
      /\ IsSet(Number(b, 2, 1), FLAG_MARKED_ACTIVE) <=> c.active
  BY <1>1, FlagsRead
<1>6. (IF c.reason = "EXECFAILED" THEN "exec" ELSE IF IsSet(Number(b, 2, 1), FLAG_HAS_PID) THEN "pid" ELSE "exit") = c.how
  BY <1>5, StatusTyped
<1>7. IsSet(Number(b, 2, 1), FLAG_MARKED_ACTIVE) = c.active
  BY <1>5, StatusTyped DEF IsSet
<1>8. d = [state |-> c.state, target |-> c.target, active |-> c.active, reason |-> c.reason, how |-> c.how,
           stage |-> IF c.how = "exec" THEN Number(b, 4, 2) ELSE None,
           first |-> Number(b, 6, IntSize),
           second |-> IF c.how = "exit" /\ v >= 5 THEN Number(b, 10, IntSize) ELSE None,
           changed |-> IF v >= 6 THEN Number(b, StatusSize(5), LongSize) ELSE None]
  BY <1>4, <1>6, <1>7, Zenon DEF DecodeStatus
<1>9. Told(c, v) = [state |-> c.state, target |-> c.target, active |-> c.active, reason |-> c.reason, how |-> c.how,
           stage |-> c.stage, first |-> c.first,
           second |-> IF c.how = "exit" /\ v >= 5 THEN c.second ELSE None,
           changed |-> IF v >= 6 THEN c.changed ELSE None]
  <2>. DEFINE x == IF c.how = "exit" /\ v >= 5 THEN c.second ELSE None
              y == IF v >= 6 THEN c.changed ELSE None
  <2>1. Told(c, v) = [c EXCEPT !.second = x, !.changed = y]
    BY DEF Told
  <2>2. /\ DOMAIN c = {"state", "target", "active", "reason", "how", "stage", "first", "second", "changed"}
        /\ c = [f \in DOMAIN c |-> c[f]]
    BY StatusTyped
  <2>. HIDE DEF x, y
  <2>. QED
    BY <2>1, <2>2 DEF x, y
<1>10. (IF c.how = "exec" THEN Number(b, 4, 2) ELSE None) = c.stage
  BY <1>1, StatusTyped DEF StageOf
<1>. HIDE DEF d
<1>. QED
  BY <1>1, <1>2, <1>3, <1>8, <1>9, <1>10 DEF d, b

-----------------------------------------------------------------------------
(* A few fields.                                                           *)

LEMMA OneField ==
  ASSUME NEW x \in Things, NEW n \in Nat
  PROVE  /\ <<<<x, n>>>> \in Seq(Field) /\ Pack(<<<<x, n>>>>) \in Seq(Byte) /\ Len(Pack(<<<<x, n>>>>)) = n
         /\ Holds(Pack(<<<<x, n>>>>), 0, x, n)
<1>. DEFINE f == <<<<x, n>>>>
            at == <<0, n>>
<1>1. f \in Seq(Field) /\ Len(f) = 1 /\ f[1][1] = x /\ f[1][2] = n
  BY DEF Field
<1>2. Offsets(f, at) /\ at[1] = 0 /\ at[2] = n
  BY DEF Offsets
<1>. HIDE DEF f, at
<1>3. Len(Pack(f)) = at[Len(f) + 1] /\ \A i \in 1 .. Len(f) : Holds(Pack(f), at[i], f[i][1], f[i][2])
  BY <1>1, <1>2, PackLaid
<1>4. Len(Pack(f)) = n /\ Holds(Pack(f), 0, x, n)
  BY <1>1, <1>2, <1>3
<1>. QED
  BY <1>1, <1>4, PackType DEF f

LEMMA TwoFields ==
  ASSUME NEW x \in Things, NEW n \in Nat, NEW y \in Things, NEW m \in Nat
  PROVE  LET b == Pack(<<<<x, n>>, <<y, m>>>>)
         IN /\ <<<<x, n>>, <<y, m>>>> \in Seq(Field)
            /\ b \in Seq(Byte) /\ Len(b) = n + m /\ Holds(b, 0, x, n) /\ Holds(b, n, y, m)
<1>. DEFINE f == <<<<x, n>>, <<y, m>>>>
            at == <<0, n, n + m>>
<1>1. f \in Seq(Field) /\ Len(f) = 2 /\ f[1][1] = x /\ f[1][2] = n /\ f[2][1] = y /\ f[2][2] = m
  BY DEF Field
<1>2. Offsets(f, at) /\ at[1] = 0 /\ at[2] = n /\ at[3] = n + m
  BY DEF Offsets
<1>. HIDE DEF f, at
<1>3. Len(Pack(f)) = at[Len(f) + 1] /\ \A i \in 1 .. Len(f) : Holds(Pack(f), at[i], f[i][1], f[i][2])
  BY <1>1, <1>2, PackLaid
<1>4. Len(Pack(f)) = n + m /\ Holds(Pack(f), 0, x, n) /\ Holds(Pack(f), n, y, m)
  BY <1>1, <1>2, <1>3
<1>. QED
  BY <1>1, <1>4, PackType DEF f

LaidThree(x, n, y, m, z, k) ==
  LET f == <<<<x, n>>, <<y, m>>, <<z, k>>>>
      b == Pack(f)
  IN /\ f \in Seq(Field) /\ b \in Seq(Byte) /\ Len(b) = n + m + k
     /\ Holds(b, 0, x, n) /\ Holds(b, n, y, m) /\ Holds(b, n + m, z, k)

LEMMA ThreeFields ==
  ASSUME NEW x \in Things, NEW n \in Nat, NEW y \in Things, NEW m \in Nat, NEW z \in Things, NEW k \in Nat
  PROVE  LaidThree(x, n, y, m, z, k)
<1>. DEFINE f == <<<<x, n>>, <<y, m>>, <<z, k>>>>
            at == <<0, n, n + m, n + m + k>>
<1>1. /\ f \in Seq(Field) /\ Len(f) = 3 /\ f[1][1] = x /\ f[1][2] = n /\ f[2][1] = y /\ f[2][2] = m
      /\ f[3][1] = z /\ f[3][2] = k
  BY DEF Field
<1>2. Offsets(f, at) /\ at[1] = 0 /\ at[2] = n /\ at[3] = n + m /\ at[4] = n + m + k
  BY DEF Offsets
<1>. HIDE DEF f, at
<1>3. Len(Pack(f)) = at[Len(f) + 1] /\ \A i \in 1 .. Len(f) : Holds(Pack(f), at[i], f[i][1], f[i][2])
  BY <1>1, <1>2, PackLaid
<1>4. /\ Len(Pack(f)) = n + m + k /\ Holds(Pack(f), 0, x, n) /\ Holds(Pack(f), n, y, m)
      /\ Holds(Pack(f), n + m, z, k)
  BY <1>1, <1>2, <1>3
<1>. QED
  BY <1>1, <1>4, PackType DEF f, LaidThree

HeadByte(code) == [of |-> code, part |-> 0, size |-> 1]

LEMMA PacketRead ==
  ASSUME NEW code \in Nat, NEW fields \in Seq(Field)
  PROVE  /\ Packet(code, fields) = <<HeadByte(code)>> \o Pack(fields)
         /\ Packet(code, fields) \in Seq(Byte) /\ Packet(code, fields) # << >>
         /\ Packet(code, fields)[1].of = code
         /\ Tail(Packet(code, fields)) = Pack(fields)
<1>1. HeadByte(code) \in Byte
  BY DEF HeadByte, Byte, Things
<1>2. Packet(code, fields) = <<HeadByte(code)>> \o Pack(fields)
  BY DEF Packet, HeadByte
<1>3. Pack(fields) \in Seq(Byte)
  BY PackType
<1>4. /\ Packet(code, fields) \in Seq(Byte) /\ Packet(code, fields) # << >>
      /\ Packet(code, fields)[1] = HeadByte(code)
      /\ Tail(Packet(code, fields)) = Pack(fields)
  BY <1>1, <1>2, <1>3, ConsRead
<1>. QED
  BY <1>2, <1>4 DEF HeadByte

-----------------------------------------------------------------------------
(* A command as dinit understands it.                                      *)

LEMMA CommandCodes ==
  /\ Command.QUERYVERSION = 0 /\ Command.FINDSERVICE = 1 /\ Command.LOADSERVICE = 2 /\ Command.STARTSERVICE = 3
  /\ Command.STOPSERVICE = 4 /\ Command.WAKESERVICE = 5 /\ Command.RELEASESERVICE = 6 /\ Command.UNPINSERVICE = 7
  /\ Command.LISTSERVICES = 8 /\ Command.UNLOADSERVICE = 9 /\ Command.QUERY_LOAD_MECH = 13
  /\ Command.RELOADSERVICE = 16 /\ Command.SETENV = 17 /\ Command.SERVICESTATUS = 18 /\ Command.CATLOG = 20
  /\ Command.SIGNAL = 21 /\ Command.GETALLENV = 24 /\ Command.LISTSERVICES5 = 25 /\ Command.SERVICESTATUS5 = 26
  /\ Command.SERVICESTATUS6 = 28
BY DEF Command

\* A command without remainder.
Whole(code, on, does) == [code |-> code, on |-> on, does |-> does, whole |-> TRUE, told |-> NoItems]

\* The fields of a command are all of its bytes, and give these.
Conveys(code, b, on, does) ==
  Fields(code, b).on = on /\ Fields(code, b).does = does /\ Fields(code, b).size = Len(b)

\* The bytes are a command, and all of it is understood.
Sends(bytes, code, on, does) == bytes # << >> /\ Understand(bytes) = Whole(code, on, does)

LEMMA NumbersAreThings == Nat \subseteq Things /\ Texts \subseteq Things /\ None \in Things
BY DEF Things

LEMMA UnderstandWhole ==
  ASSUME NEW code \in Nat, NEW fields \in Seq(Field), NEW on, NEW does,
         Conveys(code, Pack(fields), on, does)
  PROVE  Sends(Packet(code, fields), code, on, does)
<1>1. Packet(code, fields)[1].of = code /\ Tail(Packet(code, fields)) = Pack(fields)
  BY PacketRead
<1>. DEFINE p == Packet(code, fields)
            r == Fields(p[1].of, Tail(p))
<1>0. r = Fields(code, Pack(fields)) /\ Tail(p) = Pack(fields)
  BY <1>1, Zenon
<1>. HIDE DEF r
<1>2. r.on = on /\ r.does = does /\ r.size = Len(Tail(p))
  BY <1>0 DEF Conveys
<1>. USE DEF r
<1>3. Understand(p) = [code |-> p[1].of, on |-> r.on, does |-> r.does, whole |-> r.size = Len(Tail(p)), told |-> NoItems]
  BY DEF Understand
<1>. HIDE DEF r, p
<1>4. (r.size = Len(Tail(p))) = TRUE
  BY <1>2
<1>5. p[1].of = code
  BY <1>1 DEF p
<1>6. Understand(p) = [code |-> code, on |-> on, does |-> does, whole |-> TRUE, told |-> NoItems]
  BY <1>2, <1>3, <1>4, <1>5, Zenon
<1>7. Packet(code, fields) # << >>
  BY PacketRead
<1>. QED
  BY <1>6, <1>7 DEF Sends, Whole, p

LEMMA UnderstandPlain ==
  ASSUME NEW code \in {Command.QUERYVERSION, Command.LISTSERVICES, Command.LISTSERVICES5, Command.QUERY_LOAD_MECH}
  PROVE  Sends(Packet(code, << >>), code, None, {})
<1>. DEFINE f == << >>
<1>1. code \in Nat /\ f \in Seq(Field) /\ Len(Pack(f)) = 0
  BY CommandCodes, PackNothing, EmptySeq
<1>. HIDE DEF f
<1>2. \A b : Fields(code, b).on = None /\ Fields(code, b).does = {} /\ Fields(code, b).size = 0
  BY CommandCodes DEF Fields
<1>3. Conveys(code, Pack(f), None, {})
  BY <1>1, <1>2 DEF Conveys
<1>4. Sends(Packet(code, f), code, None, {})
  BY <1>1, <1>3, UnderstandWhole
<1>. QED
  BY <1>4 DEF f

LEMMA UnderstandEnv ==
  Sends(Packet(Command.GETALLENV, <<<<0, 1>>>>), Command.GETALLENV, None, {})
<1>1. ASSUME NEW x \in Things, NEW n \in Nat, n = 1
      PROVE  Sends(Packet(Command.GETALLENV, <<<<x, n>>>>), Command.GETALLENV, None, {})
  <2>0. n \in Nat \ {0} /\ Command.GETALLENV \in Nat
    BY <1>1, CommandCodes
  <2>1. <<<<x, n>>>> \in Seq(Field) /\ Len(Pack(<<<<x, n>>>>)) = n
    BY <2>0, OneField, Zenon
  <2>2. \A b : Fields(Command.GETALLENV, b).on = None /\ Fields(Command.GETALLENV, b).does = {} /\ Fields(Command.GETALLENV, b).size = n
    BY <1>1, CommandCodes DEF Fields
  <2>3. Conveys(Command.GETALLENV, Pack(<<<<x, n>>>>), None, {})
    BY <2>1, <2>2, Zenon DEF Conveys
  <2>. QED
    BY <2>0, <2>1, <2>3, UnderstandWhole
<1>. QED
  BY <1>1, NumbersAreThings

LEMMA UnderstandNamed ==
  ASSUME NEW code \in {Command.FINDSERVICE, Command.LOADSERVICE, Command.SETENV}, NEW t \in Texts
  PROVE  Sends(Packet(code, <<<<Size[t], 2>>, <<t, Size[t]>>>>), code, t, {})
<1>. DEFINE f == <<<<Size[t], 2>>, <<t, Size[t]>>>>
            n == Size[t]
            b == Pack(f)
<1>0. code \in Nat /\ n \in Nat /\ n > 0 /\ n \in Things /\ t \in Things
  BY CommandCodes, ConstantsTyped, NumbersAreThings
<1>1. f \in Seq(Field) /\ Len(b) = 2 + n /\ Holds(b, 0, n, 2) /\ Holds(b, 2, t, n)
  BY <1>0, TwoFields
<1>. HIDE DEF f, b, n
<1>3. Number(b, 0, 2) = n /\ Value(b, 2, n) = t
  BY <1>0, <1>1, ValueRead
<1>4. Conveys(code, b, t, {})
  BY <1>1, <1>3, CommandCodes, SMTT(40) DEF Fields, Conveys
<1>5. Sends(Packet(code, f), code, t, {})
  BY <1>0, <1>1, <1>4, UnderstandWhole DEF b
<1>. QED
  BY <1>5 DEF f, n

(* A handle names one service. *)
LEMMA HandleNames ==
  ASSUME NEW s \in Services
  PROVE  ServiceWith(Handle[s]) = s
<1>1. {x \in Services : Handle[x] = Handle[s]} = {s}
  BY ConstantsTyped
<1>. QED
  BY <1>1 DEF ServiceWith

LEMMA UnderstandOn ==
  ASSUME NEW code \in {Command.UNPINSERVICE, Command.RELOADSERVICE, Command.UNLOADSERVICE,
                       Command.SERVICESTATUS, Command.SERVICESTATUS5, Command.SERVICESTATUS6},
         NEW s \in Services
  PROVE  Sends(Packet(code, <<<<Handle[s], 4>>>>), code, s, {})
<1>. DEFINE f == <<<<Handle[s], 4>>>>
            b == Pack(f)
<1>0. code \in Nat /\ Handle[s] \in Nat /\ Handle[s] \in Things
  BY CommandCodes, ConstantsTyped, NumbersAreThings
<1>1. f \in Seq(Field) /\ Len(b) = 4 /\ Holds(b, 0, Handle[s], 4)
  BY <1>0, OneField
<1>. HIDE DEF f, b
<1>3. Number(b, 0, 4) = Handle[s]
  BY <1>0, <1>1, ValueRead
<1>4. Conveys(code, b, s, {})
  <2>1. Fields(code, b) = [on |-> ServiceWith(Number(b, 0, 4)), does |-> {}, size |-> 0 + 4]
    BY CommandCodes DEF Fields
  <2>. QED
    BY <2>1, <1>1, <1>3, HandleNames DEF Conveys
<1>5. Sends(Packet(code, f), code, s, {})
  BY <1>0, <1>1, <1>4, UnderstandWhole DEF b
<1>. QED
  BY <1>5 DEF f

LEMMA UnderstandFlagged ==
  ASSUME NEW code \in {Command.STARTSERVICE, Command.STOPSERVICE, Command.WAKESERVICE, Command.RELEASESERVICE, Command.CATLOG},
         NEW s \in Services, NEW flags \in Nat
  PROVE  Sends(Packet(code, <<<<flags, 1>>, <<Handle[s], 4>>>>), code, s, IF code = Command.CATLOG THEN Flag(flags, 1, "clear")
                            ELSE Flag(flags, 1, "pin") \union Flag(flags, 2, "gentle") \union Flag(flags, 4, "restart"))
<1>. DEFINE f == <<<<flags, 1>>, <<Handle[s], 4>>>>
            b == Pack(f)
            does == IF code = Command.CATLOG THEN Flag(flags, 1, "clear")
                    ELSE Flag(flags, 1, "pin") \union Flag(flags, 2, "gentle") \union Flag(flags, 4, "restart")
<1>0. code \in Nat /\ Handle[s] \in Nat /\ Handle[s] \in Things /\ flags \in Things /\ 1 \in Nat /\ 4 \in Nat
  BY CommandCodes, ConstantsTyped, NumbersAreThings
<1>1. f \in Seq(Field) /\ Len(b) = 1 + 4 /\ Holds(b, 0, flags, 1) /\ Holds(b, 1, Handle[s], 4)
  BY <1>0, TwoFields, Zenon
<1>. HIDE DEF f, b
<1>3. Number(b, 0, 1) = flags /\ Number(b, 1, 4) = Handle[s]
  BY <1>0, <1>1, ValueRead
<1>4. Conveys(code, b, s, does)
  <2>1. Fields(code, b) = [on |-> ServiceWith(Number(b, 1, 4)), does |-> does, size |-> 1 + 4]
    <3>1. CASE code = Command.CATLOG
      BY <1>3, <3>1, CommandCodes DEF Fields
    <3>2. CASE code # Command.CATLOG
      <4>. DEFINE bits == Number(b, 0, 1)
      <4>1. Fields(code, b) =
              [on |-> ServiceWith(Number(b, 1, 4)), does |-> Flag(bits, 1, "pin") \union Flag(bits, 2, "gentle") \union Flag(bits, 4, "restart"), size |-> 1 + 4]
        <5>1. CASE code = Command.STARTSERVICE
          BY <5>1, CommandCodes DEF Fields
        <5>2. CASE code = Command.STOPSERVICE
          BY <5>2, CommandCodes DEF Fields
        <5>3. CASE code = Command.WAKESERVICE
          BY <5>3, CommandCodes DEF Fields
        <5>4. CASE code = Command.RELEASESERVICE
          BY <5>4, CommandCodes DEF Fields
        <5>. QED
          BY <3>2, <5>1, <5>2, <5>3, <5>4
      <4>. QED
        BY <3>2, <4>1, <1>3
    <3>. QED
      BY <3>1, <3>2
  <2>. HIDE DEF does
  <2>. QED
    BY <2>1, <1>1, <1>3, HandleNames DEF Conveys
<1>. HIDE DEF does
<1>5. Sends(Packet(code, f), code, s, does)
  BY <1>0, <1>1, <1>4, UnderstandWhole DEF b
<1>. QED
  BY <1>5 DEF f, does

LEMMA UnderstandSignal ==
  ASSUME NEW s \in Services
  PROVE  Sends(Packet(Command.SIGNAL, SignalFields(Handle[s], SIGTERM)), Command.SIGNAL, s, {"signal"})
<1>. DEFINE f == <<<<SIGTERM, 4>>, <<Handle[s], 4>>>>
            b == Pack(f)
            code == Command.SIGNAL
<1>0. /\ code \in Nat /\ Handle[s] \in Nat /\ Handle[s] \in Things /\ SIGTERM \in Nat /\ SIGTERM \in Things
      /\ SignalFields(Handle[s], SIGTERM) = f /\ 4 \in Nat
  BY CommandCodes, ConstantsTyped, NumbersAreThings DEF SIGTERM, SignalFields, IntSize
<1>1. f \in Seq(Field) /\ Len(b) = 4 + 4 /\ Holds(b, 0, SIGTERM, 4) /\ Holds(b, 4, Handle[s], 4)
  BY <1>0, TwoFields, Zenon
<1>. HIDE DEF f, b
<1>3. Number(b, 0, 4) = SIGTERM /\ Number(b, 4, 4) = Handle[s]
  BY <1>0, <1>1, ValueRead
<1>4. Conveys(code, b, s, {"signal"})
  <2>1. Fields(code, b) = [on |-> ServiceWith(Number(b, 4, 4)), does |-> {"signal"}, size |-> 4 + 4]
    BY <1>3, CommandCodes DEF Fields
  <2>. QED
    BY <2>1, <1>1, <1>3, HandleNames DEF Conveys
<1>5. Sends(Packet(code, f), code, s, {"signal"})
  BY <1>0, <1>1, <1>4, UnderstandWhole DEF b
<1>. QED
  BY <1>0, <1>5 DEF f

\* The command of a call in a version, and what its flags ask for.
CodeFor(api, v) ==
  CASE api = "version" -> Command.QUERYVERSION     [] api = "list" -> ListCommand(v)
    [] api = "mech" -> Command.QUERY_LOAD_MECH     [] api = "env" -> Command.GETALLENV
    [] api = "find" -> Command.FINDSERVICE         [] api = "load" -> Command.LOADSERVICE
    [] api = "setenv" -> Command.SETENV            [] api = "start" -> Command.STARTSERVICE
    [] api \in {"stop", "restart"} -> Command.STOPSERVICE
    [] api = "wake" -> Command.WAKESERVICE         [] api = "release" -> Command.RELEASESERVICE
    [] api = "catlog" -> Command.CATLOG            [] api = "unpin" -> Command.UNPINSERVICE
    [] api = "reload" -> Command.RELOADSERVICE     [] api = "unload" -> Command.UNLOADSERVICE
    [] api = "status" -> StatusCommand(v)          [] api = "signal" -> Command.SIGNAL
DoesFor(call) ==
  (call.options \ {"force"})
    \union (IF call.api = "stop" /\ "force" \notin call.options THEN {"gentle"} ELSE {})
    \union (IF call.api \in {"restart", "signal"} THEN {call.api} ELSE {})
Callable == Possible \union {Hello}

LEMMA CallTyped ==
  ASSUME NEW call \in Callable
  PROVE  /\ call.api \in Apis /\ call # None
         /\ call.api \in {"version", "list", "env", "mech"} <=> call.on = None
         /\ call.api \notin {"version", "list", "env", "mech"} => call.on \in Texts
         /\ call.options \subseteq Options(call.api)
         /\ call.api = "version" <=> call = Hello
<1>1. ASSUME call \in Possible PROVE call \in Requests /\ call.api # "version"
  BY <1>1 DEF Possible
<1>2. CASE call \in Possible
  <2>1. call.api \in Apis /\ call # None
    BY <1>1, <1>2, ConstantsTyped DEF Requests
  <2>2. /\ IF call.api \in {"list", "env", "mech"} THEN call.on = None ELSE call.api # "version" /\ call.on \in Texts
        /\ call.options \subseteq Options(call.api)
    BY <1>2 DEF Possible
  <2>. QED
    BY <2>1, <2>2, ConstantsTyped DEF Hello
<1>3. CASE call = Hello
  <2>1. Hello \in Requests
    BY DEF Hello, Requests, Apis
  <2>2. call.api = "version" /\ call.on = None /\ call.options = {}
    BY <1>3 DEF Hello
  <2>. QED
    BY <1>3, <2>1, <2>2, ConstantsTyped DEF Apis
<1>. QED
  BY <1>2, <1>3 DEF Callable

LEMMA BitsOfFlags ==
  /\ Flag(0, 1, "pin") = {} /\ Flag(0, 2, "gentle") = {} /\ Flag(0, 4, "restart") = {}
  /\ Flag(1, 1, "pin") = {"pin"} /\ Flag(1, 2, "gentle") = {} /\ Flag(1, 4, "restart") = {}
  /\ Flag(2, 1, "pin") = {} /\ Flag(2, 2, "gentle") = {"gentle"} /\ Flag(2, 4, "restart") = {}
  /\ Flag(3, 1, "pin") = {"pin"} /\ Flag(3, 2, "gentle") = {"gentle"} /\ Flag(3, 4, "restart") = {}
  /\ Flag(4, 1, "pin") = {} /\ Flag(4, 2, "gentle") = {} /\ Flag(4, 4, "restart") = {"restart"}
  /\ Flag(0, 1, "clear") = {} /\ Flag(1, 1, "clear") = {"clear"}
BY DEF Flag, IsSet

(* The flags of a call are read as its options, and `gentle' and `restart' where it means them. *)
LEMMA FlagsMeant ==
  ASSUME NEW call \in Callable, call.api \in {"start", "stop", "restart", "wake", "release"}
  PROVE  /\ Flags(call) \in Nat
         /\ Flag(Flags(call), 1, "pin") \union Flag(Flags(call), 2, "gentle") \union Flag(Flags(call), 4, "restart")
              = DoesFor(call)
<1>0. call.options \subseteq Options(call.api)
  BY CallTyped
<1>1. CASE call.api \in {"start", "wake"}
  <2>1. call.options \subseteq {"pin"}
    BY <1>0, <1>1 DEF Options
  <2>2. DoesFor(call) = call.options /\ Flags(call) = (IF "pin" \in call.options THEN 1 ELSE 0)
    BY <1>1, <2>1 DEF DoesFor, Flags
  <2>. QED
    BY <2>1, <2>2, BitsOfFlags
<1>2. CASE call.api = "release"
  <2>1. call.options = {}
    BY <1>0, <1>2 DEF Options
  <2>2. DoesFor(call) = {} /\ Flags(call) = 0
    BY <1>2, <2>1 DEF DoesFor, Flags
  <2>. QED
    BY <2>2, BitsOfFlags
<1>3. CASE call.api = "restart"
  <2>1. call.options = {}
    BY <1>0, <1>3 DEF Options
  <2>2. DoesFor(call) = {"restart"} /\ Flags(call) = 4
    BY <1>3, <2>1 DEF DoesFor, Flags
  <2>. QED
    BY <2>2, BitsOfFlags
<1>4. CASE call.api = "stop"
  <2>1. call.options \subseteq {"pin", "force"}
    BY <1>0, <1>4 DEF Options
  <2>2. /\ DoesFor(call) = (call.options \ {"force"}) \union (IF "force" \in call.options THEN {} ELSE {"gentle"})
        /\ Flags(call) = (IF "pin" \in call.options THEN 1 ELSE 0) + (IF "force" \in call.options THEN 0 ELSE 2)
    BY <1>4 DEF DoesFor, Flags
  <2>3. CASE "pin" \in call.options /\ "force" \in call.options
    <3>1. Flags(call) = 1 /\ DoesFor(call) = {"pin"}
      BY <2>1, <2>2, <2>3
    <3>. QED
      BY <3>1, BitsOfFlags
  <2>4. CASE "pin" \in call.options /\ "force" \notin call.options
    <3>1. Flags(call) = 3 /\ DoesFor(call) = {"pin", "gentle"}
      BY <2>1, <2>2, <2>4
    <3>. QED
      BY <3>1, BitsOfFlags
  <2>5. CASE "pin" \notin call.options /\ "force" \in call.options
    <3>1. Flags(call) = 0 /\ DoesFor(call) = {}
      BY <2>1, <2>2, <2>5
    <3>. QED
      BY <3>1, BitsOfFlags
  <2>6. CASE "pin" \notin call.options /\ "force" \notin call.options
    <3>1. Flags(call) = 2 /\ DoesFor(call) = {"gentle"}
      BY <2>1, <2>2, <2>6
    <3>. QED
      BY <3>1, BitsOfFlags
  <2>. QED
    BY <2>3, <2>4, <2>5, <2>6
<1>. QED
  BY <1>1, <1>2, <1>3, <1>4

(* A call is understood as it was meant, if the handle it is sent with is the service's. *)
LEMMA RequestUnderstood ==
  ASSUME NEW call \in Callable,
         call.api \in OnHandle => call.on \in Services /\ HandleOf(call.on) = Handle[call.on]
  PROVE  Sends(Request(call), CodeFor(call.api, version), call.on, DoesFor(call))
<1>0. /\ call.api \in Apis /\ call.options \subseteq Options(call.api)
      /\ call.api \in {"version", "list", "env", "mech"} => call.on = None
      /\ call.api \notin {"version", "list", "env", "mech"} => call.on \in Texts
  BY CallTyped
<1>. DEFINE s == call.on
            h == HandleOf(s)
            code == CodeFor(call.api, version)
            does == DoesFor(call)
            Simple(c) == Packet(c, << >>)
            Named(c) == Packet(c, <<<<Size[s], 2>>, <<s, Size[s]>>>>)
            On(c) == Packet(c, <<<<h, 4>>>>)
            Flagged(c, flags) == Packet(c, <<<<flags, 1>>, <<h, 4>>>>)
<1>1. CASE call.api \in {"version", "list", "mech"}
  <2>1. Request(call) = Simple(code)
    BY <1>1 DEF Request, CodeFor
  <2>2. does = {} /\ s = None
    BY <1>0, <1>1 DEF DoesFor, Options
  <2>3. code \in {Command.QUERYVERSION, Command.LISTSERVICES, Command.LISTSERVICES5, Command.QUERY_LOAD_MECH}
    BY <1>1 DEF CodeFor, ListCommand
  <2>. QED
    BY <2>1, <2>2, <2>3, UnderstandPlain
<1>2. CASE call.api = "env"
  <2>1. Request(call) = Packet(Command.GETALLENV, <<<<0, 1>>>>) /\ code = Command.GETALLENV
    BY <1>2 DEF Request, CodeFor
  <2>2. does = {} /\ s = None
    BY <1>0, <1>2 DEF DoesFor, Options
  <2>. QED
    BY <2>1, <2>2, UnderstandEnv
<1>3. CASE call.api \in {"find", "load", "setenv"}
  <2>1. Request(call) = Named(code)
    BY <1>3 DEF Request, CodeFor
  <2>2. does = {} /\ s \in Texts
    BY <1>0, <1>3 DEF DoesFor, Options
  <2>3. code \in {Command.FINDSERVICE, Command.LOADSERVICE, Command.SETENV}
    BY <1>3 DEF CodeFor
  <2>. QED
    BY <2>1, <2>2, <2>3, UnderstandNamed
<1>4. CASE call.api \in {"start", "stop", "restart", "wake", "release"}
  <2>1. Request(call) = Flagged(code, Flags(call))
    BY <1>4 DEF Request, CodeFor
  <2>2. s \in Services /\ h = Handle[s]
    BY <1>4 DEF OnHandle
  <2>0. code \in {Command.STARTSERVICE, Command.STOPSERVICE, Command.WAKESERVICE, Command.RELEASESERVICE}
    BY <1>4 DEF CodeFor
  <2>. HIDE DEF code
  <2>3. code \in {Command.STARTSERVICE, Command.STOPSERVICE, Command.WAKESERVICE, Command.RELEASESERVICE} /\ code # Command.CATLOG
    BY <2>0, CommandCodes
  <2>4. /\ Flags(call) \in Nat
        /\ Flag(Flags(call), 1, "pin") \union Flag(Flags(call), 2, "gentle") \union Flag(Flags(call), 4, "restart") = does
    BY <1>4, FlagsMeant
  <2>5. Sends(Packet(code, <<<<Flags(call), 1>>, <<Handle[s], 4>>>>), code, s, IF code = Command.CATLOG THEN Flag(Flags(call), 1, "clear")
                           ELSE Flag(Flags(call), 1, "pin") \union Flag(Flags(call), 2, "gentle") \union Flag(Flags(call), 4, "restart"))
    BY <2>2, <2>3, <2>4, UnderstandFlagged
  <2>. HIDE DEF code, s, h, does
  <2>. QED
    BY <2>1, <2>2, <2>3, <2>4, <2>5 DEF s, does, code
<1>5. CASE call.api = "catlog"
  <2>. DEFINE flags == IF "clear" \in call.options THEN 1 ELSE 0
  <2>1. Request(call) = Flagged(code, flags) /\ code = Command.CATLOG
    BY <1>5 DEF Request, CodeFor
  <2>2. s \in Services /\ h = Handle[s]
    BY <1>5 DEF OnHandle
  <2>3. call.options \subseteq {"clear"}
    BY <1>0, <1>5 DEF Options
  <2>4. flags \in Nat /\ Flag(flags, 1, "clear") = does
    <3>1. does = call.options
      BY <1>5, <2>3 DEF DoesFor
    <3>. QED
      BY <2>3, <3>1, BitsOfFlags
  <2>. HIDE DEF flags
  <2>5. Sends(Packet(code, <<<<flags, 1>>, <<Handle[s], 4>>>>), code, s, IF code = Command.CATLOG THEN Flag(flags, 1, "clear")
                           ELSE Flag(flags, 1, "pin") \union Flag(flags, 2, "gentle") \union Flag(flags, 4, "restart"))
    BY <2>1, <2>2, <2>4, UnderstandFlagged
  <2>. HIDE DEF code, s, h, does
  <2>. QED
    BY <2>1, <2>2, <2>4, <2>5 DEF s, does, code
<1>6. CASE call.api \in {"unpin", "reload", "unload", "status"}
  <2>1. Request(call) = On(code)
    BY <1>6 DEF Request, CodeFor
  <2>2. s \in Services /\ h = Handle[s]
    BY <1>6 DEF OnHandle
  <2>3. code \in {Command.UNPINSERVICE, Command.RELOADSERVICE, Command.UNLOADSERVICE,
                  Command.SERVICESTATUS, Command.SERVICESTATUS5, Command.SERVICESTATUS6}
    BY <1>6 DEF CodeFor, StatusCommand
  <2>4. does = {}
    BY <1>0, <1>6 DEF DoesFor, Options
  <2>5. Sends(Packet(code, <<<<Handle[s], 4>>>>), code, s, {})
    BY <2>2, <2>3, UnderstandOn
  <2>. HIDE DEF code, s, h, does
  <2>. QED
    BY <2>1, <2>2, <2>4, <2>5 DEF s, does, code
<1>7. CASE call.api = "signal"
  <2>1. Request(call) = Packet(Command.SIGNAL, SignalFields(h, SIGTERM)) /\ code = Command.SIGNAL
    BY <1>7 DEF Request, CodeFor
  <2>2. s \in Services /\ h = Handle[s]
    BY <1>7 DEF OnHandle
  <2>3. does = {"signal"}
    BY <1>0, <1>7 DEF DoesFor, Options
  <2>. QED
    BY <2>1, <2>2, <2>3, UnderstandSignal
<1>. QED
  BY <1>0, <1>1, <1>2, <1>3, <1>4, <1>5, <1>6, <1>7 DEF Apis, OnHandle

-----------------------------------------------------------------------------
(* Replies and what is read of them.                                       *)

(* The reader wants more of a packet until it has all of it, and never more than that. *)
Readable(code, b, v) ==
  /\ b \in Seq(Byte)
  /\ \A k \in 0 .. Len(b) :
       LET n == Wanted(code, SubSeq(b, 1, k), v)
       IN n \in Nat /\ k <= n /\ n <= Len(b) /\ (k < Len(b) => k < n)

LEMMA ReplyCodes ==
  /\ Reply.ACK = 50 /\ Reply.NAK = 51 /\ Reply.BADREQ = 52 /\ Reply.OOM = 53 /\ Reply.SERVICELOADERR = 54
  /\ Reply.SERVICEOOM = 55 /\ Reply.CPVERSION = 58 /\ Reply.SERVICERECORD = 59 /\ Reply.NOSERVICE = 60
  /\ Reply.ALREADYSS = 61 /\ Reply.SVCINFO = 62 /\ Reply.LISTDONE = 63 /\ Reply.LOADER_MECH = 64
  /\ Reply.DEPENDENTS = 65 /\ Reply.PINNEDSTOPPED = 67 /\ Reply.PINNEDSTARTED = 68 /\ Reply.SHUTTINGDOWN = 69
  /\ Reply.SERVICESTATUS = 70 /\ Reply.SERVICE_DESC_ERR = 71 /\ Reply.SERVICE_LOAD_ERR = 72
  /\ Reply.SERVICE_LOG = 73 /\ Reply.SIGNAL_NOPID = 74 /\ Reply.SIGNAL_BADSIG = 75
  /\ Reply.SIGNAL_KILLERR = 76 /\ Reply.ALLENV = 78
BY DEF Reply

LEMMA InfoCodes == Info.SERVICEEVENT = 100 /\ Info.SERVICEEVENT5 = 101 /\ Info.ENVEVENT = 102
BY DEF Info

LEMMA Beginnings ==
  ASSUME NEW b \in Seq(Byte), NEW k \in 0 .. Len(b)
  PROVE  /\ SubSeq(b, 1, k) \in Seq(Byte) /\ Len(SubSeq(b, 1, k)) = k
         /\ (SubSeq(b, 1, k) = << >> <=> k = 0) /\ SubSeq(b, 1, Len(b)) = b
<1>1. Len(b) \in Nat /\ SubSeq(b, 1, k) \in Seq(Byte) /\ Len(SubSeq(b, 1, k)) = k
  BY LenProperties
<1>2. SubSeq(b, 1, k) = << >> <=> k = 0
  BY <1>1, EmptySeq
<1>3. SubSeq(b, 1, Len(b)) = b
  OBVIOUS
<1>. QED
  BY <1>1, <1>2, <1>3

\* The size is known once the first n bytes are there.
KnownAfter(code, b, v, n) ==
  \A k \in 0 .. Len(b) : Wanted(code, SubSeq(b, 1, k), v) = IF k < n THEN n ELSE Len(b)

LEMMA ReadableAs ==
  ASSUME NEW code, NEW v, NEW b \in Seq(Byte), NEW n \in Nat, n <= Len(b), KnownAfter(code, b, v, n)
  PROVE  Readable(code, b, v)
<1>1. Len(b) \in Nat
  BY LenProperties
<1>. QED
  BY <1>1 DEF Readable, KnownAfter

Sized(code, b, v) == \A e : Wanted(code, e, v) = Len(b)

LEMMA ReadableBare ==
  ASSUME NEW code, NEW v, NEW b \in Seq(Byte), Sized(code, b, v)
  PROVE  Readable(code, b, v)
<1>1. Len(b) \in Nat /\ 0 \in Nat /\ 0 <= Len(b)
  BY LenProperties
<1>2. KnownAfter(code, b, v, 0)
  BY <1>1 DEF KnownAfter, Sized
<1>. QED
  BY <1>1, <1>2, ReadableAs

(* A length is read as soon as its bytes are there. *)
LEMMA LengthRead ==
  ASSUME NEW b \in Seq(Byte), NEW at \in Nat, NEW n \in Nat, n > 0, NEW m \in Nat, Holds(b, at, m, n),
         NEW k \in 0 .. Len(b), at + n <= k
  PROVE  Number(SubSeq(b, 1, k), at, n) = m
<1>1. k \in Nat /\ k <= Len(b)
  BY LenProperties
<1>2. Holds(SubSeq(b, 1, k), at, m, n)
  BY <1>1, HoldsIn
<1>. QED
  BY <1>2, ValueRead

(* What is acknowledged or refused has no more than its head. *)
Bare == {Reply.ACK, Reply.NAK, Reply.BADREQ, Reply.OOM, Reply.SERVICELOADERR, Reply.SERVICEOOM, Reply.NOSERVICE,
         Reply.ALREADYSS, Reply.LISTDONE, Reply.PINNEDSTOPPED, Reply.PINNEDSTARTED, Reply.SHUTTINGDOWN,
         Reply.SERVICE_DESC_ERR, Reply.SERVICE_LOAD_ERR, Reply.SIGNAL_NOPID, Reply.SIGNAL_BADSIG, Reply.SIGNAL_KILLERR}

LEMMA BareReadable ==
  ASSUME NEW code \in Bare, NEW v PROVE Readable(code, << >>, v)
<1>. DEFINE b == << >>
<1>1. /\ ~IsInfo(code) /\ code # Reply.CPVERSION /\ code # Reply.SERVICERECORD /\ code # Reply.SERVICESTATUS
      /\ code # Reply.SVCINFO /\ code # Reply.SERVICE_LOG /\ code # Reply.ALLENV /\ code # Reply.LOADER_MECH
      /\ code # Reply.DEPENDENTS
  BY ReplyCodes DEF IsInfo, Bare
<1>2. \A e : Wanted(code, e, v) = 0
  BY <1>1 DEF Wanted
<1>3. b \in Seq(Byte) /\ Len(b) = 0
  OBVIOUS
<1>. HIDE DEF b
<1>4. Readable(code, b, v)
  BY <1>2, <1>3, ReadableBare DEF Sized
<1>. QED
  BY <1>4 DEF b

LEMMA VersionRead ==
  ASSUME NEW d \in Nat, NEW v, NEW on, NEW listed
  PROVE  LET b == Pack(<<<<1, 2>>, <<d, 2>>>>)
         IN /\ <<<<1, 2>>, <<d, 2>>>> \in Seq(Field) /\ Readable(Reply.CPVERSION, b, v)
            /\ Result(Reply.CPVERSION, b, v, on, listed) = d
<1>. DEFINE f == <<<<1, 2>>, <<d, 2>>>>
            b == Pack(f)
<1>0. 1 \in Nat /\ 2 \in Nat /\ 1 \in Things /\ d \in Things /\ 0 \in Nat
  BY NumbersAreThings
<1>1. f \in Seq(Field) /\ b \in Seq(Byte) /\ Len(b) = 2 + 2 /\ Holds(b, 2, d, 2)
  BY <1>0, TwoFields, Zenon
<1>. HIDE DEF f, b
<1>2. Number(b, 2, 2) = d
  BY <1>0, <1>1, ValueRead
<1>3. \A c : Wanted(Reply.CPVERSION, c, v) = 4
  BY ReplyCodes DEF Wanted, IsInfo
<1>4. Readable(Reply.CPVERSION, b, v)
  <2>1. Sized(Reply.CPVERSION, b, v)
    BY <1>1, <1>3 DEF Sized
  <2>2. b \in Seq(Byte)
    BY <1>1
  <2>. QED
    BY <2>1, <2>2, ReadableBare
<1>5. Result(Reply.CPVERSION, b, v, on, listed) = d
  BY <1>2, ReplyCodes DEF Result
<1>. QED
  BY <1>1, <1>4, <1>5 DEF f, b

LEMMA RecordRead ==
  ASSUME NEW s \in Services, NEW c \in Statuses, NEW v, NEW on, NEW listed
  PROVE  LET f == <<<<Code(ServiceState, c.state), 1>>, <<Handle[s], 4>>, <<Code(ServiceState, c.target), 1>>>>
             b == Pack(f)
         IN /\ f \in Seq(Field) /\ Readable(Reply.SERVICERECORD, b, v)
            /\ Result(Reply.SERVICERECORD, b, v, on, listed)
                 = [on |-> on, state |-> c.state, handle |-> Handle[s], target |-> c.target]
<1>. DEFINE x == Code(ServiceState, c.state)
            y == Handle[s]
            z == Code(ServiceState, c.target)
            f == <<<<x, 1>>, <<y, 4>>, <<z, 1>>>>
            b == Pack(f)
<1>0. /\ x \in Nat /\ y \in Nat /\ z \in Nat /\ x \in Things /\ y \in Things /\ z \in Things
      /\ Member(ServiceState, x) = c.state /\ Member(ServiceState, z) = c.target
  BY StatusTyped, EnumsRead, ConstantsTyped, NumbersAreThings
<1>. HIDE DEF x, y, z
<1>00. 1 \in Nat /\ 4 \in Nat /\ 0 \in Nat
  OBVIOUS
<1>1. f \in Seq(Field) /\ b \in Seq(Byte) /\ Len(b) = 1 + 4 + 1 /\ Holds(b, 0, x, 1) /\ Holds(b, 1, y, 4) /\ Holds(b, 1 + 4, z, 1)
  <2>1. LaidThree(x, 1, y, 4, z, 1)
    BY <1>0, <1>00, ThreeFields, Zenon
  <2>. QED
    BY <2>1 DEF LaidThree
<1>. HIDE DEF f, b
<1>2. Number(b, 0, 1) = x /\ Number(b, 1, 4) = y /\ Number(b, 5, 1) = z
  BY <1>0, <1>1, ValueRead
<1>3. \A e : Wanted(Reply.SERVICERECORD, e, v) = 6
  BY ReplyCodes DEF Wanted, IsInfo
<1>4. Readable(Reply.SERVICERECORD, b, v)
  <2>1. Sized(Reply.SERVICERECORD, b, v)
    BY <1>1, <1>3 DEF Sized
  <2>2. b \in Seq(Byte)
    BY <1>1
  <2>. QED
    BY <2>1, <2>2, ReadableBare
<1>5. Result(Reply.SERVICERECORD, b, v, on, listed)
        = [on |-> on, handle |-> Number(b, 1, 4), state |-> Member(ServiceState, Number(b, 0, 1)),
           target |-> Member(ServiceState, Number(b, 5, 1))]
  BY ReplyCodes DEF Result
<1>6. Result(Reply.SERVICERECORD, b, v, on, listed) = [on |-> on, state |-> c.state, handle |-> y, target |-> c.target]
  BY <1>0, <1>2, <1>5
<1>. QED
  BY <1>1, <1>4, <1>6 DEF f, b, x, y, z

LEMMA LogRead ==
  ASSUME NEW text \in Services \union {None}, NEW v, NEW on, NEW listed
  PROVE  LET n == IF text = None THEN 0 ELSE Size[text]
             f == <<<<0, 1>>, <<n, 4>>, <<text, n>>>>
         IN /\ f \in Seq(Field) /\ Readable(Reply.SERVICE_LOG, Pack(f), v)
            /\ Result(Reply.SERVICE_LOG, Pack(f), v, on, listed) = text
<1>. DEFINE n == IF text = None THEN 0 ELSE Size[text]
            f == <<<<0, 1>>, <<n, 4>>, <<text, n>>>>
            b == Pack(f)
<1>0. n \in Nat /\ n \in Things /\ text \in Things /\ 0 \in Things /\ (IF text = None THEN n = 0 ELSE n > 0)
  BY ConstantsTyped, NumbersAreThings
<1>. HIDE DEF n
<1>00. 1 \in Nat /\ 4 \in Nat /\ 5 \in Nat
  OBVIOUS
<1>1. f \in Seq(Field) /\ b \in Seq(Byte) /\ Len(b) = 1 + 4 + n /\ Holds(b, 1, n, 4) /\ Holds(b, 1 + 4, text, n)
  <2>1. LaidThree(0, 1, n, 4, text, n)
    BY <1>0, <1>00, ThreeFields, Zenon
  <2>. QED
    BY <2>1 DEF LaidThree
<1>. HIDE DEF f, b
<1>2. \A k \in 0 .. Len(b) : 5 <= k => Number(SubSeq(b, 1, k), 1, 4) = n
  BY <1>0, <1>00, <1>1, LengthRead
<1>3. \A e : Wanted(Reply.SERVICE_LOG, e, v) = IF Len(e) < 5 THEN 5 ELSE 5 + Number(e, 1, 4)
  BY ReplyCodes DEF Wanted, IsInfo
<1>4. ASSUME NEW k \in 0 .. Len(b)
      PROVE  Wanted(Reply.SERVICE_LOG, SubSeq(b, 1, k), v) = IF k < 5 THEN 5 ELSE Len(b)
  <2>1. Len(SubSeq(b, 1, k)) = k
    BY <1>1, Beginnings
  <2>2. Wanted(Reply.SERVICE_LOG, SubSeq(b, 1, k), v) = IF k < 5 THEN 5 ELSE 5 + Number(SubSeq(b, 1, k), 1, 4)
    BY <1>3, <2>1
  <2>. QED
    BY <1>0, <1>1, <1>2, <2>2
<1>5. Readable(Reply.SERVICE_LOG, b, v)
  <2>1. KnownAfter(Reply.SERVICE_LOG, b, v, 5)
    BY <1>4 DEF KnownAfter
  <2>2. 5 <= Len(b)
    BY <1>0, <1>1
  <2>. QED
    BY <1>00, <1>1, <2>1, <2>2, ReadableAs
<1>6. Number(b, 1, 4) = n /\ Value(b, 5, n) = text
  <2>1. Number(b, 1, 4) = n
    BY <1>0, <1>1, ValueRead
  <2>2. Value(b, 5, n) = text
    BY <1>0, <1>1, ValueRead, NothingRead
  <2>. QED
    BY <2>1, <2>2
<1>7. Result(Reply.SERVICE_LOG, b, v, on, listed) = text
  BY <1>6, ReplyCodes DEF Result
<1>. QED
  BY <1>1, <1>5, <1>7 DEF f, b, n

(* Versions between which the layout of a condition does not change. *)
Alike(v, w) == v \in Nat /\ w \in Nat /\ (v >= 5 <=> w >= 5) /\ (v >= 6 <=> w >= 6)

LEMMA AlikeRead ==
  ASSUME NEW c \in Statuses, NEW v, NEW w, Alike(v, w)
  PROVE  /\ Layout(c, v) = Layout(c, w) /\ Told(c, v) = Told(c, w) /\ StatusSize(v) = StatusSize(w)
         /\ DecodeStatus(Pack(Layout(c, w)), v) = Told(c, w)
<1>1. v \in Nat /\ w \in Nat /\ (v >= 5 <=> w >= 5) /\ (v >= 6 <=> w >= 6)
  BY DEF Alike
<1>2. Layout(c, v) = Layout(c, w)
  BY <1>1 DEF Layout
<1>3. Told(c, v) = Told(c, w)
  BY <1>1 DEF Told
<1>4. StatusSize(v) = StatusSize(w)
  BY <1>1 DEF StatusSize
<1>5. DecodeStatus(Pack(Layout(c, v)), v) = Told(c, v)
  BY <1>1, StatusRead
<1>. QED
  BY <1>2, <1>3, <1>4, <1>5

LEMMA StatusAnswered ==
  ASSUME NEW c \in Statuses, NEW v, NEW w, Alike(v, w), NEW on, NEW listed
  PROVE  LET f == <<<<0, 1>>>> \o Layout(c, w)
         IN /\ f \in Seq(Field) /\ Readable(Reply.SERVICESTATUS, Pack(f), v)
            /\ Result(Reply.SERVICESTATUS, Pack(f), v, on, listed) = Told(c, w)
<1>. DEFINE e == <<<<0, 1>>>>
            f == e \o Layout(c, w)
            a == Pack(e)
            s == Pack(Layout(c, w))
            b == Pack(f)
<1>0. 0 \in Things /\ 1 \in Nat /\ w \in Nat /\ v \in Nat
  BY NumbersAreThings DEF Alike
<1>1. e \in Seq(Field) /\ a \in Seq(Byte) /\ Len(a) = 1
  BY <1>0, OneField
<1>2. Layout(c, w) \in Seq(Field) /\ s \in Seq(Byte) /\ Len(s) = StatusSize(w)
  BY <1>0, LayoutTyped, StatusHolds
<1>. HIDE DEF e
<1>3. f \in Seq(Field) /\ b = a \o s
  BY <1>1, <1>2, PackConcat, ConcatProperties
<1>. HIDE DEF a, s
<1>4. b \in Seq(Byte) /\ Len(b) = 1 + StatusSize(w)
  <2>1. a \o s \in Seq(Byte) /\ Len(a \o s) = Len(a) + Len(s)
    BY <1>1, <1>2, ConcatProperties
  <2>. QED
    BY <1>1, <1>2, <1>3, <2>1
<1>5. StatusSize(v) = StatusSize(w) /\ DecodeStatus(s, v) = Told(c, w)
  BY AlikeRead DEF s
<1>6. Drop(b, 1) = s
  BY <1>1, <1>2, <1>3, RestOf DEF Drop
<1>. HIDE DEF f, b
<1>7. \A x : Wanted(Reply.SERVICESTATUS, x, v) = 1 + StatusSize(v)
  BY ReplyCodes DEF Wanted, IsInfo
<1>8. Sized(Reply.SERVICESTATUS, b, v)
  BY <1>4, <1>5, <1>7 DEF Sized
<1>9. Readable(Reply.SERVICESTATUS, b, v)
  BY <1>4, <1>8, ReadableBare
<1>10. Result(Reply.SERVICESTATUS, b, v, on, listed) = Told(c, w)
  BY <1>5, <1>6, ReplyCodes DEF Result
<1>. QED
  BY <1>3, <1>9, <1>10 DEF f, b, e

LEMMA ItemRead ==
  ASSUME NEW s \in Services, NEW c \in Statuses, NEW v \in Nat, NEW w, w = IF v >= 5 THEN 5 ELSE 4
  PROVE  LET f == <<<<Size[s], 1>>>> \o Layout(c, w) \o <<<<s, Size[s]>>>>
         IN /\ f \in Seq(Field) /\ Readable(Reply.SVCINFO, Pack(f), v) /\ Pack(f) # << >>
            /\ Listed(Pack(f), v) = [on |-> s, told |-> Told(c, w)]
<1>. DEFINE n == Size[s]
            e == <<<<n, 1>>>>
            g == <<<<s, n>>>>
            h == e \o Layout(c, w)
            f == h \o g
            x == Pack(e)
            y == Pack(Layout(c, w))
            z == Pack(g)
            b == Pack(f)
            m == StatusSize(w)
<1>0. n \in Nat /\ n > 0 /\ n \in Things /\ s \in Things /\ 1 \in Nat /\ w \in Nat
  BY ConstantsTyped, NumbersAreThings
<1>. HIDE DEF n
<1>1. e \in Seq(Field) /\ x \in Seq(Byte) /\ Len(x) = 1 /\ Holds(x, 0, n, 1)
  BY <1>0, OneField, Zenon
<1>2. Layout(c, w) \in Seq(Field) /\ y \in Seq(Byte) /\ Len(y) = m
  BY <1>0, LayoutTyped, StatusHolds
<1>3. g \in Seq(Field) /\ z \in Seq(Byte) /\ Len(z) = n /\ Holds(z, 0, s, n)
  BY <1>0, OneField
<1>4. m = ListStatusSize(v) /\ m \in Nat /\ Alike(ListLayout(v), w)
  BY <1>0 DEF StatusSize, ListStatusSize, IntSize, ListLayout, Alike
<1>. HIDE DEF e, g, m
<1>5. h \in Seq(Field) /\ f \in Seq(Field) /\ Pack(h) = x \o y /\ b = Pack(h) \o z
  BY <1>1, <1>2, <1>3, PackConcat, ConcatProperties
<1>. HIDE DEF x, y, z, h, f, b
<1>6. b = (x \o y) \o z /\ x \o y \in Seq(Byte) /\ Len(x \o y) = 1 + m /\ b \in Seq(Byte) /\ Len(b) = 1 + m + n
  <2>1. x \o y \in Seq(Byte) /\ Len(x \o y) = Len(x) + Len(y)
    BY <1>1, <1>2, ConcatProperties
  <2>2. (x \o y) \o z \in Seq(Byte) /\ Len((x \o y) \o z) = Len(x \o y) + Len(z)
    BY <1>3, <2>1, ConcatProperties
  <2>. QED
    BY <1>1, <1>2, <1>3, <1>5, <2>1, <2>2
<1>7. Holds(b, 0, n, 1)
  <2>1. Holds(x \o y, 0, n, 1)
    BY <1>0, <1>1, <1>2, HoldsMore
  <2>. QED
    BY <1>0, <1>3, <1>6, <2>1, HoldsMore
<1>8. Holds(b, 1 + m, s, n)
  <2>1. Holds((x \o y) \o z, Len(x \o y) + 0, s, n)
    BY <1>0, <1>3, <1>6, HoldsBehind
  <2>2. Len(x \o y) + 0 = 1 + m
    BY <1>4, <1>6
  <2>. QED
    BY <1>6, <2>1, <2>2
<1>9. SubSeq(b, 2, 1 + m) = y
  <2>1. SubSeq((x \o y) \o z, Len(x) + 1, Len(x) + Len(y)) = y
    BY <1>1, <1>2, <1>3, MiddleOf
  <2>. QED
    BY <1>1, <1>2, <1>6, <2>1
<1>10. KnownAfter(Reply.SVCINFO, b, v, 1 + m)
  <2>1. \A q : Wanted(Reply.SVCINFO, q, v) = IF Len(q) < 1 + m THEN 1 + m ELSE 1 + m + Number(q, 0, 1)
    BY <1>4, ReplyCodes DEF Wanted, IsInfo
  <2>2. ASSUME NEW k \in 0 .. Len(b), 1 + m <= k PROVE Number(SubSeq(b, 1, k), 0, 1) = n
    <3>1. 0 + 1 <= k
      BY <1>4, <2>2
    <3>2. 0 \in Nat /\ 1 > 0
      OBVIOUS
    <3>. QED
      BY <1>0, <1>6, <1>7, <3>1, <3>2, LengthRead, Zenon
  <2>3. ASSUME NEW k \in 0 .. Len(b)
        PROVE  Wanted(Reply.SVCINFO, SubSeq(b, 1, k), v) = IF k < 1 + m THEN 1 + m ELSE Len(b)
    <3>1. Len(SubSeq(b, 1, k)) = k
      BY <1>6, Beginnings
    <3>2. Wanted(Reply.SVCINFO, SubSeq(b, 1, k), v) = IF k < 1 + m THEN 1 + m ELSE 1 + m + Number(SubSeq(b, 1, k), 0, 1)
      BY <2>1, <3>1
    <3>3. CASE k < 1 + m
      BY <3>2, <3>3
    <3>4. CASE ~ (k < 1 + m)
      <4>1. k \in Nat /\ 1 + m <= k
        BY <1>4, <3>4
      <4>2. Number(SubSeq(b, 1, k), 0, 1) = n
        BY <2>2, <4>1
      <4>. QED
        BY <1>6, <3>2, <3>4, <4>2
    <3>. QED
      BY <3>3, <3>4
  <2>. QED
    BY <2>3 DEF KnownAfter
<1>11. Readable(Reply.SVCINFO, b, v)
  <2>1. 1 + m \in Nat /\ 1 + m <= Len(b)
    BY <1>0, <1>4, <1>6
  <2>. QED
    BY <1>6, <1>10, <2>1, ReadableAs
<1>12. Listed(b, v) = [on |-> s, told |-> Told(c, w)]
  <2>1. Number(b, 0, 1) = n /\ Value(b, 1 + m, n) = s
    <3>1. Number(b, 0, 1) = n
      BY <1>0, <1>7, ValueRead
    <3>2. 1 + m \in Nat
      BY <1>4
    <3>. QED
      BY <1>0, <1>8, <3>1, <3>2, ValueRead
  <2>2. DecodeStatus(y, ListLayout(v)) = Told(c, w)
    BY <1>4, AlikeRead DEF y
  <2>3. Listed(b, v) = [on |-> Value(b, 1 + m, Number(b, 0, 1)), told |-> DecodeStatus(SubSeq(b, 2, 1 + m), ListLayout(v))]
    BY <1>4 DEF Listed
  <2>. QED
    BY <1>9, <2>1, <2>2, <2>3, Zenon
<1>13. b # << >>
  BY <1>0, <1>4, <1>6
<1>. QED
  BY <1>5, <1>11, <1>12, <1>13 DEF f, b, h, e, g, n

(* The handles of the dependents, after their number. *)
LEMMA DependentsRead ==
  ASSUME NEW deps \in Seq(Nat), NEW v, NEW on, NEW listed
  PROVE  LET f == <<<<Len(deps), SizeT>>>> \o [i \in DOMAIN deps |-> <<deps[i], 4>>]
         IN /\ f \in Seq(Field) /\ Readable(Reply.DEPENDENTS, Pack(f), v)
            /\ Result(Reply.DEPENDENTS, Pack(f), v, on, listed) = deps
<1>. DEFINE n == Len(deps)
            e == <<<<n, SizeT>>>>
            g == [i \in DOMAIN deps |-> <<deps[i], 4>>]
            f == e \o g
            b == Pack(f)
            at == [i \in 1 .. n + 2 |-> IF i = 1 THEN 0 ELSE SizeT + 4 * (i - 2)]
<1>0. n \in Nat /\ n \in Things /\ SizeT \in Nat /\ SizeT > 0 /\ DOMAIN deps = 1 .. n /\ \A i \in 1 .. n : deps[i] \in Nat
  BY LenProperties, ConstantsTyped, NumbersAreThings
<1>1. e \in Seq(Field) /\ Len(e) = 1 /\ e[1] = <<n, SizeT>>
  BY <1>0, OneField
<1>2. g \in Seq(Field) /\ Len(g) = n /\ \A i \in 1 .. n : g[i] = <<deps[i], 4>>
  <2>1. \A i \in 1 .. n : <<deps[i], 4>> \in Field
    BY <1>0 DEF Field, Things
  <2>2. g \in [1 .. n -> Field]
    BY <1>0, <2>1
  <2>. QED
    BY <1>0, <2>2
<1>3. /\ f \in Seq(Field) /\ Len(f) = 1 + n /\ f[1] = <<n, SizeT>>
      /\ \A i \in 1 .. n : f[1 + i] = <<deps[i], 4>>
  <2>. HIDE DEF e, g
  <2>0. e \in Seq(Field) /\ g \in Seq(Field)
    BY <1>1, <1>2
  <2>1. /\ Len(e \o g) = Len(e) + Len(g) /\ \A i \in 1 .. Len(e) : (e \o g)[i] = e[i]
        /\ \A i \in 1 .. Len(g) : (e \o g)[Len(e) + i] = g[i]
    BY <2>0, ConcatProperties
  <2>2. (e \o g)[1] = e[1]
    BY <1>1, <2>1
  <2>. QED
    BY <1>0, <1>1, <1>2, <2>1, <2>2, ConcatProperties
<1>4. at[1] = 0 /\ \A i \in 1 .. n + 1 : at[i] \in Nat /\ at[i + 1] = SizeT + 4 * (i - 1)
  BY <1>0
<1>. HIDE DEF f, at, e, g
<1>5. Offsets(f, at)
  <2>1. ASSUME NEW i \in 1 .. Len(f) PROVE at[i] \in Nat /\ at[i + 1] = at[i] + f[i][2]
    <3>1. CASE i = 1
      BY <1>0, <1>3, <1>4, <3>1
    <3>2. CASE i # 1
      <4>1. i - 1 \in 1 .. n /\ i \in 1 .. n + 1 /\ i - 1 \in 1 .. n + 1 /\ 1 + (i - 1) = i /\ (i - 1) + 1 = i
        BY <1>0, <1>3, <3>2
      <4>2. f[i] = <<deps[i - 1], 4>>
        BY <1>3, <4>1
      <4>3. at[i] = SizeT + 4 * ((i - 1) - 1) /\ at[i + 1] = SizeT + 4 * (i - 1)
        BY <1>4, <4>1
      <4>4. at[i] \in Nat
        BY <1>4, <4>1, Zenon
      <4>5. f[i][2] = 4
        BY <4>2
      <4>. QED
        BY <1>0, <4>1, <4>3, <4>4, <4>5, SMTT(40)
    <3>. QED
      BY <3>1, <3>2
  <2>. QED
    BY <1>4, <2>1 DEF Offsets
<1>6. Len(b) = at[Len(f) + 1] /\ \A i \in 1 .. Len(f) : Holds(b, at[i], f[i][1], f[i][2])
  BY <1>3, <1>5, PackLaid
<1>7. b \in Seq(Byte) /\ Len(b) = SizeT + 4 * n
  BY <1>0, <1>3, <1>4, <1>6, PackType
<1>. HIDE DEF b
<1>8. Holds(b, 0, n, SizeT)
  <2>1. 1 \in 1 .. Len(f)
    BY <1>0, <1>3
  <2>. QED
    BY <1>3, <1>4, <1>6, <2>1
<1>9. ASSUME NEW i \in 1 .. n PROVE Number(b, SizeT + 4 * (i - 1), 4) = deps[i]
  <2>1. 1 + i \in 1 .. Len(f) /\ i + 1 = 1 + i /\ i \in 1 .. n + 1
    BY <1>0, <1>3
  <2>2. Holds(b, at[1 + i], f[1 + i][1], f[1 + i][2])
    BY <1>6, <2>1
  <2>3. f[1 + i] = <<deps[i], 4>> /\ at[1 + i] = SizeT + 4 * (i - 1)
    BY <1>3, <1>4, <2>1
  <2>4. Holds(b, SizeT + 4 * (i - 1), deps[i], 4)
    BY <2>2, <2>3
  <2>. DEFINE o == SizeT + 4 * (i - 1)
  <2>5. o \in Nat /\ 4 \in Nat /\ 4 > 0 /\ deps[i] \in Nat
    BY <1>0
  <2>. HIDE DEF o
  <2>6. Holds(b, o, deps[i], 4)
    BY <2>4 DEF o
  <2>7. Number(b, o, 4) = deps[i]
    BY <2>5, <2>6, ValueRead
  <2>. QED
    BY <2>7 DEF o
<1>10. KnownAfter(Reply.DEPENDENTS, b, v, SizeT)
  <2>1. \A q : Wanted(Reply.DEPENDENTS, q, v) = IF Len(q) < SizeT THEN SizeT ELSE SizeT + 4 * Number(q, 0, SizeT)
    BY ReplyCodes DEF Wanted, IsInfo
  <2>2. ASSUME NEW k \in 0 .. Len(b), SizeT <= k PROVE Number(SubSeq(b, 1, k), 0, SizeT) = n
    <3>1. 0 + SizeT <= k
      BY <1>0, <2>2
    <3>. QED
      BY <1>0, <1>7, <1>8, <3>1, LengthRead
  <2>3. ASSUME NEW k \in 0 .. Len(b)
        PROVE  Wanted(Reply.DEPENDENTS, SubSeq(b, 1, k), v) = IF k < SizeT THEN SizeT ELSE Len(b)
    <3>1. Len(SubSeq(b, 1, k)) = k
      BY <1>7, Beginnings
    <3>2. Wanted(Reply.DEPENDENTS, SubSeq(b, 1, k), v)
            = IF k < SizeT THEN SizeT ELSE SizeT + 4 * Number(SubSeq(b, 1, k), 0, SizeT)
      BY <2>1, <3>1
    <3>. QED
      BY <1>0, <1>7, <2>2, <3>2, SMTT(40)
  <2>. QED
    BY <2>3 DEF KnownAfter
<1>11. Readable(Reply.DEPENDENTS, b, v)
  <2>1. SizeT <= Len(b)
    BY <1>0, <1>7
  <2>. QED
    BY <1>0, <1>7, <1>10, <2>1, ReadableAs
<1>12. Result(Reply.DEPENDENTS, b, v, on, listed) = deps
  <2>1. Number(b, 0, SizeT) = n
    BY <1>0, <1>8, ValueRead
  <2>2. Result(Reply.DEPENDENTS, b, v, on, listed) = [i \in 1 .. Number(b, 0, SizeT) |-> Number(b, SizeT + 4 * (i - 1), 4)]
    BY ReplyCodes DEF Result
  <2>3. Result(Reply.DEPENDENTS, b, v, on, listed) = [i \in 1 .. n |-> deps[i]]
    BY <1>9, <2>1, <2>2
  <2>. QED
    BY <1>0, <2>3
<1>. QED
  BY <1>3, <1>11, <1>12 DEF f, b, e, g, n

-----------------------------------------------------------------------------
(* What dinit sends by itself.                                             *)

InfoBody(fields) == Pack(<<<<2 + Len(Pack(fields)), 1>>>>) \o Pack(fields)

LEMMA InfoApart ==
  ASSUME NEW code \in Nat, code >= 100
  PROVE  /\ code # Reply.CPVERSION /\ code # Reply.SERVICERECORD /\ code # Reply.SERVICESTATUS
         /\ code # Reply.SVCINFO /\ code # Reply.SERVICE_LOG /\ code # Reply.ALLENV /\ code # Reply.LOADER_MECH
         /\ code # Reply.DEPENDENTS
BY ReplyCodes

LEMMA InfoRead ==
  ASSUME NEW code \in Nat, code >= 100, NEW fields \in Seq(Field)
  PROVE  /\ InfoPacket(code, fields) = <<HeadByte(code)>> \o InfoBody(fields)
         /\ InfoBody(fields) \in Seq(Byte) /\ InfoBody(fields) # << >>
         /\ \A v : Readable(code, InfoBody(fields), v)
<1>. DEFINE p == Pack(fields)
            n == 2 + Len(p)
            e == <<<<n, 1>>>>
            x == Pack(e)
            b == InfoBody(fields)
<1>1. p \in Seq(Byte) /\ Len(p) \in Nat
  BY PackType, LenProperties
<1>2. n \in Nat /\ n \in Things /\ 1 \in Nat /\ 0 \in Nat
  BY <1>1, NumbersAreThings
<1>. HIDE DEF p
<1>3. e \in Seq(Field) /\ x \in Seq(Byte) /\ Len(x) = 1 /\ Holds(x, 0, n, 1)
  <2>. HIDE DEF n
  <2>. QED
    BY <1>2, OneField, Zenon
<1>4. b = x \o p
  BY DEF InfoBody, p
<1>5. InfoPacket(code, fields) = <<HeadByte(code)>> \o b
  <2>1. InfoPacket(code, fields) = Packet(code, e) \o p
    BY DEF InfoPacket, p
  <2>. HIDE DEF e
  <2>2. Packet(code, e) = <<HeadByte(code)>> \o x
    BY <1>3, PacketRead
  <2>3. <<HeadByte(code)>> \in Seq(Byte)
    BY DEF HeadByte, Byte, Things
  <2>. HIDE DEF x, b
  <2>4. (<<HeadByte(code)>> \o x) \o p = <<HeadByte(code)>> \o (x \o p)
    BY <1>1, <1>3, <2>3, ConcatAssociative
  <2>. QED
    BY <1>4, <2>1, <2>2, <2>4
<1>. HIDE DEF x, e, b
<1>6. b \in Seq(Byte) /\ Len(b) = 1 + Len(p)
  <2>1. x \o p \in Seq(Byte) /\ Len(x \o p) = Len(x) + Len(p)
    BY <1>1, <1>3, ConcatProperties
  <2>. QED
    BY <1>3, <1>4, <2>1
<1>7. Holds(b, 0, n, 1)
  BY <1>1, <1>2, <1>3, <1>4, HoldsMore
<1>8. ASSUME NEW v PROVE Readable(code, b, v)
  <2>1. \A q : Wanted(code, q, v) = IF q = << >> THEN 1 ELSE Number(q, 0, 1) - 1
    BY InfoApart DEF Wanted, IsInfo, InfoSize
  <2>2. ASSUME NEW k \in 0 .. Len(b), 1 <= k PROVE Number(SubSeq(b, 1, k), 0, 1) = n
    <3>1. 0 + 1 <= k /\ 1 > 0
      BY <2>2
    <3>. HIDE DEF n
    <3>. QED
      BY <1>2, <1>6, <1>7, <3>1, LengthRead, Zenon
  <2>3. ASSUME NEW k \in 0 .. Len(b)
        PROVE  Wanted(code, SubSeq(b, 1, k), v) = IF k < 1 THEN 1 ELSE Len(b)
    <3>1. SubSeq(b, 1, k) = << >> <=> k = 0
      BY <1>6, Beginnings
    <3>2. CASE k < 1
      <4>1. k = 0
        BY <1>1, <1>6, <3>2
      <4>. QED
        BY <2>1, <3>1, <3>2, <4>1
    <3>3. CASE ~ (k < 1)
      <4>1. k # 0 /\ 1 <= k
        BY <1>1, <1>6, <3>3
      <4>2. Wanted(code, SubSeq(b, 1, k), v) = Number(SubSeq(b, 1, k), 0, 1) - 1
        BY <2>1, <3>1, <4>1
      <4>3. Number(SubSeq(b, 1, k), 0, 1) = n
        BY <2>2, <4>1
      <4>. QED
        BY <1>1, <1>6, <3>3, <4>2, <4>3
    <3>. QED
      BY <3>2, <3>3
  <2>4. KnownAfter(code, b, v, 1)
    BY <2>3 DEF KnownAfter
  <2>5. 1 <= Len(b)
    BY <1>1, <1>6
  <2>. QED
    BY <1>2, <1>6, <2>4, <2>5, ReadableAs
<1>9. b # << >>
  BY <1>1, <1>6
<1>. QED
  BY <1>5, <1>6, <1>8, <1>9 DEF b

LEMMA InfoHolds ==
  ASSUME NEW fields \in Seq(Field), NEW at \in Nat, NEW n \in Nat, NEW x, Holds(Pack(fields), at, x, n)
  PROVE  Holds(InfoBody(fields), 1 + at, x, n)
<1>. DEFINE p == Pack(fields)
            m == 2 + Len(p)
            y == Pack(<<<<m, 1>>>>)
<1>1. p \in Seq(Byte) /\ Len(p) \in Nat
  BY PackType, LenProperties
<1>. HIDE DEF p
<1>2. m \in Things /\ 1 \in Nat
  BY <1>1, NumbersAreThings
<1>3. y \in Seq(Byte) /\ Len(y) = 1
  <2>. HIDE DEF m
  <2>. QED
    BY <1>2, OneField, Zenon
<1>. HIDE DEF y
<1>4. Holds(y \o p, Len(y) + at, x, n)
  BY <1>1, <1>3, HoldsBehind DEF p
<1>. QED
  BY <1>3, <1>4 DEF InfoBody, y, p

LEMMA InfoRest ==
  ASSUME NEW f \in Seq(Field), NEW g \in Seq(Field)
  PROVE  Drop(InfoBody(f \o g), 1 + Len(Pack(f))) = Pack(g)
<1>. DEFINE p == Pack(f)
            q == Pack(g)
            m == 2 + Len(Pack(f \o g))
            y == Pack(<<<<m, 1>>>>)
<1>1. p \in Seq(Byte) /\ q \in Seq(Byte) /\ Pack(f \o g) = p \o q /\ f \o g \in Seq(Field)
  BY PackType, PackConcat, ConcatProperties
<1>2. m \in Things /\ 1 \in Nat
  <2>1. Len(Pack(f \o g)) \in Nat
    BY <1>1, PackType, LenProperties
  <2>. QED
    BY <2>1, NumbersAreThings
<1>3. y \in Seq(Byte) /\ Len(y) = 1
  <2>. HIDE DEF m
  <2>. QED
    BY <1>2, OneField, Zenon
<1>4. InfoBody(f \o g) = y \o (p \o q)
  BY <1>1 DEF InfoBody
<1>. HIDE DEF y, p, q
<1>5. y \o (p \o q) = (y \o p) \o q
  <2>1. y \in Seq(Byte) /\ p \in Seq(Byte) /\ q \in Seq(Byte)
    BY <1>1, <1>3
  <2>. QED
    BY <2>1, ConcatAssociative, SMTT(40)
<1>6. y \o p \in Seq(Byte) /\ Len(y \o p) = 1 + Len(p)
  <2>1. y \o p \in Seq(Byte) /\ Len(y \o p) = Len(y) + Len(p)
    BY <1>1, <1>3, ConcatProperties
  <2>. QED
    BY <1>3, <2>1
<1>7. SubSeq((y \o p) \o q, Len(y \o p) + 1, Len((y \o p) \o q)) = q
  BY <1>1, <1>6, RestOf
<1>. QED
  BY <1>4, <1>5, <1>6, <1>7 DEF Drop, p, q

EventFields(s, event, c, layout) == <<<<Handle[s], 4>>, <<Code(ServiceEvent, event), 1>>>> \o Layout(c, layout)

LEMMA EventRead ==
  ASSUME NEW s \in Services, NEW event \in Events, NEW c \in Statuses, NEW v, NEW w, Alike(v, w)
  PROVE  LET b == InfoBody(EventFields(s, event, c, w))
         IN /\ EventFields(s, event, c, w) \in Seq(Field)
            /\ Number(b, 1, 4) = Handle[s] /\ Member(ServiceEvent, Number(b, 5, 1)) = event
            /\ DecodeStatus(Drop(b, 6), v) = Told(c, w)
<1>. DEFINE x == Handle[s]
            y == Code(ServiceEvent, event)
            f == <<<<x, 4>>, <<y, 1>>>>
            g == Layout(c, w)
            h == f \o g
            b == InfoBody(h)
<1>0. x \in Nat /\ x \in Things /\ y \in Nat /\ y \in Things /\ Member(ServiceEvent, y) = event /\ w \in Nat
  <2>1. event \in Range(ServiceEvent)
    BY CodecAssumption
  <2>. QED
    BY <2>1, ConstantsTyped, EnumsRead, NumbersAreThings DEF Alike
<1>00. 4 \in Nat /\ 1 \in Nat /\ 0 \in Nat /\ 5 \in Nat /\ 4 > 0 /\ 1 > 0
  OBVIOUS
<1>. HIDE DEF x, y
<1>1. f \in Seq(Field) /\ Pack(f) \in Seq(Byte) /\ Len(Pack(f)) = 4 + 1 /\ Holds(Pack(f), 0, x, 4) /\ Holds(Pack(f), 4, y, 1)
  BY <1>0, <1>00, TwoFields, ZenonT(60)
<1>. HIDE DEF f
<1>2. g \in Seq(Field) /\ Pack(g) \in Seq(Byte)
  BY <1>0, LayoutTyped, PackType
<1>3. h \in Seq(Field) /\ Pack(h) = Pack(f) \o Pack(g)
  BY <1>1, <1>2, PackConcat, ConcatProperties
<1>4. Holds(Pack(h), 0, x, 4) /\ Holds(Pack(h), 4, y, 1)
  <2>1. Holds(Pack(f) \o Pack(g), 0, x, 4) /\ Holds(Pack(f) \o Pack(g), 4, y, 1)
    BY <1>00, <1>1, <1>2, HoldsMore
  <2>. QED
    BY <1>3, <2>1
<1>5. Drop(b, 1 + Len(Pack(f))) = Pack(g)
  BY <1>1, <1>2, InfoRest
<1>. HIDE DEF h, b
<1>6. Holds(InfoBody(h), 1 + 0, x, 4) /\ Holds(InfoBody(h), 1 + 4, y, 1)
  BY <1>00, <1>3, <1>4, InfoHolds, Zenon
<1>7. Holds(b, 1, x, 4) /\ Holds(b, 5, y, 1)
  BY <1>6 DEF b
<1>8. Number(b, 1, 4) = x /\ Number(b, 5, 1) = y
  BY <1>0, <1>00, <1>7, ValueRead
<1>9. Drop(b, 6) = Pack(g)
  BY <1>1, <1>5
<1>10. DecodeStatus(Pack(g), v) = Told(c, w)
  BY AlikeRead
<1>. QED
  BY <1>0, <1>3, <1>8, <1>9, <1>10 DEF EventFields, b, h, f, x, y

LEMMA VariableRead ==
  ASSUME NEW t \in Services, NEW overridden \in {0, 1}, NEW v
  PROVE  LET f == <<<<overridden, 1>>, <<Size[t], 2>>, <<t, Size[t]>>>>
         IN f \in Seq(Field) /\ Event(Info.ENVEVENT, InfoBody(f), v) = <<Entry("variable", <<overridden, t>>)>>
<1>. DEFINE n == Size[t]
            o == overridden
            f == <<<<o, 1>>, <<n, 2>>, <<t, n>>>>
            b == InfoBody(f)
<1>0. n \in Nat /\ n > 0 /\ n \in Things /\ t \in Things /\ o \in Nat /\ o \in Things
  BY ConstantsTyped, NumbersAreThings
<1>00. 1 \in Nat /\ 2 \in Nat /\ 4 \in Nat /\ 0 \in Nat /\ 1 > 0 /\ 2 > 0 /\ 1 + 2 \in Nat
  OBVIOUS
<1>. HIDE DEF n
<1>1. f \in Seq(Field) /\ Holds(Pack(f), 0, o, 1) /\ Holds(Pack(f), 1, n, 2) /\ Holds(Pack(f), 1 + 2, t, n)
  <2>1. LaidThree(o, 1, n, 2, t, n)
    BY <1>0, <1>00, ThreeFields, Zenon
  <2>. QED
    BY <2>1 DEF LaidThree
<1>. HIDE DEF f
<1>2. Holds(InfoBody(f), 1 + 0, o, 1) /\ Holds(InfoBody(f), 1 + 1, n, 2) /\ Holds(InfoBody(f), 1 + (1 + 2), t, n)
  BY <1>0, <1>00, <1>1, InfoHolds, Zenon
<1>3. Holds(b, 1, o, 1) /\ Holds(b, 2, n, 2) /\ Holds(b, 4, t, n)
  BY <1>2
<1>. HIDE DEF b
<1>4. Number(b, 1, 1) = o /\ Number(b, 2, 2) = n /\ Value(b, 4, n) = t
  BY <1>0, <1>00, <1>3, ValueRead
<1>5. Event(Info.ENVEVENT, b, v) = <<Entry("variable", <<Number(b, 1, 1), Value(b, 4, Number(b, 2, 2))>>)>>
  BY InfoCodes DEF Event
<1>6. Event(Info.ENVEVENT, b, v) = <<Entry("variable", <<o, t>>)>>
  BY <1>4, <1>5
<1>. QED
  BY <1>1, <1>6 DEF b, f, n

-----------------------------------------------------------------------------
(* The environment: texts, each before a NUL.                              *)

Terminated == [t \in Texts |-> Pack(<<<<t, Size[t]>>, <<0, 1>>>>)]

LEMMA TerminatedType ==
  /\ Terminated \in [Texts -> Seq(Byte)]
  /\ \A t \in Texts : /\ Terminated[t] \in Seq(Byte) /\ Len(Terminated[t]) = Size[t] + 1
                      /\ Holds(Terminated[t], 0, t, Size[t]) /\ Holds(Terminated[t], Size[t], 0, 1)
<1>1. ASSUME NEW t \in Texts
      PROVE  LET b == Pack(<<<<t, Size[t]>>, <<0, 1>>>>)
             IN b \in Seq(Byte) /\ Len(b) = Size[t] + 1 /\ Holds(b, 0, t, Size[t]) /\ Holds(b, Size[t], 0, 1)
  <2>1. t \in Things /\ Size[t] \in Nat /\ 0 \in Things /\ 1 \in Nat
    BY ConstantsTyped, NumbersAreThings
  <2>. QED
    BY <2>1, TwoFields
<1>2. \A t \in Texts : Terminated[t] = Pack(<<<<t, Size[t]>>, <<0, 1>>>>)
  BY DEF Terminated
<1>3. Terminated \in [Texts -> Seq(Byte)]
  BY <1>1 DEF Terminated
<1>. QED
  BY <1>1, <1>2, <1>3

\* Where the texts of a block end, and where the one after i does.
Ends(block) == {0} \union {i \in DOMAIN block : block[i].of = 0}
Follows(j, end, i) == j \in end /\ j > i /\ \A k \in end : k > i => j <= k
Following(end, i) == CHOOSE j \in end : j > i /\ \A k \in end : k > i => j <= k

LEMMA FollowingIs ==
  ASSUME NEW end \in SUBSET Nat, NEW i \in Nat, NEW j \in Nat, Follows(j, end, i)
  PROVE  Following(end, i) = j
<1>1. j \in end /\ j > i /\ \A k \in end : k > i => j <= k
  BY DEF Follows
<1>. DEFINE f == Following(end, i)
<1>2. f \in end /\ f > i /\ \A k \in end : k > i => f <= k
  BY <1>1 DEF Following
<1>3. f <= j /\ j <= f /\ f \in Nat
  BY <1>1, <1>2
<1>. QED
  BY <1>3

LEMMA FollowsSome ==
  ASSUME NEW end \in SUBSET Nat, NEW i \in Nat, NEW m \in end, m > i
  PROVE  \E j \in end : Follows(j, end, i)
<1>. DEFINE T == {j \in end : j > i}
<1>1. T \subseteq Nat /\ T # {}
  OBVIOUS
<1>2. PICK j \in T : \A k \in T : j <= k
  <2>. HIDE DEF T
  <2>. QED
    BY <1>1, LeastNumber
<1>. QED
  BY <1>2 DEF Follows

EnvRead(block, texts) ==
  /\ block \in Seq(Byte)
  /\ Len(block) \in Ends(block)
  /\ DecodeEnv(block) = Range(texts)

(* One more text before its NUL is one more text read. *)
LEMMA EnvMore ==
  ASSUME NEW texts \in Seq(Texts), NEW t \in Texts, NEW block, EnvRead(block, texts)
  PROVE  EnvRead(block \o Terminated[t], Append(texts, t))
<1>. DEFINE n == Size[t]
            more == block \o Terminated[t]
            L == Len(block)
            M == L + n + 1
            E == Ends(block)
            F == Ends(more)
<1>1. block \in Seq(Byte) /\ L \in E /\ DecodeEnv(block) = Range(texts) /\ L \in Nat /\ DOMAIN block = 1 .. L
  BY LenProperties DEF EnvRead
<1>2. /\ Terminated[t] \in Seq(Byte) /\ Len(Terminated[t]) = n + 1 /\ n \in Nat /\ n > 0 /\ t # 0
      /\ Holds(Terminated[t], 0, t, n) /\ Holds(Terminated[t], n, 0, 1)
  BY TerminatedType, ConstantsTyped
<1>. HIDE DEF n
<1>3. /\ more \in Seq(Byte) /\ Len(more) = M /\ DOMAIN more = 1 .. M
      /\ \A i \in 1 .. L : more[i] = block[i]
  <2>0. block \in Seq(Byte) /\ Terminated[t] \in Seq(Byte)
    BY <1>1, <1>2
  <2>1. more \in Seq(Byte) /\ Len(more) = Len(block) + Len(Terminated[t])
        /\ \A i \in 1 .. Len(block) : more[i] = block[i]
    BY <2>0, ConcatProperties
  <2>2. Len(more) = M
    BY <1>1, <1>2, <2>1
  <2>. HIDE DEF more, M
  <2>. QED
    BY <2>1, <2>2, LenProperties
<1>4. Holds(more, L + 0, t, n) /\ Holds(more, L + n, 0, 1)
  BY <1>1, <1>2, HoldsBehind
<1>. HIDE DEF more
<1>5. /\ \A i \in 1 .. n : more[L + i].of = t
      /\ more[M].of = 0
  <2>1. \A i \in 1 .. n : more[(L + 0) + i] = [of |-> t, part |-> i, size |-> n]
    BY <1>4 DEF Holds
  <2>4. ASSUME NEW i \in 1 .. n PROVE more[(L + 0) + i].of = t
    <3>1. more[(L + 0) + i] = [of |-> t, part |-> i, size |-> n]
      BY <2>1, Zenon
    <3>. QED
      BY <3>1
  <2>2. \A i \in 1 .. n : more[L + i].of = t
    <3>1. L \in Nat
      BY <1>1
    <3>. HIDE DEF L
    <3>2. ASSUME NEW i \in 1 .. n PROVE more[L + i].of = t
      <4>1. (L + 0) + i = L + i
        BY <3>1
      <4>2. more[(L + 0) + i].of = t
        BY <2>4, Zenon
      <4>. QED
        BY <4>1, <4>2
    <3>. QED
      BY <3>2
  <2>3. more[(L + n) + 1] = [of |-> 0, part |-> 1, size |-> 1]
    BY <1>4 DEF Holds
  <2>. QED
    BY <2>2, <2>3
<1>6. E \in SUBSET Nat /\ \A i \in E : i <= L
  BY <1>1 DEF Ends
<1>7. F = E \union {M}
  <2>1. M \in 1 .. M /\ M \in Nat
    BY <1>1, <1>2
  <2>2. ASSUME NEW i \in 1 .. M PROVE more[i].of = 0 <=> (i \in 1 .. L /\ block[i].of = 0) \/ i = M
    <3>1. CASE i <= L
      BY <1>1, <1>2, <1>3, <3>1
    <3>2. CASE i > L /\ i # M
      <4>1. i - L \in 1 .. n /\ L + (i - L) = i
        <5>1. L \in Nat /\ i \in Nat /\ i <= L + n + 1 /\ i > L /\ i # L + n + 1 /\ n \in Nat
          BY <1>1, <1>2, <3>2
        <5>. HIDE DEF L
        <5>. QED
          BY <5>1
      <4>2. more[i].of = t
        BY <1>5, <4>1
      <4>. QED
        BY <1>2, <3>2, <4>2
    <3>3. CASE i = M
      BY <1>5, <3>3
    <3>. QED
      BY <1>1, <1>2, <3>1, <3>2, <3>3
  <2>3. F = {0} \union {i \in 1 .. M : more[i].of = 0} /\ E = {0} \union {i \in 1 .. L : block[i].of = 0}
    BY <1>1, <1>3 DEF Ends
  <2>4. 1 .. L \subseteq 1 .. M
    BY <1>1, <1>2
  <2>. HIDE DEF F, E, M
  <2>. QED
    BY <2>1, <2>2, <2>3, <2>4
<1>8. F \in SUBSET Nat /\ M \in F /\ M > L /\ M \in Nat
  BY <1>1, <1>2, <1>6, <1>7
<1>. DEFINE Text(b, end, i) == Value(b, i, Following(end, i) - i - 1)
<1>9. ASSUME NEW i \in E \ {L} PROVE Text(more, F, i) = Text(block, E, i)
  <2>1. i \in Nat /\ L > i
    BY <1>1, <1>6
  <2>2. PICK j \in E : Follows(j, E, i)
    BY <1>1, <1>6, <2>1, FollowsSome
  <2>3. j \in Nat /\ j <= L /\ j > i
    BY <1>6, <2>2 DEF Follows
  <2>4. Follows(j, F, i)
    BY <1>7, <1>8, <2>2, <2>3 DEF Follows
  <2>5. Following(E, i) = j /\ Following(F, i) = j
    BY <1>6, <1>8, <2>1, <2>2, <2>3, <2>4, FollowingIs
  <2>6. Value(more, i, (j - i) - 1) = Value(block, i, (j - i) - 1)
    <3>. DEFINE m == (j - i) - 1
    <3>0. L \in Nat /\ n \in Nat /\ Len(block) = L /\ Len(more) = L + n + 1
      BY <1>1, <1>2, <1>3
    <3>. HIDE DEF L
    <3>1. i + 1 \in 1 .. L /\ \A k \in 1 .. m : i + k \in 1 .. L
      BY <2>1, <2>3, <3>0
    <3>2. more[i + 1] = block[i + 1] /\ \A k \in 1 .. m : more[i + k] = block[i + k]
      BY <1>3, <3>1
    <3>3. i + m <= L /\ i + m <= L + n + 1
      BY <2>1, <2>3, <3>0
    <3>. HIDE DEF m
    <3>4. Value(more, i, m) = Value(block, i, m)
      BY <3>0, <3>2, <3>3 DEF Value
    <3>. QED
      BY <3>4 DEF m
  <2>. QED
    BY <2>5, <2>6
<1>10. Text(more, F, L) = t
  <2>1. Follows(M, F, L)
    BY <1>6, <1>7, <1>8 DEF Follows
  <2>2. Following(F, L) = M
    BY <1>1, <1>8, <2>1, FollowingIs
  <2>3. (M - L) - 1 = n /\ L + 0 = L
    BY <1>1, <1>2
  <2>4. Value(more, L, n) = t
    BY <1>1, <1>2, <1>4, <2>3, ValueRead
  <2>. QED
    BY <2>2, <2>3, <2>4
<1>11. DecodeEnv(block) = {Text(block, E, i) : i \in E \ {L}}
  BY DEF DecodeEnv, Ends, Following
<1>12. DecodeEnv(more) = {Text(more, F, i) : i \in F \ {M}}
  <2>1. DecodeEnv(more) = {Text(more, F, i) : i \in F \ {Len(more)}}
    BY DEF DecodeEnv, Ends, Following
  <2>. QED
    BY <1>3, <2>1
<1>13. F \ {M} = E
  BY <1>6, <1>7, <1>8
<1>. HIDE DEF Text, E, F, M, L
<1>14. DecodeEnv(more) = DecodeEnv(block) \union {t}
  BY <1>1, <1>9, <1>10, <1>11, <1>12, <1>13
<1>15. Range(Append(texts, t)) = Range(texts) \union {t}
  <2>1. /\ Len(texts) \in Nat /\ DOMAIN texts = 1 .. Len(texts) /\ DOMAIN Append(texts, t) = 1 .. Len(texts) + 1
        /\ Append(texts, t)[Len(texts) + 1] = t /\ \A i \in 1 .. Len(texts) : Append(texts, t)[i] = texts[i]
    BY AppendProperties, LenProperties
  <2>. QED
    BY <2>1 DEF Range
<1>. QED
  BY <1>1, <1>3, <1>8, <1>14, <1>15 DEF EnvRead, more, F, M

LEMMA EnvNothing == EnvRead(<< >>, << >>)
<1>. DEFINE b == << >>
<1>1. b \in Seq(Byte) /\ Len(b) = 0 /\ DOMAIN b = {}
  OBVIOUS
<1>2. Ends(b) = {0}
  BY <1>1 DEF Ends
<1>3. DecodeEnv(b) = {} /\ Range(b) = {}
  <2>1. {0} \ {0} = {} /\ {0} \union {i \in {} : b[i].of = 0} = {0}
    OBVIOUS
  <2>. HIDE DEF b
  <2>2. DecodeEnv(b) = {}
    BY <1>1, <2>1 DEF DecodeEnv
  <2>. QED
    BY <1>1, <2>2 DEF Range
<1>. QED
  BY <1>1, <1>2, <1>3 DEF EnvRead

LEMMA EnvAllRead == \A texts \in Seq(Texts) : EnvRead(Joined(Terminated, texts), texts)
<1>. DEFINE T == {texts \in Seq(Texts) : EnvRead(Joined(Terminated, texts), texts)}
<1>1. << >> \in T
  BY EnvNothing, JoinedNothing, EmptySeq
<1>2. ASSUME NEW texts \in Seq(Texts), NEW t \in Texts, texts \in T PROVE Append(texts, t) \in T
  <2>1. EnvRead(Joined(Terminated, texts), texts)
    BY <1>2
  <2>2. Joined(Terminated, Append(texts, t)) = Joined(Terminated, texts) \o Terminated[t]
    BY TerminatedType, JoinedMore
  <2>3. EnvRead(Joined(Terminated, texts) \o Terminated[t], Append(texts, t))
    BY <2>1, EnvMore
  <2>. QED
    BY <2>2, <2>3, AppendProperties
<1>. HIDE DEF T
<1>3. Seq(Texts) \subseteq T
  BY <1>1, <1>2, SeqInduct
<1>. QED
  BY <1>3 DEF T

(* A packet with more behind its fields. *)
LEMMA PacketMore ==
  ASSUME NEW code \in Nat, NEW f \in Seq(Field), NEW more \in Seq(Byte)
  PROVE  /\ Packet(code, f) \o more = <<HeadByte(code)>> \o (Pack(f) \o more)
         /\ Pack(f) \o more \in Seq(Byte) /\ Len(Pack(f) \o more) = Len(Pack(f)) + Len(more)
<1>. DEFINE p == Pack(f)
            h == <<HeadByte(code)>>
<1>1. Packet(code, f) = h \o p /\ p \in Seq(Byte)
  BY PacketRead, PackType
<1>2. h \in Seq(Byte)
  BY DEF HeadByte, Byte, Things
<1>. HIDE DEF p, h
<1>3. (h \o p) \o more = h \o (p \o more)
  BY <1>1, <1>2, ConcatAssociative, SMTT(40)
<1>4. p \o more \in Seq(Byte) /\ Len(p \o more) = Len(p) + Len(more)
  BY <1>1, ConcatProperties
<1>. QED
  BY <1>1, <1>3, <1>4 DEF p, h

EnvBlock(texts) == FlattenSeq([i \in DOMAIN texts |-> Pack(<<<<texts[i], Size[texts[i]]>>, <<0, 1>>>>)])

LEMMA EnvironmentRead ==
  ASSUME NEW texts \in Seq(Texts), NEW v, NEW on, NEW listed
  PROVE  LET f == <<<<Len(EnvBlock(texts)), SizeT>>>>
             b == Pack(f) \o EnvBlock(texts)
         IN /\ f \in Seq(Field) /\ EnvBlock(texts) \in Seq(Byte) /\ Readable(Reply.ALLENV, b, v)
            /\ Result(Reply.ALLENV, b, v, on, listed) = Range(texts)
<1>. DEFINE block == EnvBlock(texts)
            n == Len(block)
            f == <<<<n, SizeT>>>>
            x == Pack(f)
            b == x \o block
<1>1. block = Joined(Terminated, texts)
  <2>1. \A i \in DOMAIN texts : texts[i] \in Texts
    OBVIOUS
  <2>2. [i \in DOMAIN texts |-> Pack(<<<<texts[i], Size[texts[i]]>>, <<0, 1>>>>)] = Mapped(Terminated, texts)
    BY <2>1 DEF Mapped, Terminated
  <2>. QED
    BY <2>2 DEF EnvBlock, Joined
<1>2. block \in Seq(Byte) /\ DecodeEnv(block) = Range(texts)
  BY <1>1, EnvAllRead DEF EnvRead
<1>3. n \in Nat /\ n \in Things /\ SizeT \in Nat /\ SizeT > 0
  BY <1>2, LenProperties, ConstantsTyped, NumbersAreThings
<1>. HIDE DEF block
<1>5. f \in Seq(Field) /\ x \in Seq(Byte) /\ Len(x) = SizeT /\ Holds(x, 0, n, SizeT)
  <2>. HIDE DEF n
  <2>. QED
    BY <1>3, OneField
<1>. HIDE DEF x, f
<1>6. b \in Seq(Byte) /\ Len(b) = SizeT + n
  <2>1. x \o block \in Seq(Byte) /\ Len(x \o block) = Len(x) + Len(block)
    BY <1>2, <1>5, ConcatProperties
  <2>. QED
    BY <1>5, <2>1
<1>7. Holds(b, 0, n, SizeT)
  BY <1>2, <1>3, <1>5, HoldsMore
<1>8. Drop(b, SizeT) = block
  BY <1>2, <1>5, RestOf DEF Drop
<1>. HIDE DEF b, n
<1>9. KnownAfter(Reply.ALLENV, b, v, SizeT)
  <2>1. \A q : Wanted(Reply.ALLENV, q, v) = IF Len(q) < SizeT THEN SizeT ELSE SizeT + Number(q, 0, SizeT)
    BY ReplyCodes DEF Wanted, IsInfo
  <2>2. ASSUME NEW k \in 0 .. Len(b), SizeT <= k PROVE Number(SubSeq(b, 1, k), 0, SizeT) = n
    <3>1. 0 + SizeT <= k
      BY <1>3, <2>2
    <3>. QED
      BY <1>3, <1>6, <1>7, <3>1, LengthRead
  <2>3. ASSUME NEW k \in 0 .. Len(b)
        PROVE  Wanted(Reply.ALLENV, SubSeq(b, 1, k), v) = IF k < SizeT THEN SizeT ELSE Len(b)
    <3>1. Len(SubSeq(b, 1, k)) = k
      BY <1>6, Beginnings
    <3>2. Wanted(Reply.ALLENV, SubSeq(b, 1, k), v)
            = IF k < SizeT THEN SizeT ELSE SizeT + Number(SubSeq(b, 1, k), 0, SizeT)
      BY <2>1, <3>1
    <3>. QED
      BY <1>3, <1>6, <2>2, <3>2
  <2>. QED
    BY <2>3 DEF KnownAfter
<1>10. Readable(Reply.ALLENV, b, v)
  <2>1. SizeT <= Len(b)
    BY <1>3, <1>6
  <2>. QED
    BY <1>3, <1>6, <1>9, <2>1, ReadableAs
<1>11. Result(Reply.ALLENV, b, v, on, listed) = Range(texts)
  BY <1>2, <1>8, ReplyCodes DEF Result
<1>. QED
  BY <1>2, <1>5, <1>10, <1>11 DEF block, b, x, f, n

-----------------------------------------------------------------------------
(* The loader: directories, each after its length.                         *)

Counted == [t \in Texts |-> Pack(<<<<Size[t], 4>>, <<t, Size[t]>>>>)]

LEMMA CountedType ==
  /\ Counted \in [Texts -> Seq(Byte)]
  /\ \A t \in Texts : /\ Counted[t] \in Seq(Byte) /\ Len(Counted[t]) = 4 + Size[t]
                      /\ Holds(Counted[t], 0, Size[t], 4) /\ Holds(Counted[t], 4, t, Size[t])
<1>1. ASSUME NEW t \in Texts
      PROVE  LET b == Pack(<<<<Size[t], 4>>, <<t, Size[t]>>>>)
             IN b \in Seq(Byte) /\ Len(b) = 4 + Size[t] /\ Holds(b, 0, Size[t], 4) /\ Holds(b, 4, t, Size[t])
  <2>1. t \in Things /\ Size[t] \in Nat /\ Size[t] \in Things /\ 4 \in Nat
    BY ConstantsTyped, NumbersAreThings
  <2>. QED
    BY <2>1, TwoFields
<1>2. \A t \in Texts : Counted[t] = Pack(<<<<Size[t], 4>>, <<t, Size[t]>>>>)
  BY DEF Counted
<1>3. Counted \in [Texts -> Seq(Byte)]
  BY <1>1 DEF Counted
<1>. QED
  BY <1>1, <1>2, <1>3

\* pos[i] is where the i-th directory ends.
Places(block, dirs, pos) ==
  /\ pos \in [0 .. Len(dirs) -> Nat] /\ pos[0] = 0 /\ pos[Len(dirs)] = Len(block)
  /\ \A i \in 1 .. Len(dirs) :
       /\ pos[i] = pos[i - 1] + 4 + Size[dirs[i]]
       /\ Holds(block, pos[i - 1], Size[dirs[i]], 4) /\ Holds(block, pos[i - 1] + 4, dirs[i], Size[dirs[i]])
Placed(block, dirs) == block \in Seq(Byte) /\ \E pos : Places(block, dirs, pos)

LEMMA PlacedMore ==
  ASSUME NEW dirs \in Seq(Texts), NEW t \in Texts, NEW block, Placed(block, dirs)
  PROVE  Placed(block \o Counted[t], Append(dirs, t))
<1>. DEFINE n == Len(dirs)
            c == Counted[t]
            more == block \o c
            longer == Append(dirs, t)
<1>1. block \in Seq(Byte) /\ n \in Nat
  BY LenProperties DEF Placed
<1>2. PICK pos : Places(block, dirs, pos)
  BY DEF Placed
<1>3. /\ pos \in [0 .. n -> Nat] /\ pos[0] = 0 /\ pos[n] = Len(block)
      /\ \A i \in 1 .. n :
           /\ pos[i] = pos[i - 1] + 4 + Size[dirs[i]]
           /\ Holds(block, pos[i - 1], Size[dirs[i]], 4) /\ Holds(block, pos[i - 1] + 4, dirs[i], Size[dirs[i]])
  BY <1>2 DEF Places
<1>4. /\ c \in Seq(Byte) /\ Len(c) = 4 + Size[t] /\ Holds(c, 0, Size[t], 4) /\ Holds(c, 4, t, Size[t])
      /\ Size[t] \in Nat
  BY CountedType, ConstantsTyped
<1>5. Len(longer) = n + 1 /\ longer[n + 1] = t /\ longer \in Seq(Texts) /\ \A i \in 1 .. n : longer[i] = dirs[i] /\ dirs[i] \in Texts
  BY AppendProperties, LenProperties
<1>. HIDE DEF c, longer
<1>6. more \in Seq(Byte) /\ Len(more) = Len(block) + Len(c)
  BY <1>1, <1>4, ConcatProperties
<1>7. Holds(more, Len(block) + 0, Size[t], 4) /\ Holds(more, Len(block) + 4, t, Size[t])
  <2>1. 0 \in Nat /\ 4 \in Nat
    OBVIOUS
  <2>. QED
    BY <1>1, <1>4, <2>1, HoldsBehind, Zenon
<1>8. ASSUME NEW at \in Nat, NEW k \in Nat, NEW x, Holds(block, at, x, k) PROVE Holds(more, at, x, k)
  BY <1>1, <1>4, <1>8, HoldsMore
<1>. HIDE DEF more, n
<1>. DEFINE new == [i \in 0 .. n + 1 |-> IF i = n + 1 THEN Len(more) ELSE pos[i]]
<1>9. Len(more) \in Nat /\ pos[n] \in Nat
  BY <1>1, <1>3, <1>6, LenProperties
<1>10. new \in [0 .. n + 1 -> Nat] /\ new[0] = 0 /\ new[n + 1] = Len(more) /\ \A i \in 0 .. n : new[i] = pos[i]
  BY <1>1, <1>3, <1>9
<1>. HIDE DEF new
<1>11. ASSUME NEW i \in 1 .. n + 1
       PROVE  /\ new[i] = new[i - 1] + 4 + Size[longer[i]]
              /\ Holds(more, new[i - 1], Size[longer[i]], 4) /\ Holds(more, new[i - 1] + 4, longer[i], Size[longer[i]])
  <2>1. CASE i = n + 1
    <3>1. i - 1 = n /\ n \in 0 .. n
      BY <1>1, <2>1
    <3>2. new[i - 1] = Len(block) /\ longer[i] = t /\ new[i] = Len(more)
      BY <1>3, <1>5, <1>10, <2>1, <3>1
    <3>3. Len(block) \in Nat
      BY <1>1, LenProperties
    <3>4. Len(more) = Len(block) + 4 + Size[t] /\ Len(block) + 0 = Len(block)
      <4>. DEFINE L == Len(block)
                  S == Size[t]
      <4>1. L \in Nat /\ S \in Nat /\ Len(more) = L + (4 + S)
        BY <1>4, <1>6, <3>3, Zenon
      <4>. HIDE DEF L, S
      <4>2. L + (4 + S) = L + 4 + S /\ L + 0 = L
        BY <4>1
      <4>3. Len(more) = L + 4 + S
        BY <4>1, <4>2, Zenon
      <4>. QED
        BY <4>2, <4>3 DEF L, S
    <3>. QED
      BY <1>7, <3>2, <3>4
  <2>2. CASE i # n + 1
    <3>1. i \in 1 .. n /\ i \in 0 .. n /\ i - 1 \in 0 .. n
      BY <1>1, <2>2
    <3>2. new[i] = pos[i] /\ new[i - 1] = pos[i - 1] /\ longer[i] = dirs[i] /\ dirs[i] \in Texts /\ pos[i - 1] \in Nat
      BY <1>3, <1>5, <1>10, <3>1
    <3>3. Size[dirs[i]] \in Nat /\ pos[i - 1] + 4 \in Nat /\ 4 \in Nat
      BY <3>2, ConstantsTyped
    <3>4. /\ Holds(block, pos[i - 1], Size[dirs[i]], 4) /\ Holds(block, pos[i - 1] + 4, dirs[i], Size[dirs[i]])
          /\ pos[i] = pos[i - 1] + 4 + Size[dirs[i]]
      BY <1>3, <3>1
    <3>5. Holds(more, pos[i - 1], Size[dirs[i]], 4) /\ Holds(more, pos[i - 1] + 4, dirs[i], Size[dirs[i]])
      BY <1>8, <3>2, <3>3, <3>4
    <3>. QED
      BY <3>2, <3>4, <3>5
  <2>. QED
    BY <2>1, <2>2
<1>12. Places(more, longer, new)
  BY <1>5, <1>10, <1>11 DEF Places
<1>. QED
  BY <1>6, <1>12 DEF Placed, more, longer, c

LEMMA AllPlaced == \A dirs \in Seq(Texts) : Placed(Joined(Counted, dirs), dirs)
<1>. DEFINE T == {dirs \in Seq(Texts) : Placed(Joined(Counted, dirs), dirs)}
<1>1. << >> \in T
  <2>. DEFINE e == << >>
              pos == [i \in 0 .. 0 |-> 0]
  <2>1. e \in Seq(Texts) /\ e \in Seq(Byte) /\ Len(e) = 0 /\ pos \in [0 .. 0 -> Nat] /\ pos[0] = 0
    OBVIOUS
  <2>2. Joined(Counted, e) = e
    BY JoinedNothing
  <2>. HIDE DEF e, pos
  <2>3. Places(e, e, pos)
    BY <2>1 DEF Places
  <2>. QED
    BY <2>1, <2>2, <2>3 DEF Placed, e
<1>2. ASSUME NEW dirs \in Seq(Texts), NEW t \in Texts, dirs \in T PROVE Append(dirs, t) \in T
  <2>1. Placed(Joined(Counted, dirs), dirs)
    BY <1>2
  <2>2. Joined(Counted, Append(dirs, t)) = Joined(Counted, dirs) \o Counted[t]
    BY CountedType, JoinedMore
  <2>3. Placed(Joined(Counted, dirs) \o Counted[t], Append(dirs, t))
    BY <2>1, PlacedMore
  <2>. QED
    BY <2>2, <2>3, AppendProperties
<1>. HIDE DEF T
<1>3. Seq(Texts) \subseteq T
  BY <1>1, <1>2, SeqInduct
<1>. QED
  BY <1>3 DEF T

\* pos[i] is where the i-th of the texts that are read from an offset on ends.
Walks(b, offset, n, pos) ==
  /\ pos \in [0 .. n -> Nat] /\ pos[0] = offset
  /\ \A i \in 1 .. n : pos[i] = pos[i - 1] + 4 + Number(b, pos[i - 1], 4)

LEMMA DirectoriesRead ==
  ASSUME NEW b, NEW offset \in Nat, NEW n \in Nat, NEW pos, Walks(b, offset, n, pos)
  PROVE  Directories(b, offset, n) = [i \in 1 .. n |-> Value(b, pos[i - 1] + 4, Number(b, pos[i - 1], 4))]
<1>. DEFINE at == CHOOSE at : at = [i \in 0 .. n |-> IF i = 0 THEN offset ELSE at[i - 1] + 4 + Number(b, at[i - 1], 4)]
<1>1. pos \in [0 .. n -> Nat] /\ pos[0] = offset /\ \A i \in 1 .. n : pos[i] = pos[i - 1] + 4 + Number(b, pos[i - 1], 4)
  BY DEF Walks
<1>2. pos = [i \in 0 .. n |-> IF i = 0 THEN offset ELSE pos[i - 1] + 4 + Number(b, pos[i - 1], 4)]
  <2>1. \A i \in 0 .. n : pos[i] = IF i = 0 THEN offset ELSE pos[i - 1] + 4 + Number(b, pos[i - 1], 4)
    BY <1>1
  <2>2. pos = [i \in 0 .. n |-> pos[i]]
    BY <1>1
  <2>. QED
    BY <2>1, <2>2
<1>3. at = [i \in 0 .. n |-> IF i = 0 THEN offset ELSE at[i - 1] + 4 + Number(b, at[i - 1], 4)]
  <2>1. \E f : f = [i \in 0 .. n |-> IF i = 0 THEN offset ELSE f[i - 1] + 4 + Number(b, f[i - 1], 4)]
    BY <1>2
  <2>. QED
    BY <2>1
<1>4. Directories(b, offset, n) = [i \in 1 .. n |-> Value(b, at[i - 1] + 4, Number(b, at[i - 1], 4))]
  BY DEF Directories
<1>. HIDE DEF at
<1>5. \A i \in 0 .. n : at[i] = IF i = 0 THEN offset ELSE at[i - 1] + 4 + Number(b, at[i - 1], 4)
  BY <1>3
<1>. DEFINE T == {i \in Nat : i \in 0 .. n => at[i] = pos[i]}
<1>6. 0 \in T
  BY <1>1, <1>5
<1>7. ASSUME NEW i \in Nat, i \in T PROVE i + 1 \in T
  <2>1. SUFFICES ASSUME i + 1 \in 0 .. n PROVE at[i + 1] = pos[i + 1]
    OBVIOUS
  <2>2. i + 1 # 0 /\ i + 1 \in 1 .. n /\ (i + 1) - 1 = i /\ i \in 0 .. n
    BY <2>1
  <2>3. at[i] = pos[i]
    BY <1>7, <2>2
  <2>4. at[i + 1] = at[i] + 4 + Number(b, at[i], 4)
    BY <1>5, <2>1, <2>2
  <2>5. pos[i + 1] = pos[i] + 4 + Number(b, pos[i], 4)
    BY <1>1, <2>2
  <2>. QED
    BY <2>3, <2>4, <2>5
<1>. HIDE DEF T
<1>8. Nat \subseteq T
  BY <1>6, <1>7, Induct
<1>9. \A i \in 1 .. n : at[i - 1] = pos[i - 1]
  BY <1>8 DEF T
<1>. QED
  BY <1>4, <1>9

MechBlock(dirs) == FlattenSeq([i \in DOMAIN dirs |-> Pack(<<<<Size[dirs[i]], 4>>, <<dirs[i], Size[dirs[i]]>>>>)])
MechFields(cwd, dirs) ==
  <<<<Code(LoaderType, "DIRLOAD"), 1>>, <<6 + 8 + Size[cwd] + Len(MechBlock(dirs)), 4>>, <<Len(dirs), 4>>,
    <<Size[cwd], 4>>, <<cwd, Size[cwd]>>>>

LEMMA MechLaid ==
  ASSUME NEW cwd \in Texts, NEW dirs \in Seq(Texts)
  PROVE  LET x == Pack(MechFields(cwd, dirs))
             n == Size[cwd]
             m == Len(MechBlock(dirs))
         IN /\ MechFields(cwd, dirs) \in Seq(Field) /\ MechBlock(dirs) = Joined(Counted, dirs)
            /\ MechBlock(dirs) \in Seq(Byte) /\ x \in Seq(Byte) /\ Len(x) = 13 + n
            /\ Holds(x, 0, Code(LoaderType, "DIRLOAD"), 1) /\ Holds(x, 1, 14 + n + m, 4) /\ Holds(x, 5, Len(dirs), 4)
            /\ Holds(x, 9, n, 4) /\ Holds(x, 13, cwd, n)
<1>. DEFINE block == MechBlock(dirs)
            m == Len(block)
            n == Size[cwd]
            k == Len(dirs)
            t == Code(LoaderType, "DIRLOAD")
            size == 6 + 8 + n + m
            f == <<<<t, 1>>, <<size, 4>>, <<k, 4>>, <<n, 4>>, <<cwd, n>>>>
            at == <<0, 1, 5, 9, 13, 13 + n>>
<1>1. block = Joined(Counted, dirs)
  <2>1. \A i \in DOMAIN dirs : dirs[i] \in Texts
    OBVIOUS
  <2>2. [i \in DOMAIN dirs |-> Pack(<<<<Size[dirs[i]], 4>>, <<dirs[i], Size[dirs[i]]>>>>)] = Mapped(Counted, dirs)
    BY <2>1 DEF Mapped, Counted
  <2>. QED
    BY <2>2 DEF MechBlock, Joined
<1>2. block \in Seq(Byte)
  BY <1>1, CountedType, JoinedType
<1>3. n \in Nat /\ m \in Nat /\ k \in Nat /\ t \in Nat /\ cwd \in Things
  BY <1>2, LenProperties, ConstantsTyped, EnumsRead, NumbersAreThings
<1>. HIDE DEF block, m, n, k, t
<1>4. size \in Nat /\ size = 14 + n + m
  BY <1>3
<1>. HIDE DEF size
<1>5. f \in Seq(Field)
  <2>1. \A y \in Nat, z \in Nat : <<y, z>> \in Field
    BY DEF Field, Things
  <2>2. <<cwd, n>> \in Field
    BY <1>3 DEF Field
  <2>3. <<t, 1>> \in Field /\ <<size, 4>> \in Field /\ <<k, 4>> \in Field /\ <<n, 4>> \in Field
    BY <1>3, <1>4, <2>1
  <2>. QED
    BY <2>2, <2>3
<1>6. /\ Len(f) = 5 /\ f[1] = <<t, 1>> /\ f[2] = <<size, 4>> /\ f[3] = <<k, 4>> /\ f[4] = <<n, 4>> /\ f[5] = <<cwd, n>>
  OBVIOUS
<1>7. at[1] = 0 /\ at[2] = 1 /\ at[3] = 5 /\ at[4] = 9 /\ at[5] = 13 /\ at[6] = 13 + n
  OBVIOUS
<1>. HIDE DEF f
<1>8. Offsets(f, at)
  BY <1>3, <1>6 DEF Offsets
<1>. HIDE DEF at
<1>9. Len(Pack(f)) = at[Len(f) + 1] /\ \A i \in 1 .. Len(f) : Holds(Pack(f), at[i], f[i][1], f[i][2])
  BY <1>5, <1>8, PackLaid
<1>10. Len(Pack(f)) = at[6] /\ \A i \in 1 .. 5 : Holds(Pack(f), at[i], f[i][1], f[i][2])
  BY <1>6, <1>9
<1>11. /\ Len(Pack(f)) = 13 + n
       /\ Holds(Pack(f), at[1], f[1][1], f[1][2]) /\ Holds(Pack(f), at[2], f[2][1], f[2][2])
       /\ Holds(Pack(f), at[3], f[3][1], f[3][2]) /\ Holds(Pack(f), at[4], f[4][1], f[4][2])
       /\ Holds(Pack(f), at[5], f[5][1], f[5][2])
  BY <1>7, <1>10
<1>12. /\ Holds(Pack(f), 0, t, 1) /\ Holds(Pack(f), 1, size, 4) /\ Holds(Pack(f), 5, k, 4)
       /\ Holds(Pack(f), 9, n, 4) /\ Holds(Pack(f), 13, cwd, n)
  BY <1>6, <1>7, <1>11
<1>13. MechFields(cwd, dirs) = f
  BY DEF MechFields, f, t, size, n, m, k, block
<1>14. Pack(f) \in Seq(Byte)
  BY <1>5, PackType
<1>. QED
  BY <1>1, <1>2, <1>4, <1>5, <1>11, <1>12, <1>13, <1>14 DEF block, m, n, k, t

(* The current directory and the directories that services are loaded from. *)
LEMMA MechRead ==
  ASSUME NEW cwd \in Texts, NEW dirs \in Seq(Texts), NEW v, NEW on, NEW listed
  PROVE  LET b == Pack(MechFields(cwd, dirs)) \o MechBlock(dirs)
         IN /\ Readable(Reply.LOADER_MECH, b, v)
            /\ Result(Reply.LOADER_MECH, b, v, on, listed) = [type |-> "DIRLOAD", cwd |-> cwd, dirs |-> dirs]
<1>. DEFINE block == MechBlock(dirs)
            m == Len(block)
            n == Size[cwd]
            k == Len(dirs)
            t == Code(LoaderType, "DIRLOAD")
            x == Pack(MechFields(cwd, dirs))
            b == x \o block
            o == 13 + n
<1>1. /\ block = Joined(Counted, dirs) /\ block \in Seq(Byte) /\ x \in Seq(Byte) /\ Len(x) = o
      /\ Holds(x, 0, t, 1) /\ Holds(x, 1, 14 + n + m, 4) /\ Holds(x, 5, k, 4) /\ Holds(x, 9, n, 4) /\ Holds(x, 13, cwd, n)
  BY MechLaid
<1>2. n \in Nat /\ n > 0 /\ m \in Nat /\ k \in Nat /\ t \in Nat /\ Member(LoaderType, t) = "DIRLOAD"
  BY <1>1, LenProperties, ConstantsTyped, EnumsRead
<1>3. PICK place : Places(block, dirs, place)
  BY <1>1, AllPlaced DEF Placed
<1>. HIDE DEF block, m, n, k, t, x
<1>4. b \in Seq(Byte) /\ Len(b) = o + m
  <2>1. x \o block \in Seq(Byte) /\ Len(x \o block) = Len(x) + Len(block)
    BY <1>1, ConcatProperties
  <2>. QED
    BY <1>1, <2>1 DEF m
<1>5. 14 + n + m \in Nat /\ o \in Nat /\ 14 + n + m = (o + m) + 1
  BY <1>2
<1>. HIDE DEF b
<1>6. \A at, i \in Nat : \A y : Holds(x, at, y, i) => Holds(b, at, y, i)
  BY <1>1, HoldsMore DEF b
<1>7. /\ Holds(b, 0, t, 1) /\ Holds(b, 1, 14 + n + m, 4) /\ Holds(b, 5, k, 4) /\ Holds(b, 9, n, 4) /\ Holds(b, 13, cwd, n)
  BY <1>1, <1>2, <1>6
<1>8. \A at, i \in Nat : \A y : Holds(block, at, y, i) => Holds(b, o + at, y, i)
  BY <1>1, HoldsBehind DEF b
<1>9. Readable(Reply.LOADER_MECH, b, v)
  <2>. DEFINE size == 14 + n + m
  <2>1. \A q : Wanted(Reply.LOADER_MECH, q, v) = IF Len(q) < 5 THEN 5 ELSE 5 + (Number(q, 1, 4) - 6)
    BY ReplyCodes DEF Wanted, IsInfo
  <2>2. ASSUME NEW i \in 0 .. Len(b), 5 <= i PROVE Number(SubSeq(b, 1, i), 1, 4) = size
    <3>1. 1 + 4 <= i /\ 1 \in Nat /\ 4 \in Nat /\ 4 > 0
      BY <2>2
    <3>2. size \in Nat /\ Holds(b, 1, size, 4)
      BY <1>5, <1>7
    <3>. HIDE DEF size
    <3>. QED
      BY <1>4, <3>1, <3>2, LengthRead, Zenon
  <2>3. ASSUME NEW i \in 0 .. Len(b)
        PROVE  Wanted(Reply.LOADER_MECH, SubSeq(b, 1, i), v) = IF i < 5 THEN 5 ELSE Len(b)
    <3>1. Len(SubSeq(b, 1, i)) = i
      BY <1>4, Beginnings
    <3>2. Wanted(Reply.LOADER_MECH, SubSeq(b, 1, i), v) = IF i < 5 THEN 5 ELSE 5 + (Number(SubSeq(b, 1, i), 1, 4) - 6)
      BY <2>1, <3>1
    <3>3. CASE i < 5
      BY <3>2, <3>3
    <3>4. CASE ~ (i < 5)
      <4>1. 5 <= i
        BY <1>2, <1>4, <3>4
      <4>2. Wanted(Reply.LOADER_MECH, SubSeq(b, 1, i), v) = 5 + (size - 6)
        BY <2>2, <3>2, <3>4, <4>1
      <4>. QED
        BY <1>2, <1>4, <3>4, <4>2
    <3>. QED
      BY <3>3, <3>4
  <2>4. KnownAfter(Reply.LOADER_MECH, b, v, 5)
    BY <2>3 DEF KnownAfter
  <2>5. 5 \in Nat /\ 5 <= Len(b)
    BY <1>2, <1>4
  <2>. QED
    BY <1>4, <2>4, <2>5, ReadableAs
<1>10. Number(b, 0, 1) = t /\ Number(b, 5, 4) = k /\ Number(b, 9, 4) = n /\ Value(b, 13, n) = cwd
  BY <1>2, <1>7, ValueRead
<1>. DEFINE pos == [i \in 0 .. k |-> o + place[i]]
<1>11. /\ place \in [0 .. k -> Nat] /\ place[0] = 0
       /\ \A i \in 1 .. k :
            /\ place[i] = place[i - 1] + 4 + Size[dirs[i]]
            /\ Holds(block, place[i - 1], Size[dirs[i]], 4) /\ Holds(block, place[i - 1] + 4, dirs[i], Size[dirs[i]])
  BY <1>3 DEF Places, k
<1>12. \A i \in 1 .. k : dirs[i] \in Texts /\ Size[dirs[i]] \in Nat /\ Size[dirs[i]] > 0
  BY ConstantsTyped DEF k
<1>13. ASSUME NEW i \in 1 .. k
       PROVE  /\ Number(b, pos[i - 1], 4) = Size[dirs[i]]
              /\ Value(b, pos[i - 1] + 4, Size[dirs[i]]) = dirs[i]
  <2>. DEFINE p == place[i - 1]
              s == Size[dirs[i]]
  <2>1. i - 1 \in 0 .. k
    BY <1>2
  <2>2. p \in Nat /\ p + 4 \in Nat /\ s \in Nat /\ s > 0 /\ Holds(block, p, s, 4) /\ Holds(block, p + 4, dirs[i], s)
    BY <1>11, <1>12, <2>1
  <2>3. pos[i - 1] = o + p
    BY <2>1
  <2>. HIDE DEF p, s, pos, o
  <2>4. 4 \in Nat /\ 4 > 0
    OBVIOUS
  <2>5. Holds(b, o + p, s, 4) /\ Holds(b, o + (p + 4), dirs[i], s)
    BY <1>8, <2>2, <2>4, Zenon
  <2>6. o + p \in Nat /\ o + (p + 4) \in Nat /\ o + (p + 4) = (o + p) + 4
    BY <1>5, <2>2
  <2>7. Number(b, o + p, 4) = s
    BY <2>2, <2>4, <2>5, <2>6, ValueRead
  <2>8. Value(b, o + (p + 4), s) = dirs[i]
    BY <2>2, <2>5, <2>6, ValueRead
  <2>. QED
    BY <2>3, <2>6, <2>7, <2>8 DEF s
<1>14. Walks(b, o, k, pos)
  <2>1. pos \in [0 .. k -> Nat] /\ pos[0] = o
    BY <1>2, <1>5, <1>11
  <2>2. ASSUME NEW i \in 1 .. k PROVE pos[i] = pos[i - 1] + 4 + Number(b, pos[i - 1], 4)
    <3>1. i - 1 \in 0 .. k /\ i \in 0 .. k
      BY <1>2
    <3>2. /\ pos[i] = o + place[i] /\ pos[i - 1] = o + place[i - 1] /\ place[i - 1] \in Nat
          /\ place[i] = place[i - 1] + 4 + Size[dirs[i]] /\ Size[dirs[i]] \in Nat
      BY <1>11, <1>12, <3>1
    <3>3. Number(b, pos[i - 1], 4) = Size[dirs[i]]
      BY <1>13
    <3>. DEFINE p == place[i - 1]
                q == Size[dirs[i]]
    <3>. HIDE DEF pos, o
    <3>4. pos[i] = o + (p + 4 + q) /\ pos[i - 1] = o + p /\ Number(b, pos[i - 1], 4) = q /\ p \in Nat /\ q \in Nat
      BY <3>2, <3>3, Zenon
    <3>. HIDE DEF p, q
    <3>5. o + (p + 4 + q) = (o + p) + 4 + q
      BY <1>5, <3>4
    <3>6. pos[i - 1] + 4 + Number(b, pos[i - 1], 4) = (o + p) + 4 + q
      BY <3>4, Zenon
    <3>. QED
      BY <3>4, <3>5, <3>6, Zenon
  <2>. HIDE DEF pos
  <2>. QED
    BY <2>1, <2>2 DEF Walks
<1>. HIDE DEF pos, o
<1>15. Directories(b, o, k) = [i \in 1 .. k |-> Value(b, pos[i - 1] + 4, Number(b, pos[i - 1], 4))]
  BY <1>2, <1>5, <1>14, DirectoriesRead
<1>16. Directories(b, o, k) = [i \in 1 .. k |-> dirs[i]]
  BY <1>13, <1>15
<1>17. Directories(b, o, k) = dirs
  BY <1>16 DEF k
<1>18. DecodeMech(b) = [type |-> Member(LoaderType, Number(b, 0, 1)), cwd |-> Value(b, 13, Number(b, 9, 4)),
                        dirs |-> Directories(b, 13 + Number(b, 9, 4), Number(b, 5, 4))]
  BY DEF DecodeMech
<1>19. DecodeMech(b) = [type |-> "DIRLOAD", cwd |-> cwd, dirs |-> dirs]
  BY <1>2, <1>10, <1>17, <1>18 DEF o
<1>20. Result(Reply.LOADER_MECH, b, v, on, listed) = DecodeMech(b)
  BY ReplyCodes DEF Result
<1>. QED
  BY <1>9, <1>19, <1>20 DEF b, x, block

-----------------------------------------------------------------------------
(* The packets on their way, and what is meant by them.                    *)

Errors == {"CommandRejected", "BadRequest", "OutOfMemory", "ShuttingDown", "Pinned", "ServiceNotFound",
           "ServiceDescriptionError", "ServiceLoadError", "SignalNotDelivered"}
Meanings ==
  Nat \union Texts \union {None} \union Conditions \union Lists \union (SUBSET Texts) \union Seq(Nat)
    \union [on : Texts, state : Range(ServiceState), handle : Nat, target : Range(ServiceState)]
    \union [type : {"DIRLOAD"}, cwd : Texts, dirs : Seq(Texts)]
    \union (Nat \X Range(ServiceEvent) \X Conditions) \union (Nat \X Texts)
Tags == {"version", "record", "status", "list", "log", "env", "mech", "dependents", "done", "refused", "event", "variable"}
Entries == [tag : Tags, of : Meanings]
Given == [tag : Tags, of : Meanings \union Errors]

\* A packet: what it says of itself, and the services that an entry of a list tells of.
Packets == [head : Nat, body : Seq(Byte), says : Seq(Entries), item : Lists]
Wire == [p \in Packets |-> <<HeadByte(p.head)>> \o p.body]
Saying == [p \in Packets |-> p.says]
Flat(pk) == Joined(Wire, pk)
Said(pk) == Joined(Saying, pk)

LEMMA PacketFunctions ==
  /\ Wire \in [Packets -> Seq(Byte)] /\ Saying \in [Packets -> Seq(Entries)]
  /\ \A p \in Packets : /\ Wire[p] = <<HeadByte(p.head)>> \o p.body /\ Saying[p] = p.says
                        /\ p.head \in Nat /\ p.body \in Seq(Byte) /\ p.says \in Seq(Entries) /\ p.item \in Lists
                        /\ HeadByte(p.head) \in Byte
<1>1. ASSUME NEW p \in Packets
      PROVE  /\ p.head \in Nat /\ p.body \in Seq(Byte) /\ p.says \in Seq(Entries) /\ p.item \in Lists
             /\ HeadByte(p.head) \in Byte
  <2>1. p.head \in Nat /\ p.body \in Seq(Byte) /\ p.says \in Seq(Entries) /\ p.item \in Lists
    BY DEF Packets
  <2>. QED
    BY <2>1 DEF HeadByte, Byte, Things
<1>2. ASSUME NEW p \in Packets PROVE <<HeadByte(p.head)>> \o p.body \in Seq(Byte)
  BY <1>1, ConsRead
<1>3. Wire \in [Packets -> Seq(Byte)]
  BY <1>2 DEF Wire
<1>4. Saying \in [Packets -> Seq(Entries)]
  BY <1>1 DEF Saying
<1>5. \A p \in Packets : Wire[p] = <<HeadByte(p.head)>> \o p.body /\ Saying[p] = p.says
  BY DEF Wire, Saying
<1>. QED
  BY <1>1, <1>3, <1>4, <1>5

LEMMA WireConcat ==
  ASSUME NEW s \in Seq(Packets), NEW u \in Seq(Packets)
  PROVE  /\ Joined(Wire, s \o u) = Joined(Wire, s) \o Joined(Wire, u)
         /\ Joined(Saying, s \o u) = Joined(Saying, s) \o Joined(Saying, u)
<1>1. Wire \in [Packets -> Seq(Byte)] /\ \A p \in Packets : Wire[p] \in Seq(Byte)
  BY PacketFunctions
<1>2. Joined(Wire, s \o u) = Joined(Wire, s) \o Joined(Wire, u)
  BY <1>1, JoinedConcat
<1>3. Saying \in [Packets -> Seq(Entries)] /\ \A p \in Packets : Saying[p] \in Seq(Entries)
  BY PacketFunctions
<1>4. Joined(Saying, s \o u) = Joined(Saying, s) \o Joined(Saying, u)
  BY <1>3, JoinedConcat
<1>. QED
  BY <1>2, <1>4

LEMMA NothingOnItsWay == Flat(<< >>) = << >> /\ Said(<< >>) = << >>
BY JoinedNothing DEF Flat, Said

LEMMA OneMore ==
  ASSUME NEW pk \in Seq(Packets), NEW p \in Packets
  PROVE  /\ Append(pk, p) \in Seq(Packets) /\ Flat(pk) \in Seq(Byte) /\ Said(pk) \in Seq(Entries)
         /\ Flat(Append(pk, p)) = Flat(pk) \o (<<HeadByte(p.head)>> \o p.body)
         /\ Said(Append(pk, p)) = Said(pk) \o p.says
<1>1. Flat(pk) \in Seq(Byte) /\ Said(pk) \in Seq(Entries)
  BY PacketFunctions, JoinedType DEF Flat, Said
<1>2. Joined(Wire, Append(pk, p)) = Joined(Wire, pk) \o Wire[p]
  BY PacketFunctions, JoinedMore, SMTT(40)
<1>3. Joined(Saying, Append(pk, p)) = Joined(Saying, pk) \o Saying[p]
  <2>1. Saying \in [Packets -> Seq(Entries)]
    BY PacketFunctions
  <2>. QED
    BY <2>1, JoinedMore
<1>4. Wire[p] = <<HeadByte(p.head)>> \o p.body /\ Saying[p] = p.says
  BY PacketFunctions
<1>. QED
  BY <1>1, <1>2, <1>3, <1>4, AppendProperties DEF Flat, Said

LEMMA FirstOf ==
  ASSUME NEW pk \in Seq(Packets), pk # << >>
  PROVE  /\ pk[1] \in Packets /\ Tail(pk) \in Seq(Packets)
         /\ Flat(Tail(pk)) \in Seq(Byte) /\ Said(Tail(pk)) \in Seq(Entries)
         /\ Flat(pk) = (<<HeadByte(pk[1].head)>> \o pk[1].body) \o Flat(Tail(pk))
         /\ Said(pk) = pk[1].says \o Said(Tail(pk))
         /\ Len(pk) \in Nat /\ Len(pk) > 0 /\ Len(Tail(pk)) = Len(pk) - 1
         /\ \A i \in 1 .. Len(pk) - 1 : Tail(pk)[i] = pk[i + 1]
<1>. DEFINE p == pk[1]
            t == Tail(pk)
<1>1. /\ p \in Packets /\ t \in Seq(Packets) /\ Len(pk) \in Nat /\ Len(pk) > 0 /\ Len(t) = Len(pk) - 1
      /\ \A i \in 1 .. Len(pk) - 1 : t[i] = pk[i + 1]
  BY LenProperties, HeadTailProperties
<1>2. pk = <<p>> \o t
  <2>1. /\ <<p>> \in Seq(Packets) /\ Len(<<p>>) = 1 /\ <<p>>[1] = p
    BY <1>1
  <2>. DEFINE o == <<p>>
  <2>. HIDE DEF o, t
  <2>2. /\ o \o t \in Seq(Packets) /\ Len(o \o t) = Len(o) + Len(t)
        /\ \A i \in 1 .. Len(o) : (o \o t)[i] = o[i] /\ \A j \in 1 .. Len(t) : (o \o t)[Len(o) + j] = t[j]
    BY <1>1, <2>1, ConcatProperties DEF o
  <2>3. Len(o \o t) = Len(pk)
    BY <1>1, <2>1, <2>2 DEF o
  <2>4. ASSUME NEW i \in 1 .. Len(pk) PROVE pk[i] = (o \o t)[i]
    <3>1. CASE i = 1
      BY <2>1, <2>2, <3>1 DEF o
    <3>2. CASE i # 1
      <4>1. i - 1 \in 1 .. Len(pk) - 1 /\ (i - 1) + 1 = i /\ 1 + (i - 1) = i
        BY <1>1, <3>2
      <4>2. t[i - 1] = pk[i] /\ (o \o t)[i] = t[i - 1]
        BY <1>1, <2>1, <2>2, <4>1 DEF o
      <4>. QED
        BY <4>2
    <3>. QED
      BY <3>1, <3>2
  <2>. QED
    BY <2>2, <2>3, <2>4, SeqEqual DEF o
<1>3. Joined(Wire, <<p>> \o t) = Joined(Wire, <<p>>) \o Joined(Wire, t) /\ Joined(Wire, <<p>>) = Wire[p]
  <2>1. Wire \in [Packets -> Seq(Byte)]
    BY PacketFunctions
  <2>2. <<p>> \in Seq(Packets)
    BY <1>1
  <2>. DEFINE o == <<p>>
  <2>3. o \in Seq(Packets) /\ t \in Seq(Packets)
    BY <1>1, <2>2
  <2>. HIDE DEF p, t
  <2>4. Joined(Wire, o) = Wire[p]
    BY <1>1, <2>1, JoinedOne, ZenonT(60)
  <2>. HIDE DEF o
  <2>5. Joined(Wire, o \o t) = Joined(Wire, o) \o Joined(Wire, t)
    BY <2>3, WireConcat
  <2>. QED
    BY <2>4, <2>5 DEF o
<1>4. Joined(Saying, <<p>> \o t) = Joined(Saying, <<p>>) \o Joined(Saying, t) /\ Joined(Saying, <<p>>) = Saying[p]
  <2>1. Saying \in [Packets -> Seq(Entries)]
    BY PacketFunctions
  <2>2. <<p>> \in Seq(Packets)
    BY <1>1
  <2>. DEFINE o == <<p>>
  <2>3. o \in Seq(Packets) /\ t \in Seq(Packets)
    BY <1>1, <2>2
  <2>. HIDE DEF p, t
  <2>4. Joined(Saying, o) = Saying[p]
    BY <1>1, <2>1, JoinedOne, ZenonT(60)
  <2>. HIDE DEF o
  <2>5. Joined(Saying, o \o t) = Joined(Saying, o) \o Joined(Saying, t)
    BY <2>3, WireConcat
  <2>. QED
    BY <2>4, <2>5 DEF o
<1>5. Wire[p] = <<HeadByte(p.head)>> \o p.body /\ Saying[p] = p.says
  BY <1>1, PacketFunctions
<1>6. Flat(t) \in Seq(Byte) /\ Said(t) \in Seq(Entries)
  BY <1>1, PacketFunctions, JoinedType DEF Flat, Said
<1>. HIDE DEF p, t
<1>7. Flat(pk) = (<<HeadByte(p.head)>> \o p.body) \o Flat(t)
  BY <1>2, <1>3, <1>5 DEF Flat
<1>8. Said(pk) = p.says \o Said(t)
  BY <1>2, <1>4, <1>5 DEF Said
<1>. QED
  BY <1>1, <1>6, <1>7, <1>8 DEF p, t

LEMMA FirstByte ==
  ASSUME NEW pk \in Seq(Packets), pk # << >>
  PROVE  /\ Flat(pk) \in Seq(Byte) /\ Flat(pk) # << >> /\ Head(Flat(pk)) = HeadByte(pk[1].head)
         /\ Tail(Flat(pk)) = pk[1].body \o Flat(Tail(pk))
<1>. DEFINE p == pk[1]
            t == Flat(Tail(pk))
            h == HeadByte(p.head)
<1>1. /\ p \in Packets /\ t \in Seq(Byte) /\ Flat(pk) = (<<h>> \o p.body) \o t
  BY FirstOf
<1>2. h \in Byte /\ p.body \in Seq(Byte)
  BY <1>1, PacketFunctions
<1>. DEFINE o == <<h>>
            body == p.body
<1>3. o \in Seq(Byte) /\ body \in Seq(Byte) /\ t \in Seq(Byte)
  BY <1>1, <1>2
<1>. HIDE DEF p, t, h, o, body
<1>4. (o \o body) \o t = o \o (body \o t)
  BY <1>3, ConcatAssociative
<1>5. body \o t \in Seq(Byte)
  BY <1>3, ConcatProperties
<1>6. Flat(pk) = <<h>> \o (body \o t)
  BY <1>1, <1>4 DEF o, body
<1>7. Flat(pk) \in Seq(Byte) /\ Flat(pk) # << >> /\ Head(Flat(pk)) = h /\ Tail(Flat(pk)) = body \o t
  BY <1>2, <1>5, <1>6, ConsRead
<1>. QED
  BY <1>7 DEF h, p, t, body

-----------------------------------------------------------------------------
(* The stream, as the packets that the daemon wrote on it.                 *)

LEMMA SplitAt ==
  ASSUME NEW S, NEW s \in Seq(S), NEW n \in Nat, n <= Len(s)
  PROVE  /\ SubSeq(s, 1, n) \in Seq(S) /\ Len(SubSeq(s, 1, n)) = n
         /\ Drop(s, n) \in Seq(S) /\ Len(Drop(s, n)) = Len(s) - n
         /\ s = SubSeq(s, 1, n) \o Drop(s, n)
<1>. DEFINE a == SubSeq(s, 1, n)
            b == Drop(s, n)
            L == Len(s)
<1>1. L \in Nat /\ n <= L /\ \A i \in 1 .. L : s[i] \in S
  BY LenProperties
<1>2. a \in Seq(S) /\ Len(a) = n /\ \A i \in 1 .. n : a[i] = s[i]
  <2>1. /\ 1 \in Int /\ n \in Int /\ \A i \in 1 .. n : s[i] \in S
        /\ (IF 1 <= n THEN n - 1 + 1 ELSE 0) = n
    BY <1>1
  <2>2. /\ SubSeq(s, 1, n) \in Seq(S) /\ Len(SubSeq(s, 1, n)) = (IF 1 <= n THEN n - 1 + 1 ELSE 0)
        /\ \A i \in 1 .. n - 1 + 1 : SubSeq(s, 1, n)[i] = s[1 + i - 1]
    BY <2>1, SubSeqProperties
  <2>3. \A i \in 1 .. n : i \in 1 .. n - 1 + 1 /\ 1 + i - 1 = i
    OBVIOUS
  <2>. QED
    BY <2>1, <2>2, <2>3
<1>3. b \in Seq(S) /\ Len(b) = L - n /\ \A i \in 1 .. L - n : b[i] = s[n + i]
  <2>1. /\ n + 1 \in Int /\ L \in Int /\ \A i \in n + 1 .. L : s[i] \in S
        /\ (IF n + 1 <= L THEN L - (n + 1) + 1 ELSE 0) = L - n
    BY <1>1
  <2>2. /\ SubSeq(s, n + 1, L) \in Seq(S) /\ Len(SubSeq(s, n + 1, L)) = (IF n + 1 <= L THEN L - (n + 1) + 1 ELSE 0)
        /\ \A i \in 1 .. L - (n + 1) + 1 : SubSeq(s, n + 1, L)[i] = s[(n + 1) + i - 1]
    BY <2>1, SubSeqProperties
  <2>3. \A i \in 1 .. L - n : i \in 1 .. L - (n + 1) + 1 /\ (n + 1) + i - 1 = n + i
    BY <1>1
  <2>. QED
    BY <2>1, <2>2, <2>3 DEF Drop
<1>. HIDE DEF a, b
<1>4. /\ a \o b \in Seq(S) /\ Len(a \o b) = L
      /\ \A i \in 1 .. n : (a \o b)[i] = a[i]
      /\ \A i \in 1 .. L - n : (a \o b)[n + i] = b[i]
  BY <1>1, <1>2, <1>3, ConcatProperties
<1>5. ASSUME NEW i \in 1 .. Len(s) PROVE s[i] = (a \o b)[i]
  <2>1. CASE i <= n
    BY <1>1, <1>2, <1>4, <2>1
  <2>2. CASE i > n
    <3>1. i - n \in 1 .. L - n /\ n + (i - n) = i
      BY <1>1, <2>2
    <3>. QED
      BY <1>3, <1>4, <3>1
  <2>3. i \in Int /\ n \in Int
    OBVIOUS
  <2>4. i <= n \/ i > n
    BY <2>3
  <2>. QED
    BY <2>1, <2>2, <2>4
<1>6. s = a \o b
  BY <1>4, <1>5, SeqEqual
<1>. QED
  BY <1>2, <1>3, <1>6 DEF a, b

\* With h the head that the reader is at and b what it has read since, st is the rest of the packets pk.
Waiting(h, b, st, pk) ==
  IF h = None THEN b = << >> /\ st = Flat(pk)
  ELSE /\ pk # << >> /\ h = pk[1].head
       /\ b \in Seq(Byte) /\ Len(b) <= Len(pk[1].body)
       /\ b \o st = pk[1].body \o Flat(Tail(pk))

LEMMA WaitingTyped ==
  ASSUME NEW pk \in Seq(Packets), NEW h, NEW b, NEW st \in Seq(Byte), Waiting(h, b, st, pk)
  PROVE  b \in Seq(Byte)
BY EmptySeq DEF Waiting

LEMMA WaitingMore ==
  ASSUME NEW pk \in Seq(Packets), NEW p \in Packets, NEW h, NEW b, NEW st \in Seq(Byte), Waiting(h, b, st, pk)
  PROVE  Waiting(h, b, st \o (<<HeadByte(p.head)>> \o p.body), Append(pk, p))
<1>. DEFINE more == <<HeadByte(p.head)>> \o p.body
            longer == Append(pk, p)
<1>1. more \in Seq(Byte)
  <2>1. HeadByte(p.head) \in Byte /\ p.body \in Seq(Byte)
    BY PacketFunctions
  <2>. QED
    BY <2>1, ConsRead
<1>2. longer \in Seq(Packets) /\ Flat(longer) = Flat(pk) \o more /\ Flat(pk) \in Seq(Byte)
  BY OneMore
<1>3. longer # << >>
  BY AppendProperties
<1>4. CASE h = None
  BY <1>2, <1>4 DEF Waiting
<1>5. CASE h # None
  <2>1. /\ pk # << >> /\ h = pk[1].head /\ b \in Seq(Byte) /\ Len(b) <= Len(pk[1].body)
        /\ b \o st = pk[1].body \o Flat(Tail(pk))
    BY <1>5 DEF Waiting
  <2>2. longer[1] = pk[1] /\ Tail(longer) = Append(Tail(pk), p) /\ Tail(pk) \in Seq(Packets) /\ pk[1] \in Packets
    BY <2>1, FirstOf, AppendProperties, HeadTailAppend
  <2>3. Flat(Tail(longer)) = Flat(Tail(pk)) \o more /\ Flat(Tail(pk)) \in Seq(Byte)
    BY <2>2, OneMore
  <2>. DEFINE body == pk[1].body
              t == Flat(Tail(pk))
  <2>4. body \in Seq(Byte) /\ t \in Seq(Byte) /\ more \in Seq(Byte)
    BY <1>1, <2>2, <2>3, PacketFunctions
  <2>. HIDE DEF more, body, t
  <2>5. (b \o st) \o more = b \o (st \o more)
    <3>1. b \in Seq(Byte) /\ st \in Seq(Byte) /\ more \in Seq(Byte)
      BY <2>1, <2>4
    <3>. QED
      BY <3>1, ConcatAssociative, SMTT(40)
  <2>6. (body \o t) \o more = body \o (t \o more)
    BY <2>4, ConcatAssociative
  <2>7. b \o (st \o more) = body \o (t \o more)
    BY <2>1, <2>5, <2>6 DEF body, t
  <2>8. b \o (st \o more) = longer[1].body \o Flat(Tail(longer))
    BY <2>2, <2>3, <2>7 DEF body, t
  <2>. QED
    BY <1>3, <1>5, <2>1, <2>2, <2>8 DEF Waiting, more
<1>. QED
  BY <1>4, <1>5 DEF more

LEMMA WaitingHead ==
  ASSUME NEW pk \in Seq(Packets), NEW b, NEW st \in Seq(Byte), Waiting(None, b, st, pk), st # << >>
  PROVE  /\ pk # << >> /\ Head(st) = HeadByte(pk[1].head) /\ Head(st).of = pk[1].head /\ Head(st).part = 0
         /\ Tail(st) \in Seq(Byte) /\ Waiting(Head(st).of, b, Tail(st), pk)
<1>1. b = << >> /\ st = Flat(pk)
  BY DEF Waiting
<1>2. pk # << >>
  BY <1>1, NothingOnItsWay
<1>3. Head(st) = HeadByte(pk[1].head) /\ Tail(st) = pk[1].body \o Flat(Tail(pk)) /\ Tail(st) \in Seq(Byte)
  BY <1>1, <1>2, FirstByte, HeadTailProperties
<1>4. Head(st).of = pk[1].head /\ Head(st).part = 0
  BY <1>3 DEF HeadByte
<1>5. pk[1].head \in Nat /\ pk[1].body \in Seq(Byte)
  BY <1>2, FirstOf, PacketFunctions
<1>6. pk[1].head # None
  BY <1>5, ConstantsTyped
<1>7. << >> \in Seq(Byte) /\ Len(<< >>) = 0 /\ Len(pk[1].body) \in Nat /\ << >> \o Tail(st) = Tail(st)
  BY <1>3, <1>5, EmptySeq, LenProperties, ConcatEmptySeq
<1>8. Waiting(Head(st).of, b, Tail(st), pk)
  BY <1>1, <1>2, <1>3, <1>4, <1>6, <1>7 DEF Waiting
<1>. QED
  BY <1>2, <1>3, <1>4, <1>8

LEMMA WaitingBytes ==
  ASSUME NEW pk \in Seq(Packets), NEW h, NEW b, NEW st \in Seq(Byte), Waiting(h, b, st, pk), h # None,
         NEW n \in Nat, n <= Len(st), Len(b) + n <= Len(pk[1].body)
  PROVE  /\ Drop(st, n) \in Seq(Byte) /\ Waiting(h, b \o SubSeq(st, 1, n), Drop(st, n), pk)
<1>. DEFINE x == SubSeq(st, 1, n)
            y == Drop(st, n)
<1>1. /\ pk # << >> /\ h = pk[1].head /\ b \in Seq(Byte) /\ b \o st = pk[1].body \o Flat(Tail(pk))
  BY DEF Waiting
<1>2. x \in Seq(Byte) /\ Len(x) = n /\ y \in Seq(Byte) /\ st = x \o y
  BY SplitAt
<1>. HIDE DEF x, y
<1>3. (b \o x) \o y = b \o (x \o y)
  BY <1>1, <1>2, ConcatAssociative
<1>4. b \o x \in Seq(Byte) /\ Len(b \o x) = Len(b) + n
  BY <1>1, <1>2, ConcatProperties
<1>5. Waiting(h, b \o x, y, pk)
  BY <1>1, <1>2, <1>3, <1>4 DEF Waiting
<1>. QED
  BY <1>2, <1>5 DEF x, y

LEMMA WaitingDone ==
  ASSUME NEW pk \in Seq(Packets), NEW h, NEW b, NEW st \in Seq(Byte), Waiting(h, b, st, pk), h # None,
         Len(b) = Len(pk[1].body)
  PROVE  b = pk[1].body /\ Tail(pk) \in Seq(Packets) /\ Waiting(None, << >>, st, Tail(pk))
<1>. DEFINE body == pk[1].body
            t == Flat(Tail(pk))
<1>1. /\ pk # << >> /\ b \in Seq(Byte) /\ b \o st = body \o t /\ Len(b) = Len(body) /\ Len(b) <= Len(body)
  BY DEF Waiting
<1>2. body \in Seq(Byte) /\ t \in Seq(Byte) /\ Tail(pk) \in Seq(Packets)
  BY <1>1, FirstOf, PacketFunctions
<1>. HIDE DEF body, t
<1>3. b = body /\ st = t
  <2>1. b \in Seq(Byte) /\ st \in Seq(Byte) /\ body \in Seq(Byte) /\ t \in Seq(Byte)
    BY <1>1, <1>2
  <2>2. Meet(b, st, body, t) /\ Len(b) = Len(body)
    BY <1>1 DEF Meet
  <2>. QED
    BY <2>1, <2>2, BeginningOf
<1>. QED
  BY <1>2, <1>3 DEF Waiting, body, t

(* What is read of a packet is its beginning, and there is no more of it than the packet has. *)
LEMMA WaitingRead ==
  ASSUME NEW pk \in Seq(Packets), NEW h, NEW b, NEW st \in Seq(Byte), Waiting(h, b, st, pk), h # None
  PROVE  /\ pk # << >> /\ h = pk[1].head /\ pk[1] \in Packets /\ Len(b) \in 0 .. Len(pk[1].body)
         /\ b = SubSeq(pk[1].body, 1, Len(b)) /\ Len(pk[1].body) <= Len(b) + Len(st)
<1>. DEFINE body == pk[1].body
            t == Flat(Tail(pk))
<1>1. /\ pk # << >> /\ h = pk[1].head /\ b \in Seq(Byte) /\ b \o st = body \o t /\ Len(b) <= Len(body)
  BY DEF Waiting
<1>2. body \in Seq(Byte) /\ t \in Seq(Byte) /\ pk[1] \in Packets
  BY <1>1, FirstOf, PacketFunctions
<1>. HIDE DEF body, t
<1>3. b = SubSeq(body, 1, Len(b))
  <2>1. b \in Seq(Byte) /\ st \in Seq(Byte) /\ body \in Seq(Byte) /\ t \in Seq(Byte)
    BY <1>1, <1>2
  <2>2. Meet(b, st, body, t)
    BY <1>1 DEF Meet
  <2>. QED
    BY <2>1, <2>2, BeginningOf
<1>4. Len(b \o st) = Len(b) + Len(st) /\ Len(body \o t) = Len(body) + Len(t)
  BY <1>1, <1>2, ConcatProperties
<1>5. Len(b) \in Nat /\ Len(st) \in Nat /\ Len(body) \in Nat /\ Len(t) \in Nat
  BY <1>1, <1>2, LenProperties
<1>6. Len(b) + Len(st) = Len(body) + Len(t)
  BY <1>1, <1>4
<1>7. Len(b) \in 0 .. Len(body) /\ Len(body) <= Len(b) + Len(st)
  BY <1>1, <1>5, <1>6
<1>. QED
  BY <1>1, <1>2, <1>3, <1>7 DEF body

-----------------------------------------------------------------------------
(* What is meant by them, and what the client gives out.                   *)

SameAll(g, m) ==
  m \in Seq(Entries) /\ Len(m) = Len(g) /\ \A i \in 1 .. Len(g) : Same(g[i], m[i])

\* n is what was meant by what is given out, g, and by the packets pk.
Meaning(g, n, pk) ==
  /\ g \in Seq(Given)
  /\ \E m \in Seq(Entries) : SameAll(g, m) /\ n = m \o Said(pk)

LEMMA SameMore ==
  ASSUME NEW g \in Seq(Given), NEW m, SameAll(g, m), NEW h \in Seq(Given), NEW k, SameAll(h, k)
  PROVE  g \o h \in Seq(Given) /\ SameAll(g \o h, m \o k)
<1>1. /\ m \in Seq(Entries) /\ Len(m) = Len(g) /\ \A i \in 1 .. Len(g) : Same(g[i], m[i])
      /\ k \in Seq(Entries) /\ Len(k) = Len(h) /\ \A i \in 1 .. Len(h) : Same(h[i], k[i])
  BY DEF SameAll
<1>2. /\ g \o h \in Seq(Given) /\ Len(g \o h) = Len(g) + Len(h) /\ Len(g) \in Nat /\ Len(h) \in Nat
      /\ \A i \in 1 .. Len(g) : (g \o h)[i] = g[i] /\ \A j \in 1 .. Len(h) : (g \o h)[Len(g) + j] = h[j]
  BY ConcatProperties, LenProperties
<1>3. m \in Seq(Entries) /\ k \in Seq(Entries)
  BY <1>1
<1>4. /\ m \o k \in Seq(Entries) /\ Len(m \o k) = Len(m) + Len(k)
      /\ \A i \in 1 .. Len(m) : (m \o k)[i] = m[i] /\ \A j \in 1 .. Len(k) : (m \o k)[Len(m) + j] = k[j]
  BY <1>3, ConcatProperties, LenProperties
<1>5. ASSUME NEW i \in 1 .. Len(g) + Len(h) PROVE Same((g \o h)[i], (m \o k)[i])
  <2>1. CASE i <= Len(g)
    <3>1. i \in 1 .. Len(g)
      BY <1>2, <2>1
    <3>2. (g \o h)[i] = g[i] /\ (m \o k)[i] = m[i]
      BY <1>1, <1>2, <1>4, <3>1
    <3>. QED
      BY <1>1, <3>1, <3>2
  <2>2. CASE ~(i <= Len(g))
    <3>. DEFINE j == i - Len(g)
    <3>1. j \in 1 .. Len(h) /\ i = Len(g) + j
      BY <1>2, <2>2
    <3>. HIDE DEF j
    <3>2. (g \o h)[i] = h[j]
      BY <1>2, <3>1
    <3>3. (m \o k)[i] = k[j]
      BY <1>1, <1>4, <3>1
    <3>. QED
      BY <1>1, <3>1, <3>2, <3>3
  <2>. QED
    BY <2>1, <2>2
<1>. QED
  BY <1>1, <1>2, <1>4, <1>5 DEF SameAll

LEMMA MeaningMore ==
  ASSUME NEW pk \in Seq(Packets), NEW p \in Packets, NEW g, NEW n, Meaning(g, n, pk)
  PROVE  Meaning(g, n \o p.says, Append(pk, p))
<1>1. g \in Seq(Given)
  BY DEF Meaning
<1>2. PICK m \in Seq(Entries) : SameAll(g, m) /\ n = m \o Said(pk)
  BY DEF Meaning
<1>3. m \in Seq(Entries) /\ Said(pk) \in Seq(Entries) /\ p.says \in Seq(Entries)
  BY OneMore, PacketFunctions
<1>. DEFINE x == Said(pk)
            y == p.says
<1>4. (m \o x) \o y = m \o (x \o y)
  <2>1. m \in Seq(Entries) /\ x \in Seq(Entries) /\ y \in Seq(Entries)
    BY <1>3
  <2>. HIDE DEF x, y
  <2>. QED
    BY <2>1, ConcatAssociative, SMTT(40)
<1>5. Said(Append(pk, p)) = x \o y
  BY OneMore
<1>6. n \o p.says = m \o Said(Append(pk, p))
  BY <1>2, <1>4, <1>5
<1>. QED
  BY <1>1, <1>2, <1>6 DEF Meaning

LEMMA MeaningDone ==
  ASSUME NEW pk \in Seq(Packets), pk # << >>, NEW g, NEW n, Meaning(g, n, pk),
         NEW h \in Seq(Given), SameAll(h, pk[1].says)
  PROVE  Meaning(g \o h, n, Tail(pk))
<1>1. g \in Seq(Given)
  BY DEF Meaning
<1>2. PICK m \in Seq(Entries) : SameAll(g, m) /\ n = m \o Said(pk)
  BY DEF Meaning
<1>. DEFINE x == pk[1].says
            y == Said(Tail(pk))
<1>3. Said(pk) = x \o y /\ y \in Seq(Entries) /\ x \in Seq(Entries)
  BY FirstOf, PacketFunctions
<1>4. g \o h \in Seq(Given) /\ SameAll(g \o h, m \o x) /\ m \o x \in Seq(Entries)
  <2>1. SameAll(g, m) /\ SameAll(h, x)
    BY <1>2
  <2>. HIDE DEF x
  <2>2. g \o h \in Seq(Given) /\ SameAll(g \o h, m \o x)
    BY <1>1, <2>1, SameMore
  <2>. QED
    BY <2>2 DEF SameAll
<1>5. (m \o x) \o y = m \o (x \o y)
  <2>1. m \in Seq(Entries) /\ x \in Seq(Entries) /\ y \in Seq(Entries)
    BY <1>3
  <2>. HIDE DEF x, y
  <2>. QED
    BY <2>1, ConcatAssociative, SMTT(40)
<1>6. n = (m \o x) \o y
  BY <1>2, <1>3, <1>5
<1>. HIDE DEF x, y
<1>7. Meaning(g \o h, n, Tail(pk))
  BY <1>4, <1>6 DEF Meaning, y
<1>. QED
  BY <1>7

LEMMA SameNothing == SameAll(<< >>, << >>)
BY EmptySeq DEF SameAll

LEMMA SameOne ==
  ASSUME NEW e, NEW f \in Entries, Same(e, f)
  PROVE  SameAll(<<e>>, <<f>>)
BY DEF SameAll

LEMMA SameAsMeant ==
  ASSUME NEW m \in Seq(Entries), \A i \in 1 .. Len(m) : m[i].tag # "refused"
  PROVE  m \in Seq(Given) /\ SameAll(m, m)
<1>1. Entries \subseteq Given
  BY DEF Entries, Given
<1>2. \A i \in 1 .. Len(m) : Same(m[i], m[i])
  BY DEF Same
<1>. QED
  BY <1>1, <1>2 DEF SameAll

\* What the daemon means about itself and about its services is so.
Sound(e, d) ==
  /\ e.tag = "version" => e.of = d
  /\ e.tag = "record" => e.of.on \in Services /\ e.of.handle = Handle[e.of.on]
AllSound(n, d) == \A i \in 1 .. Len(n) : Sound(n[i], d)

LEMMA SoundMore ==
  ASSUME NEW n \in Seq(Entries), NEW m \in Seq(Entries), NEW d, AllSound(n, d), AllSound(m, d)
  PROVE  AllSound(n \o m, d)
<1>1. /\ n \o m \in Seq(Entries) /\ Len(n \o m) = Len(n) + Len(m) /\ Len(n) \in Nat /\ Len(m) \in Nat
      /\ \A i \in 1 .. Len(n) : (n \o m)[i] = n[i] /\ \A j \in 1 .. Len(m) : (n \o m)[Len(n) + j] = m[j]
  BY ConcatProperties, LenProperties
<1>2. ASSUME NEW i \in 1 .. Len(n) + Len(m) PROVE Sound((n \o m)[i], d)
  <2>1. CASE i <= Len(n)
    <3>1. i \in 1 .. Len(n)
      BY <1>1, <2>1
    <3>2. (n \o m)[i] = n[i]
      BY <1>1, <3>1
    <3>. QED
      BY <3>1, <3>2 DEF AllSound
  <2>2. CASE ~(i <= Len(n))
    <3>. DEFINE j == i - Len(n)
    <3>1. j \in 1 .. Len(m) /\ i = Len(n) + j
      BY <1>1, <2>2
    <3>. HIDE DEF j
    <3>2. (n \o m)[i] = m[j]
      BY <1>1, <3>1
    <3>. QED
      BY <3>1, <3>2 DEF AllSound
  <2>. QED
    BY <2>1, <2>2
<1>. QED
  BY <1>1, <1>2 DEF AllSound

(* What is given out is the beginning of what was meant. *)
LEMMA MeaningRead ==
  ASSUME NEW pk \in Seq(Packets), NEW g, NEW n, Meaning(g, n, pk)
  PROVE  /\ g \in Seq(Given) /\ n \in Seq(Entries) /\ Len(g) \in Nat /\ Len(g) <= Len(n)
         /\ \A i \in 1 .. Len(g) : i \in 1 .. Len(n) /\ Same(g[i], n[i])
         /\ pk = << >> => Len(g) = Len(n)
<1>1. g \in Seq(Given)
  BY DEF Meaning
<1>2. PICK m \in Seq(Entries) : SameAll(g, m) /\ n = m \o Said(pk)
  BY DEF Meaning
<1>. DEFINE x == Said(pk)
<1>3. m \in Seq(Entries) /\ x \in Seq(Entries)
  BY PacketFunctions, JoinedType DEF Said
<1>4. Len(m) = Len(g) /\ \A i \in 1 .. Len(g) : Same(g[i], m[i])
  BY <1>2 DEF SameAll
<1>5. pk = << >> => x = << >>
  BY NothingOnItsWay
<1>6. n = m \o x
  BY <1>2
<1>. HIDE DEF x
<1>7. /\ n \in Seq(Entries) /\ Len(n) = Len(m) + Len(x) /\ Len(m) \in Nat /\ Len(x) \in Nat /\ Len(g) \in Nat
      /\ \A i \in 1 .. Len(m) : n[i] = m[i]
  BY <1>1, <1>3, <1>6, ConcatProperties, LenProperties
<1>8. \A i \in 1 .. Len(g) : i \in 1 .. Len(n) /\ Same(g[i], n[i])
  BY <1>4, <1>7
<1>9. x = << >> => Len(x) = 0
  BY EmptySeq
<1>10. Len(g) <= Len(n) /\ (pk = << >> => Len(g) = Len(n))
  BY <1>4, <1>5, <1>7, <1>9
<1>. QED
  BY <1>1, <1>7, <1>8, <1>10

-----------------------------------------------------------------------------
(* The packets that the client is owed.                                    *)

\* A packet that dinit sends by itself: it is the same for the client whether it has the version v or d.
InfoOk(p, v, d) ==
  /\ p.head >= 100 /\ p.body # << >> /\ p.item = NoItems
  /\ \A w : Readable(p.head, p.body, w)
  /\ Event(p.head, p.body, v) = p.says /\ Event(p.head, p.body, d) = p.says
  /\ \A i \in 1 .. Len(p.says) : p.says[i].tag # "refused"

\* An entry of a list.
One(s, c) == With(NoItems, s, c)
ItemOk(p, v) ==
  /\ p.head = Reply.SVCINFO /\ p.body # << >> /\ p.says = << >>
  /\ Readable(p.head, p.body, v)
  /\ \E s \in Services, c \in Conditions : Listed(p.body, v) = [on |-> s, told |-> c] /\ p.item = One(s, c)

\* The answer to a call, after the entries T of its list.
FinalOk(p, call, v, T) ==
  /\ p.head < 100 /\ p.head # Reply.SVCINFO /\ p.item = NoItems
  /\ Readable(p.head, p.body, v)
  /\ \E e \in Entries :
       /\ p.says = <<e>>
       /\ \/ /\ p.head \in Accepted(call.api) \/ (call.api = "list" /\ p.head = Reply.LISTDONE /\ DOMAIN T = Services)
             /\ e = Entry(Kind(p.head), Result(p.head, p.body, v, call.on, T)) /\ e.tag # "refused"
          \/ /\ p.head \in DOMAIN SimpleErrors \ (Accepted(call.api) \union {Reply.LISTDONE})
             /\ p.body = << >> /\ e.tag = "refused"

Listing(call) == call # None /\ call.api = "list"
IsFinal(p, call, v, T) == call # None /\ FinalOk(p, call, v, T)

Owed(pk, call, v, d, T) ==
  \A i \in 1 .. Len(pk) :
    \/ InfoOk(pk[i], v, d)
    \/ Listing(call) /\ ItemOk(pk[i], v)
    \/ IsFinal(pk[i], call, v, T) /\ \A j \in i + 1 .. Len(pk) : InfoOk(pk[j], v, d)

\* The answer is among them.
Final(p) == p.head < 100 /\ p.head # Reply.SVCINFO
HasFinal(pk) == \E i \in 1 .. Len(pk) : Final(pk[i])

LEMMA KindsApart ==
  ASSUME NEW p \in Packets, NEW call, NEW v, NEW d, NEW T
  PROVE  /\ InfoOk(p, v, d) => p.head >= 100 /\ ~Final(p) /\ p.head # Reply.SVCINFO /\ Readable(p.head, p.body, v)
         /\ ItemOk(p, v) => p.head = Reply.SVCINFO /\ ~Final(p) /\ ~(p.head >= 100) /\ Readable(p.head, p.body, v)
         /\ FinalOk(p, call, v, T) => Final(p) /\ ~(p.head >= 100) /\ p.head # Reply.SVCINFO /\ Readable(p.head, p.body, v)
<1>1. p.head \in Nat
  BY PacketFunctions
<1>2. Reply.SVCINFO = 62
  BY ReplyCodes
<1>3. InfoOk(p, v, d) => p.head >= 100 /\ Readable(p.head, p.body, v)
  BY DEF InfoOk
<1>4. ItemOk(p, v) => p.head = Reply.SVCINFO /\ Readable(p.head, p.body, v)
  BY DEF ItemOk
<1>5. FinalOk(p, call, v, T) => p.head < 100 /\ p.head # Reply.SVCINFO /\ Readable(p.head, p.body, v)
  BY DEF FinalOk
<1>. QED
  BY <1>1, <1>2, <1>3, <1>4, <1>5 DEF Final

LEMMA OwedNothing ==
  ASSUME NEW call, NEW v, NEW d, NEW T PROVE Owed(<< >>, call, v, d, T) /\ ~HasFinal(<< >>)
BY EmptySeq DEF Owed, HasFinal

LEMMA OwedFirst ==
  ASSUME NEW pk \in Seq(Packets), pk # << >>, NEW call, NEW v, NEW d, NEW T, Owed(pk, call, v, d, T)
  PROVE  LET p == pk[1]
         IN /\ Readable(p.head, p.body, v)
            /\ \/ InfoOk(p, v, d)
               \/ Listing(call) /\ ItemOk(p, v)
               \/ IsFinal(p, call, v, T) /\ \A j \in 2 .. Len(pk) : InfoOk(pk[j], v, d)
<1>1. 1 \in 1 .. Len(pk) /\ pk[1] \in Packets
  BY FirstOf
<1>2. \/ InfoOk(pk[1], v, d)
      \/ Listing(call) /\ ItemOk(pk[1], v)
      \/ IsFinal(pk[1], call, v, T) /\ \A j \in 1 + 1 .. Len(pk) : InfoOk(pk[j], v, d)
  BY <1>1 DEF Owed
<1>3. 1 + 1 = 2
  OBVIOUS
<1>. QED
  BY <1>1, <1>2, <1>3, KindsApart DEF IsFinal

LEMMA OwedRest ==
  ASSUME NEW pk \in Seq(Packets), pk # << >>, NEW call, NEW v, NEW d, NEW T, Owed(pk, call, v, d, T)
  PROVE  /\ Owed(Tail(pk), call, v, d, T)
         /\ ~Final(pk[1]) => (HasFinal(Tail(pk)) <=> HasFinal(pk))
<1>. DEFINE t == Tail(pk)
<1>1. /\ Len(pk) \in Nat /\ Len(pk) > 0 /\ Len(t) = Len(pk) - 1 /\ \A i \in 1 .. Len(pk) - 1 : t[i] = pk[i + 1]
  BY FirstOf
<1>. HIDE DEF t
<1>2. ASSUME NEW i \in 1 .. Len(t)
      PROVE  \/ InfoOk(t[i], v, d)
             \/ Listing(call) /\ ItemOk(t[i], v)
             \/ IsFinal(t[i], call, v, T) /\ \A j \in i + 1 .. Len(t) : InfoOk(t[j], v, d)
  <2>1. i + 1 \in 1 .. Len(pk) /\ t[i] = pk[i + 1]
    BY <1>1
  <2>2. \/ InfoOk(pk[i + 1], v, d)
        \/ Listing(call) /\ ItemOk(pk[i + 1], v)
        \/ IsFinal(pk[i + 1], call, v, T) /\ \A j \in (i + 1) + 1 .. Len(pk) : InfoOk(pk[j], v, d)
    BY <2>1 DEF Owed
  <2>3. ASSUME NEW j \in i + 1 .. Len(t) PROVE t[j] = pk[j + 1] /\ j + 1 \in (i + 1) + 1 .. Len(pk)
    BY <1>1
  <2>. QED
    BY <2>1, <2>2, <2>3
<1>3. Owed(t, call, v, d, T)
  BY <1>2 DEF Owed
<1>4. ASSUME ~Final(pk[1]), NEW i \in 1 .. Len(pk), Final(pk[i]) PROVE HasFinal(t)
  <2>1. i # 1
    BY <1>4
  <2>2. i - 1 \in 1 .. Len(t) /\ (i - 1) + 1 = i
    BY <1>1, <2>1
  <2>3. t[i - 1] = pk[i]
    BY <1>1, <2>2
  <2>. QED
    BY <1>4, <2>2, <2>3 DEF HasFinal
<1>5. ASSUME NEW i \in 1 .. Len(t), Final(t[i]) PROVE HasFinal(pk)
  <2>1. i + 1 \in 1 .. Len(pk) /\ t[i] = pk[i + 1]
    BY <1>1
  <2>. QED
    BY <1>5, <2>1 DEF HasFinal
<1>6. ~Final(pk[1]) => (HasFinal(t) <=> HasFinal(pk))
  BY <1>4, <1>5 DEF HasFinal
<1>. QED
  BY <1>3, <1>6 DEF t

\* Only what dinit sends by itself.
Unasked(pk, v, d) == \A i \in 1 .. Len(pk) : InfoOk(pk[i], v, d)

LEMMA AfterFinal ==
  ASSUME NEW pk \in Seq(Packets), pk # << >>, NEW v, NEW d, \A j \in 2 .. Len(pk) : InfoOk(pk[j], v, d)
  PROVE  Unasked(Tail(pk), v, d)
<1>. DEFINE t == Tail(pk)
<1>1. /\ Len(pk) \in Nat /\ Len(pk) > 0 /\ Len(t) = Len(pk) - 1 /\ \A i \in 1 .. Len(pk) - 1 : t[i] = pk[i + 1]
  BY FirstOf
<1>. HIDE DEF t
<1>2. ASSUME NEW i \in 1 .. Len(t) PROVE InfoOk(t[i], v, d)
  <2>1. i + 1 \in 2 .. Len(pk) /\ t[i] = pk[i + 1]
    BY <1>1
  <2>. QED
    BY <2>1
<1>. QED
  BY <1>2 DEF Unasked, t

LEMMA OwedUnasked ==
  ASSUME NEW pk \in Seq(Packets), NEW call, NEW v, NEW d, NEW T, Unasked(pk, v, d)
  PROVE  Owed(pk, call, v, d, T) /\ ~HasFinal(pk) /\ \A i \in 1 .. Len(pk) : pk[i].item = NoItems
<1>1. \A i \in 1 .. Len(pk) : pk[i] \in Packets /\ InfoOk(pk[i], v, d)
  BY LenProperties DEF Unasked
<1>2. \A i \in 1 .. Len(pk) : ~Final(pk[i])
  BY <1>1, KindsApart
<1>3. \A i \in 1 .. Len(pk) : pk[i].item = NoItems
  BY <1>1 DEF InfoOk
<1>. QED
  BY <1>1, <1>2, <1>3 DEF Owed, HasFinal

(* Until its answer comes, what is on the way to a client is not about the entries of a list yet to come; and  *)
(* when nothing was asked for, all of it is sent by dinit itself. *)
LEMMA OwedEarly ==
  ASSUME NEW pk \in Seq(Packets), NEW call, NEW v, NEW d, NEW T, NEW U, Owed(pk, call, v, d, T), ~HasFinal(pk)
  PROVE  Owed(pk, call, v, d, U) /\ (call = None => Unasked(pk, v, d))
<1>1. ASSUME NEW i \in 1 .. Len(pk) PROVE InfoOk(pk[i], v, d) \/ (Listing(call) /\ ItemOk(pk[i], v))
  <2>1. pk[i] \in Packets /\ ~Final(pk[i])
    BY LenProperties DEF HasFinal
  <2>2. ~FinalOk(pk[i], call, v, T)
    BY <2>1, KindsApart
  <2>. QED
    BY <2>2 DEF Owed, IsFinal
<1>2. call = None => ~Listing(call)
  BY DEF Listing
<1>. QED
  BY <1>1, <1>2 DEF Owed, Unasked

LEMMA LastOf ==
  ASSUME NEW pk \in Seq(Packets), NEW p \in Packets
  PROVE  /\ Append(pk, p) \in Seq(Packets) /\ Len(Append(pk, p)) = Len(pk) + 1 /\ Len(pk) \in Nat
         /\ Append(pk, p)[Len(pk) + 1] = p /\ \A i \in 1 .. Len(pk) : Append(pk, p)[i] = pk[i]
BY AppendProperties, LenProperties

LEMMA OwedInfo ==
  ASSUME NEW pk \in Seq(Packets), NEW call, NEW v, NEW d, NEW T, Owed(pk, call, v, d, T),
         NEW p \in Packets, InfoOk(p, v, d)
  PROVE  Owed(Append(pk, p), call, v, d, T) /\ (HasFinal(Append(pk, p)) <=> HasFinal(pk))
<1>. DEFINE q == Append(pk, p)
            n == Len(pk)
<1>1. Len(q) = n + 1 /\ n \in Nat /\ q[n + 1] = p /\ \A i \in 1 .. n : q[i] = pk[i]
  BY LastOf
<1>2. ~Final(p)
  BY KindsApart
<1>. HIDE DEF q
<1>3. ASSUME NEW i \in 1 .. n + 1
      PROVE  \/ InfoOk(q[i], v, d)
             \/ Listing(call) /\ ItemOk(q[i], v)
             \/ IsFinal(q[i], call, v, T) /\ \A j \in i + 1 .. n + 1 : InfoOk(q[j], v, d)
  <2>1. CASE i = n + 1
    BY <1>1, <2>1
  <2>2. CASE i # n + 1
    <3>1. i \in 1 .. n
      BY <1>1, <2>2
    <3>2. \/ InfoOk(pk[i], v, d)
          \/ Listing(call) /\ ItemOk(pk[i], v)
          \/ IsFinal(pk[i], call, v, T) /\ \A j \in i + 1 .. n : InfoOk(pk[j], v, d)
      BY <3>1 DEF Owed
    <3>3. ASSUME NEW j \in i + 1 .. n + 1 PROVE j = n + 1 \/ (j \in i + 1 .. n /\ j \in 1 .. n)
      BY <1>1, <3>1
    <3>4. \A j \in i + 1 .. n + 1 : q[j] = p \/ (j \in i + 1 .. n /\ q[j] = pk[j])
      BY <1>1, <3>3
    <3>. QED
      BY <1>1, <3>1, <3>2, <3>4
  <2>. QED
    BY <2>1, <2>2
<1>4. Owed(q, call, v, d, T)
  BY <1>1, <1>3 DEF Owed
<1>5. ASSUME NEW i \in 1 .. n + 1, Final(q[i]) PROVE HasFinal(pk)
  <2>1. i # n + 1
    BY <1>1, <1>2, <1>5
  <2>2. i \in 1 .. n
    BY <1>1, <2>1
  <2>. QED
    BY <1>1, <1>5, <2>2 DEF HasFinal
<1>6. ASSUME NEW i \in 1 .. n, Final(pk[i]) PROVE HasFinal(q)
  <2>1. i \in 1 .. n + 1
    BY <1>1
  <2>. QED
    BY <1>1, <1>6, <2>1 DEF HasFinal
<1>7. HasFinal(q) <=> HasFinal(pk)
  BY <1>1, <1>5, <1>6 DEF HasFinal
<1>. QED
  BY <1>4, <1>7 DEF q

LEMMA OwedItem ==
  ASSUME NEW pk \in Seq(Packets), NEW call, NEW v, NEW d, NEW T, Owed(pk, call, v, d, T), ~HasFinal(pk),
         NEW p \in Packets, Listing(call), ItemOk(p, v), NEW U
  PROVE  Owed(Append(pk, p), call, v, d, U) /\ ~HasFinal(Append(pk, p))
<1>. DEFINE q == Append(pk, p)
            n == Len(pk)
<1>1. Len(q) = n + 1 /\ n \in Nat /\ q[n + 1] = p /\ \A i \in 1 .. n : q[i] = pk[i]
  BY LastOf
<1>2. ~Final(p)
  BY KindsApart
<1>. HIDE DEF q
<1>3. ASSUME NEW i \in 1 .. n + 1
      PROVE  (InfoOk(q[i], v, d) \/ (Listing(call) /\ ItemOk(q[i], v))) /\ ~Final(q[i])
  <2>1. CASE i = n + 1
    BY <1>1, <1>2, <2>1
  <2>2. CASE i # n + 1
    <3>1. i \in 1 .. n
      BY <1>1, <2>2
    <3>2. pk[i] \in Packets /\ ~Final(pk[i]) /\ q[i] = pk[i]
      BY <1>1, <3>1, LenProperties DEF HasFinal
    <3>3. ~FinalOk(pk[i], call, v, T)
      BY <3>2, KindsApart
    <3>4. InfoOk(pk[i], v, d) \/ (Listing(call) /\ ItemOk(pk[i], v))
      BY <3>1, <3>3 DEF Owed, IsFinal
    <3>. QED
      BY <3>2, <3>4
  <2>. QED
    BY <2>1, <2>2
<1>. QED
  BY <1>1, <1>3 DEF Owed, HasFinal, q

LEMMA OwedFinal ==
  ASSUME NEW pk \in Seq(Packets), NEW call, NEW v, NEW d, NEW T, Owed(pk, call, v, d, T), ~HasFinal(pk),
         NEW p \in Packets, IsFinal(p, call, v, T)
  PROVE  Owed(Append(pk, p), call, v, d, T) /\ HasFinal(Append(pk, p))
<1>. DEFINE q == Append(pk, p)
            n == Len(pk)
<1>1. Len(q) = n + 1 /\ n \in Nat /\ q[n + 1] = p /\ \A i \in 1 .. n : q[i] = pk[i]
  BY LastOf
<1>2. Final(p)
  BY KindsApart DEF IsFinal
<1>. HIDE DEF q
<1>3. ASSUME NEW i \in 1 .. n + 1
      PROVE  \/ InfoOk(q[i], v, d)
             \/ Listing(call) /\ ItemOk(q[i], v)
             \/ IsFinal(q[i], call, v, T) /\ \A j \in i + 1 .. n + 1 : InfoOk(q[j], v, d)
  <2>1. CASE i = n + 1
    <3>1. \A j \in i + 1 .. n + 1 : FALSE
      BY <1>1, <2>1
    <3>. QED
      BY <1>1, <2>1, <3>1
  <2>2. CASE i # n + 1
    <3>1. i \in 1 .. n
      BY <1>1, <2>2
    <3>2. pk[i] \in Packets /\ ~Final(pk[i]) /\ q[i] = pk[i]
      BY <1>1, <3>1, LenProperties DEF HasFinal
    <3>3. ~FinalOk(pk[i], call, v, T)
      BY <3>2, KindsApart
    <3>4. InfoOk(pk[i], v, d) \/ (Listing(call) /\ ItemOk(pk[i], v))
      BY <3>1, <3>3 DEF Owed, IsFinal
    <3>. QED
      BY <3>2, <3>4
  <2>. QED
    BY <2>1, <2>2
<1>4. n + 1 \in 1 .. n + 1
  BY <1>1
<1>. QED
  BY <1>1, <1>2, <1>3, <1>4 DEF Owed, HasFinal, q

\* What a version does not matter for is the same for the daemon's.
LEMMA OwedNegotiated ==
  ASSUME NEW pk \in Seq(Packets), NEW v, NEW d, Unasked(pk, v, d)
  PROVE  Unasked(pk, d, d)
BY DEF Unasked, InfoOk

-----------------------------------------------------------------------------
(* The entries of a list, and the command that is under way.               *)

LEMMA NoItemsIs == DOMAIN NoItems = {} /\ NoItems \in Lists
<1>1. DOMAIN NoItems = {} /\ NoItems \in [{} -> Conditions]
  BY DEF NoItems
<1>2. {} \in SUBSET Services
  OBVIOUS
<1>. QED
  BY <1>1, <1>2 DEF Lists

LEMMA ListsAre ==
  ASSUME NEW T \in Lists
  PROVE  /\ DOMAIN T \subseteq Services /\ T \in [DOMAIN T -> Conditions]
         /\ T # NoItems <=> DOMAIN T # {}
<1>1. PICK S \in SUBSET Services : T \in [S -> Conditions]
  BY DEF Lists
<1>2. DOMAIN T = S /\ T \in [DOMAIN T -> Conditions]
  BY <1>1
<1>3. ASSUME DOMAIN T = {} PROVE T = NoItems
  <2>1. T = [t \in DOMAIN T |-> T[t]]
    BY <1>2
  <2>. QED
    BY <1>3, <2>1 DEF NoItems
<1>. QED
  BY <1>2, <1>3, NoItemsIs

LEMMA SameLists ==
  ASSUME NEW T \in Lists, NEW U \in Lists, DOMAIN T = DOMAIN U, \A s \in DOMAIN T : T[s] = U[s]
  PROVE  T = U
BY ListsAre

LEMMA OneListed ==
  ASSUME NEW T \in Lists, NEW s \in Services, NEW c \in Conditions
  PROVE  /\ With(T, s, c) \in Lists /\ DOMAIN With(T, s, c) = {s} \union DOMAIN T /\ With(T, s, c)[s] = c
         /\ \A t \in DOMAIN T : t # s => With(T, s, c)[t] = T[t]
<1>1. DOMAIN T \subseteq Services /\ \A t \in DOMAIN T : T[t] \in Conditions
  BY ListsAre
<1>2. With(T, s, c) \in [{s} \union DOMAIN T -> Conditions]
  BY <1>1 DEF With
<1>3. {s} \union DOMAIN T \in SUBSET Services
  BY <1>1
<1>4. With(T, s, c) \in Lists
  BY <1>2, <1>3 DEF Lists
<1>. QED
  BY <1>4 DEF With

LEMMA OneIs ==
  ASSUME NEW s \in Services, NEW c \in Conditions
  PROVE  One(s, c) \in Lists /\ DOMAIN One(s, c) = {s} /\ One(s, c)[s] = c
<1>1. NoItems \in Lists /\ {s} \union DOMAIN NoItems = {s}
  BY NoItemsIs
<1>2. /\ With(NoItems, s, c) \in Lists /\ DOMAIN With(NoItems, s, c) = {s} \union DOMAIN NoItems
      /\ With(NoItems, s, c)[s] = c
  BY <1>1, OneListed
<1>. QED
  BY <1>1, <1>2 DEF One

LEMMA ToldTyped ==
  ASSUME NEW c \in Statuses, NEW v
  PROVE  Told(c, v) \in Conditions
<1>. DEFINE second == IF c.how = "exit" /\ v >= 5 THEN c.second ELSE None
            changed == IF v >= 6 THEN c.changed ELSE None
<1>1. /\ c = [state |-> c.state, target |-> c.target, active |-> c.active, reason |-> c.reason, how |-> c.how,
              stage |-> c.stage, first |-> c.first, second |-> c.second, changed |-> c.changed]
      /\ c.state \in Range(ServiceState) /\ c.target \in Range(ServiceState) /\ c.active \in BOOLEAN
      /\ c.reason \in Range(StoppedReason) /\ c.how \in {"pid", "exit", "exec"}
      /\ c.stage \in Nat \union {None} /\ c.first \in Nat /\ c.second \in Nat /\ c.changed \in Nat
  BY StatusTyped
<1>2. second \in Nat \union {None} /\ changed \in Nat \union {None}
  BY <1>1
<1>3. Told(c, v) = [c EXCEPT !.second = second, !.changed = changed]
  BY DEF Told
<1>4. /\ DOMAIN c = {"state", "target", "active", "reason", "how", "stage", "first", "second", "changed"}
      /\ c = [f \in DOMAIN c |-> c[f]]
  BY <1>1
<1>. HIDE DEF second, changed
<1>5. Told(c, v) = [state |-> c.state, target |-> c.target, active |-> c.active, reason |-> c.reason, how |-> c.how,
                    stage |-> c.stage, first |-> c.first, second |-> second, changed |-> changed]
  BY <1>3, <1>4
<1>. QED
  BY <1>1, <1>2, <1>5 DEF Conditions

\* The entries T, that dinit has sent, are those that the client has and those on the way.
Collected(T, its, pk) ==
  /\ T \in Lists /\ its \in Lists
  /\ \A s \in DOMAIN its : s \in DOMAIN T /\ its[s] = T[s]
  /\ \A i \in 1 .. Len(pk) : \A s \in DOMAIN pk[i].item : s \in DOMAIN T /\ pk[i].item[s] = T[s]
  /\ \A s \in DOMAIN T : s \in DOMAIN its \/ \E i \in 1 .. Len(pk) : s \in DOMAIN pk[i].item

LEMMA CollectedNone ==
  ASSUME NEW pk \in Seq(Packets), \A i \in 1 .. Len(pk) : pk[i].item = NoItems
  PROVE  Collected(NoItems, NoItems, pk)
BY NoItemsIs DEF Collected

LEMMA CollectedAll ==
  ASSUME NEW pk \in Seq(Packets), NEW T, NEW its, Collected(T, its, pk), \A i \in 1 .. Len(pk) : pk[i].item = NoItems
  PROVE  its = T
<1>1. /\ T \in Lists /\ its \in Lists /\ \A s \in DOMAIN its : s \in DOMAIN T /\ its[s] = T[s]
      /\ \A s \in DOMAIN T : s \in DOMAIN its
  BY NoItemsIs DEF Collected
<1>. QED
  BY <1>1, SameLists

LEMMA CollectedMore ==
  ASSUME NEW pk \in Seq(Packets), NEW T, NEW its, Collected(T, its, pk), NEW p \in Packets, p.item = NoItems
  PROVE  Collected(T, its, Append(pk, p))
<1>. DEFINE q == Append(pk, p)
            n == Len(pk)
<1>1. Len(q) = n + 1 /\ n \in Nat /\ q[n + 1] = p /\ \A i \in 1 .. n : q[i] = pk[i]
  BY LastOf
<1>2. /\ T \in Lists /\ its \in Lists
      /\ \A s \in DOMAIN its : s \in DOMAIN T /\ its[s] = T[s]
      /\ \A i \in 1 .. n : \A s \in DOMAIN pk[i].item : s \in DOMAIN T /\ pk[i].item[s] = T[s]
      /\ \A s \in DOMAIN T : s \in DOMAIN its \/ \E i \in 1 .. n : s \in DOMAIN pk[i].item
  BY DEF Collected
<1>. HIDE DEF q, n
<1>3. ASSUME NEW i \in 1 .. n + 1, NEW s \in DOMAIN q[i].item PROVE s \in DOMAIN T /\ q[i].item[s] = T[s]
  <2>1. i # n + 1
    BY <1>1, <1>3, NoItemsIs
  <2>2. i \in 1 .. n
    BY <1>1, <2>1
  <2>. QED
    BY <1>1, <1>2, <1>3, <2>2
<1>4. ASSUME NEW s \in DOMAIN T PROVE s \in DOMAIN its \/ \E i \in 1 .. n + 1 : s \in DOMAIN q[i].item
  <2>1. ASSUME NEW i \in 1 .. n, s \in DOMAIN pk[i].item PROVE i \in 1 .. n + 1 /\ s \in DOMAIN q[i].item
    BY <1>1, <2>1
  <2>. QED
    BY <1>2, <2>1
<1>5. Len(q) = n + 1
  BY <1>1
<1>6. Collected(T, its, q)
  BY <1>2, <1>3, <1>4, <1>5 DEF Collected
<1>. QED
  BY <1>6 DEF q

LEMMA CollectedItem ==
  ASSUME NEW pk \in Seq(Packets), NEW T, NEW its, Collected(T, its, pk), NEW p \in Packets,
         NEW s \in Services, NEW c \in Conditions, s \notin DOMAIN T, p.item = One(s, c)
  PROVE  Collected(With(T, s, c), its, Append(pk, p))
<1>. DEFINE q == Append(pk, p)
            n == Len(pk)
            U == With(T, s, c)
<1>1. Len(q) = n + 1 /\ n \in Nat /\ q[n + 1] = p /\ \A i \in 1 .. n : q[i] = pk[i]
  BY LastOf
<1>2. /\ T \in Lists /\ its \in Lists
      /\ \A t \in DOMAIN its : t \in DOMAIN T /\ its[t] = T[t]
      /\ \A i \in 1 .. n : \A t \in DOMAIN pk[i].item : t \in DOMAIN T /\ pk[i].item[t] = T[t]
      /\ \A t \in DOMAIN T : t \in DOMAIN its \/ \E i \in 1 .. n : t \in DOMAIN pk[i].item
  BY DEF Collected
<1>3. /\ U \in Lists /\ DOMAIN U = {s} \union DOMAIN T /\ U[s] = c
      /\ \A t \in DOMAIN T : t # s => U[t] = T[t]
      /\ DOMAIN p.item = {s} /\ p.item[s] = c
  <2>1. T \in Lists
    BY <1>2
  <2>2. /\ With(T, s, c) \in Lists /\ DOMAIN With(T, s, c) = {s} \union DOMAIN T /\ With(T, s, c)[s] = c
        /\ \A t \in DOMAIN T : t # s => With(T, s, c)[t] = T[t]
    BY <2>1, OneListed
  <2>3. DOMAIN p.item = {s} /\ p.item[s] = c
    BY OneIs
  <2>. QED
    BY <2>2, <2>3
<1>4. \A t \in DOMAIN T : U[t] = T[t]
  BY <1>3
<1>. HIDE DEF q, n, U
<1>5. \A t \in DOMAIN its : t \in DOMAIN U /\ its[t] = U[t]
  BY <1>2, <1>3, <1>4
<1>6. ASSUME NEW i \in 1 .. n + 1, NEW t \in DOMAIN q[i].item PROVE t \in DOMAIN U /\ q[i].item[t] = U[t]
  <2>1. CASE i = n + 1
    <3>1. q[i].item = p.item
      BY <1>1, <2>1
    <3>2. t = s
      BY <1>3, <1>6, <3>1
    <3>. QED
      BY <1>3, <3>1, <3>2
  <2>2. CASE i # n + 1
    <3>1. i \in 1 .. n /\ q[i] = pk[i]
      BY <1>1, <2>2
    <3>2. t \in DOMAIN T /\ q[i].item[t] = T[t]
      BY <1>2, <1>6, <3>1
    <3>. QED
      BY <1>3, <1>4, <3>2
  <2>. QED
    BY <2>1, <2>2
<1>7. ASSUME NEW t \in DOMAIN U PROVE t \in DOMAIN its \/ \E i \in 1 .. n + 1 : t \in DOMAIN q[i].item
  <2>1. ASSUME NEW i \in 1 .. n, t \in DOMAIN pk[i].item PROVE i \in 1 .. n + 1 /\ t \in DOMAIN q[i].item
    BY <1>1, <2>1
  <2>2. n + 1 \in 1 .. n + 1 /\ q[n + 1].item = p.item /\ s \in DOMAIN p.item
    BY <1>1, <1>3
  <2>. QED
    BY <1>2, <1>3, <2>1, <2>2
<1>8. Len(q) = n + 1
  BY <1>1
<1>9. Collected(U, its, q)
  BY <1>2, <1>3, <1>5, <1>6, <1>7, <1>8 DEF Collected
<1>. QED
  BY <1>9 DEF q, U

LEMMA CollectedRest ==
  ASSUME NEW pk \in Seq(Packets), pk # << >>, NEW T, NEW its, Collected(T, its, pk), pk[1].item = NoItems
  PROVE  Collected(T, its, Tail(pk))
<1>. DEFINE q == Tail(pk)
            n == Len(pk)
<1>1. n \in Nat /\ Len(q) = n - 1 /\ \A i \in 1 .. n - 1 : q[i] = pk[i + 1]
  BY FirstOf
<1>2. /\ T \in Lists /\ its \in Lists
      /\ \A t \in DOMAIN its : t \in DOMAIN T /\ its[t] = T[t]
      /\ \A i \in 1 .. n : \A t \in DOMAIN pk[i].item : t \in DOMAIN T /\ pk[i].item[t] = T[t]
      /\ \A t \in DOMAIN T : t \in DOMAIN its \/ \E i \in 1 .. n : t \in DOMAIN pk[i].item
  BY DEF Collected
<1>. HIDE DEF q, n
<1>3. ASSUME NEW i \in 1 .. n - 1, NEW t \in DOMAIN q[i].item PROVE t \in DOMAIN T /\ q[i].item[t] = T[t]
  <2>1. i + 1 \in 1 .. n /\ q[i] = pk[i + 1]
    BY <1>1
  <2>. QED
    BY <1>2, <1>3, <2>1
<1>4. ASSUME NEW t \in DOMAIN T PROVE t \in DOMAIN its \/ \E i \in 1 .. n - 1 : t \in DOMAIN q[i].item
  <2>1. ASSUME NEW i \in 1 .. n, t \in DOMAIN pk[i].item PROVE i - 1 \in 1 .. n - 1 /\ t \in DOMAIN q[i - 1].item
    <3>1. i # 1
      BY <2>1, NoItemsIs
    <3>2. i - 1 \in 1 .. n - 1 /\ (i - 1) + 1 = i
      BY <1>1, <3>1
    <3>. QED
      BY <1>1, <2>1, <3>2
  <2>. QED
    BY <1>2, <2>1
<1>5. Len(q) = n - 1
  BY <1>1
<1>6. Collected(T, its, q)
  BY <1>2, <1>3, <1>4, <1>5 DEF Collected
<1>. QED
  BY <1>6 DEF q

LEMMA CollectedTaken ==
  ASSUME NEW pk \in Seq(Packets), pk # << >>, NEW T, NEW its, Collected(T, its, pk),
         NEW s \in Services, NEW c \in Conditions, pk[1].item = One(s, c)
  PROVE  Collected(T, With(its, s, c), Tail(pk))
<1>. DEFINE q == Tail(pk)
            n == Len(pk)
            U == With(its, s, c)
<1>1. n \in Nat /\ n > 0 /\ Len(q) = n - 1 /\ \A i \in 1 .. n - 1 : q[i] = pk[i + 1]
  BY FirstOf
<1>2. /\ T \in Lists /\ its \in Lists
      /\ \A t \in DOMAIN its : t \in DOMAIN T /\ its[t] = T[t]
      /\ \A i \in 1 .. n : \A t \in DOMAIN pk[i].item : t \in DOMAIN T /\ pk[i].item[t] = T[t]
      /\ \A t \in DOMAIN T : t \in DOMAIN its \/ \E i \in 1 .. n : t \in DOMAIN pk[i].item
  BY DEF Collected
<1>3. /\ U \in Lists /\ DOMAIN U = {s} \union DOMAIN its /\ U[s] = c
      /\ \A t \in DOMAIN its : t # s => U[t] = its[t]
      /\ DOMAIN pk[1].item = {s} /\ pk[1].item[s] = c
  <2>1. its \in Lists
    BY <1>2
  <2>2. /\ With(its, s, c) \in Lists /\ DOMAIN With(its, s, c) = {s} \union DOMAIN its /\ With(its, s, c)[s] = c
        /\ \A t \in DOMAIN its : t # s => With(its, s, c)[t] = its[t]
    BY <2>1, OneListed
  <2>3. DOMAIN pk[1].item = {s} /\ pk[1].item[s] = c
    BY OneIs
  <2>. QED
    BY <2>2, <2>3
<1>. HIDE DEF q, n, U
<1>4. s \in DOMAIN T /\ T[s] = c
  <2>1. 1 \in 1 .. n /\ s \in DOMAIN pk[1].item
    BY <1>1, <1>3
  <2>. QED
    BY <1>2, <1>3, <2>1
<1>5. \A t \in DOMAIN U : t \in DOMAIN T /\ U[t] = T[t]
  BY <1>2, <1>3, <1>4
<1>6. ASSUME NEW i \in 1 .. n - 1, NEW t \in DOMAIN q[i].item PROVE t \in DOMAIN T /\ q[i].item[t] = T[t]
  <2>1. i + 1 \in 1 .. n /\ q[i] = pk[i + 1]
    BY <1>1
  <2>. QED
    BY <1>2, <1>6, <2>1
<1>7. ASSUME NEW t \in DOMAIN T PROVE t \in DOMAIN U \/ \E i \in 1 .. n - 1 : t \in DOMAIN q[i].item
  <2>1. ASSUME NEW i \in 1 .. n, t \in DOMAIN pk[i].item, t \notin DOMAIN U
        PROVE  i - 1 \in 1 .. n - 1 /\ t \in DOMAIN q[i - 1].item
    <3>1. i # 1
      BY <1>3, <2>1
    <3>2. i - 1 \in 1 .. n - 1 /\ (i - 1) + 1 = i
      BY <1>1, <3>1
    <3>. QED
      BY <1>1, <2>1, <3>2
  <2>. QED
    BY <1>2, <1>3, <2>1
<1>8. Len(q) = n - 1
  BY <1>1
<1>9. Collected(T, U, q)
  BY <1>2, <1>3, <1>5, <1>6, <1>7, <1>8 DEF Collected
<1>. QED
  BY <1>9 DEF q, U

-----------------------------------------------------------------------------
(* The command that dinit has read of a call, with the entries T that it has answered. *)

Hearing(call, v, T) ==
  [code |-> CodeFor(call.api, v), on |-> call.on, does |-> DoesFor(call), whole |-> TRUE, told |-> T]

LEMMA CodeTyped ==
  ASSUME NEW api \in Apis, NEW v PROVE CodeFor(api, v) \in Nat
<1>1. ListCommand(v) \in Nat /\ StatusCommand(v) \in Nat
  BY CommandCodes DEF ListCommand, StatusCommand
<1>2. api \in {"version", "list", "env", "mech", "find", "load", "setenv"}
        \/ api \in {"start", "stop", "restart", "wake", "release", "catlog"}
        \/ api \in {"unpin", "reload", "unload", "status", "signal"}
  BY DEF Apis, OnHandle
<1>3. CASE api \in {"version", "list", "env", "mech", "find", "load", "setenv"}
  BY <1>1, <1>3, CommandCodes DEF CodeFor
<1>4. CASE api \in {"start", "stop", "restart", "wake", "release", "catlog"}
  BY <1>1, <1>4, CommandCodes DEF CodeFor
<1>5. CASE api \in {"unpin", "reload", "unload", "status", "signal"}
  BY <1>1, <1>5, CommandCodes DEF CodeFor
<1>. QED
  BY <1>2, <1>3, <1>4, <1>5

LEMMA DoesTyped ==
  ASSUME NEW call \in Callable PROVE DoesFor(call) \in SUBSET {"pin", "gentle", "restart", "clear", "signal"}
<1>1. call.options \subseteq {"pin", "force", "clear"}
  BY DEF Callable, Possible, Requests, Hello
<1>2. call.options \ {"force"} \subseteq {"pin", "clear"}
  BY <1>1
<1>. QED
  BY <1>2 DEF DoesFor

LEMMA HearingIs ==
  ASSUME NEW call \in Callable, NEW v, NEW T \in Lists
  PROVE  /\ Hearing(call, v, T) \in Commanded /\ Hearing(call, v, T) # None
         /\ Hearing(call, v, T).code = CodeFor(call.api, v) /\ Hearing(call, v, T).on = call.on
         /\ Hearing(call, v, T).does = DoesFor(call) /\ Hearing(call, v, T).whole /\ Hearing(call, v, T).told = T
<1>1. call.api \in Apis /\ call.on \in Texts \union {None}
  BY CallTyped
<1>2. CodeFor(call.api, v) \in Nat /\ DoesFor(call) \in SUBSET {"pin", "gentle", "restart", "clear", "signal"}
  BY <1>1, CodeTyped, DoesTyped
<1>3. Hearing(call, v, T) \in Commanded
  BY <1>1, <1>2 DEF Hearing, Commanded
<1>4. None \notin Commanded
  BY ConstantsTyped
<1>. QED
  BY <1>3, <1>4 DEF Hearing

LEMMA HearingMore ==
  ASSUME NEW call, NEW v, NEW T, NEW U
  PROVE  /\ [Hearing(call, v, T) EXCEPT !.told = U] = Hearing(call, v, U)
         /\ Whole(CodeFor(call.api, v), call.on, DoesFor(call)) = Hearing(call, v, NoItems)
<1>1. Whole(CodeFor(call.api, v), call.on, DoesFor(call)) = Hearing(call, v, NoItems)
  BY DEF Hearing, Whole
<1>. DEFINE code == CodeFor(call.api, v)
            does == DoesFor(call)
            all == TRUE
<1>. HIDE DEF code, does, all
<1>2. [[code |-> code, on |-> call.on, does |-> does, whole |-> all, told |-> T] EXCEPT !.told = U]
        = [code |-> code, on |-> call.on, does |-> does, whole |-> all, told |-> U]
  OBVIOUS
<1>. QED
  BY <1>1, <1>2 DEF Hearing, code, does, all

-----------------------------------------------------------------------------
(* The invariant.                                                          *)

\* The call's command is on its way, or dinit has it, or its answer is on the way.
Turn(call, w, hd, pk, v, T) ==
  IF call = None THEN w = << >> /\ hd = None /\ ~HasFinal(pk) /\ T = NoItems
  ELSE /\ T # NoItems => call.api = "list"
       /\ \/ w # << >> /\ hd = None /\ ~HasFinal(pk) /\ T = NoItems /\ Sends(w, CodeFor(call.api, v), call.on, DoesFor(call))
          \/ w = << >> /\ hd = Hearing(call, v, T) /\ ~HasFinal(pk)
          \/ w = << >> /\ hd = None /\ HasFinal(pk)

\* What is on the stream is the packets pk, of a list with the entries T.
Conform(pk, T) ==
  /\ Waiting(head, buf, stream, pk)
  /\ Meaning(got, meant, pk)
  /\ Owed(pk, asked, version, daemon, T)
  /\ Collected(T, items, pk)
  /\ Turn(asked, wire, heard, pk, version, T)

Typed ==
  /\ daemon \in Versions /\ version \in {1, daemon} /\ opened \subseteq Services
  /\ stream \in Seq(Byte) /\ AllSound(meant, daemon)
  /\ asked \in Callable \union {None}
  /\ asked \notin {None, Hello} \/ opened # {} => version = daemon
  /\ asked # None /\ asked.api \in OnHandle => asked.on \in Services
  /\ calls \in 0 .. Len(Calls) /\ infos \in 0 .. MaxInfo
  /\ asked \in {Hello, None} \/ (calls > 0 /\ asked \in Calls[calls])

IInv == Typed /\ \E pk \in Seq(Packets), T \in Lists : Conform(pk, T)

(* The packet that the reader is at: how much is read of it, and what is still wanted. *)
LEMMA Reading ==
  ASSUME NEW pk \in Seq(Packets), NEW T, Conform(pk, T), Typed, head # None
  PROVE  LET p == pk[1]
         IN /\ pk # << >> /\ p \in Packets /\ p.head = head /\ p.head \in Nat /\ p.body \in Seq(Byte)
            /\ buf \in Seq(Byte) /\ Needs \in Nat /\ Len(buf) \in Nat /\ Len(buf) <= Needs
            /\ Needs <= Len(p.body) /\ Len(p.body) <= Len(buf) + Len(stream)
            /\ Len(buf) = Needs => Len(buf) = Len(p.body)
            /\ \/ InfoOk(p, version, daemon)
               \/ Listing(asked) /\ ItemOk(p, version)
               \/ IsFinal(p, asked, version, T) /\ \A j \in 2 .. Len(pk) : InfoOk(pk[j], version, daemon)
<1>. DEFINE p == pk[1]
            k == Len(buf)
<1>1. Waiting(head, buf, stream, pk) /\ stream \in Seq(Byte) /\ Owed(pk, asked, version, daemon, T)
  BY DEF Conform, Typed
<1>2. /\ pk # << >> /\ head = p.head /\ p \in Packets /\ k \in 0 .. Len(p.body)
      /\ buf = SubSeq(p.body, 1, k) /\ Len(p.body) <= k + Len(stream)
  BY <1>1, WaitingRead
<1>3. buf \in Seq(Byte)
  BY <1>1, WaitingTyped
<1>4. /\ Readable(p.head, p.body, version)
      /\ \/ InfoOk(p, version, daemon)
         \/ Listing(asked) /\ ItemOk(p, version)
         \/ IsFinal(p, asked, version, T) /\ \A j \in 2 .. Len(pk) : InfoOk(pk[j], version, daemon)
  BY <1>1, <1>2, OwedFirst
<1>5. p.head \in Nat /\ p.body \in Seq(Byte)
  BY <1>2, PacketFunctions
<1>. HIDE DEF p, k
<1>6. Needs = Wanted(p.head, SubSeq(p.body, 1, k), version)
  BY <1>2 DEF Needs
<1>. DEFINE n == Wanted(p.head, SubSeq(p.body, 1, k), version)
<1>7. n \in Nat /\ k <= n /\ n <= Len(p.body) /\ (k < Len(p.body) => k < n)
  BY <1>2, <1>4 DEF Readable
<1>8. k \in Nat /\ Len(p.body) \in Nat
  BY <1>2, <1>5, LenProperties
<1>. HIDE DEF n
<1>9. k = n => k = Len(p.body)
  BY <1>7, <1>8
<1>10. n = Needs /\ k = Len(buf)
  BY <1>6 DEF n, k
<1>11. /\ Needs \in Nat /\ Len(buf) \in Nat /\ Len(buf) <= Needs
       /\ Needs <= Len(p.body) /\ Len(p.body) <= Len(buf) + Len(stream)
       /\ Len(buf) = Needs => Len(buf) = Len(p.body)
  BY <1>2, <1>7, <1>8, <1>9, <1>10
<1>. QED
  BY <1>2, <1>3, <1>4, <1>5, <1>11 DEF p

(* A head tells which kind of packet it begins, and whether the call under way takes it. *)
LEMMA AtHead ==
  ASSUME NEW pk \in Seq(Packets), NEW T, Conform(pk, T), Typed, head # None
  PROVE  LET p == pk[1]
         IN /\ IsInfo(head) => InfoOk(p, version, daemon)
            /\ head = Reply.SVCINFO => Listing(asked) /\ ItemOk(p, version)
            /\ ~IsInfo(head) /\ head # Reply.SVCINFO =>
                 /\ IsFinal(p, asked, version, T) /\ items = T /\ asked # None /\ wire = << >> /\ heard = None
                 /\ Unasked(Tail(pk), version, daemon)
            /\ ~Reads => ~IsInfo(head) /\ head # Reply.SVCINFO
<1>. DEFINE p == pk[1]
<1>1. /\ pk # << >> /\ p \in Packets /\ p.head = head /\ head \in Nat
      /\ \/ InfoOk(p, version, daemon)
         \/ Listing(asked) /\ ItemOk(p, version)
         \/ IsFinal(p, asked, version, T) /\ \A j \in 2 .. Len(pk) : InfoOk(pk[j], version, daemon)
  BY Reading
<1>2. /\ InfoOk(p, version, daemon) => IsInfo(head) /\ head # Reply.SVCINFO
      /\ ItemOk(p, version) => ~IsInfo(head) /\ head = Reply.SVCINFO
      /\ FinalOk(p, asked, version, T) => ~IsInfo(head) /\ head # Reply.SVCINFO /\ Final(p)
  BY <1>1, KindsApart DEF IsInfo
<1>3. ASSUME IsFinal(p, asked, version, T), \A j \in 2 .. Len(pk) : InfoOk(pk[j], version, daemon)
      PROVE  items = T /\ asked # None /\ wire = << >> /\ heard = None /\ Unasked(Tail(pk), version, daemon)
  <2>1. Unasked(Tail(pk), version, daemon)
    BY <1>1, <1>3, AfterFinal
  <2>2. asked # None /\ p.item = NoItems /\ Final(p)
    BY <1>2, <1>3 DEF IsFinal, FinalOk
  <2>3. 1 \in 1 .. Len(pk)
    BY <1>1, FirstOf
  <2>4. HasFinal(pk)
    BY <2>2, <2>3 DEF HasFinal
  <2>5. wire = << >> /\ heard = None
    BY <2>2, <2>4 DEF Conform, Turn
  <2>6. \A i \in 1 .. Len(pk) : pk[i].item = NoItems
    <3>1. ASSUME NEW i \in 1 .. Len(pk) PROVE i = 1 \/ i \in 2 .. Len(pk)
      BY <1>1, FirstOf
    <3>. QED
      BY <1>3, <2>2, <3>1 DEF InfoOk
  <2>7. items = T
    BY <2>6, CollectedAll DEF Conform
  <2>. QED
    BY <2>1, <2>2, <2>5, <2>7
<1>4. head = Reply.SVCINFO /\ Listing(asked) => Reads
  BY DEF Reads, Listing, Taken, Accepted
<1>5. IsInfo(head) => Reads
  BY DEF Reads
<1>. HIDE DEF p
<1>6. IsInfo(head) => InfoOk(p, version, daemon)
  BY <1>1, <1>2 DEF IsFinal
<1>7. head = Reply.SVCINFO => Listing(asked) /\ ItemOk(p, version)
  BY <1>1, <1>2 DEF IsFinal
<1>8. ~IsInfo(head) /\ head # Reply.SVCINFO =>
         IsFinal(p, asked, version, T) /\ \A j \in 2 .. Len(pk) : InfoOk(pk[j], version, daemon)
  BY <1>1, <1>2
<1>. QED
  BY <1>3, <1>4, <1>5, <1>6, <1>7, <1>8 DEF p

(* The answer is taken if it is a result, and rejected if it is a refusal. *)
LEMMA TakenOrNot ==
  ASSUME NEW p \in Packets, p.head = head, IsFinal(p, asked, version, items), items \in Lists
  PROVE  \E e \in Entries :
           /\ p.says = <<e>>
           /\ IF Reads THEN e = Entry(Kind(head), Result(head, p.body, version, asked.on, items)) /\ e.tag # "refused"
                       ELSE head \in DOMAIN SimpleErrors /\ p.body = << >> /\ e.tag = "refused"
<1>1. asked # None /\ FinalOk(p, asked, version, items) /\ ~IsInfo(head)
  BY KindsApart DEF IsFinal, IsInfo
<1>2. PICK e \in Entries :
       /\ p.says = <<e>>
       /\ \/ /\ p.head \in Accepted(asked.api) \/ (asked.api = "list" /\ p.head = Reply.LISTDONE /\ DOMAIN items = Services)
             /\ e = Entry(Kind(p.head), Result(p.head, p.body, version, asked.on, items)) /\ e.tag # "refused"
          \/ /\ p.head \in DOMAIN SimpleErrors \ (Accepted(asked.api) \union {Reply.LISTDONE})
             /\ p.body = << >> /\ e.tag = "refused"
  BY <1>1 DEF FinalOk
<1>3. head \in Accepted(asked.api) => Reads
  BY <1>1 DEF Reads, Taken
<1>4. head = Reply.LISTDONE /\ DOMAIN items = Services => Reads
  <2>1. DOMAIN items = Services => items # NoItems
    BY NoItemsIs, ConstantsTyped
  <2>. QED
    BY <1>1, <2>1 DEF Reads, Taken
<1>5. head \notin Accepted(asked.api) \union {Reply.LISTDONE} => ~Reads
  BY <1>1 DEF Reads, Taken
<1>. QED
  BY <1>2, <1>3, <1>4, <1>5

-----------------------------------------------------------------------------
(* Each step of the client preserves the invariant.                        *)

LEMMA StartsConform == Init => IInv
<1>1. SUFFICES ASSUME Init PROVE IInv
  OBVIOUS
<1>2. << >> \in Seq(Packets) /\ NoItems \in Lists /\ << >> \in Seq(Byte) /\ << >> \in Seq(Given) /\ << >> \in Seq(Entries)
  BY EmptySeq, NoItemsIs
<1>3. Waiting(head, buf, stream, << >>)
  BY <1>1, NothingOnItsWay DEF Init, Waiting
<1>4. Meaning(got, meant, << >>)
  <2>1. << >> = << >> \o Said(<< >>)
    BY <1>2, NothingOnItsWay, ConcatEmptySeq
  <2>. QED
    BY <1>1, <1>2, <2>1, SameNothing DEF Init, Meaning
<1>5. Owed(<< >>, asked, version, daemon, NoItems) /\ ~HasFinal(<< >>)
  BY OwedNothing
<1>6. Collected(NoItems, items, << >>)
  <2>1. \A i \in 1 .. Len(<< >>) : << >>[i].item = NoItems
    BY EmptySeq
  <2>. QED
    BY <1>1, <1>2, <2>1, CollectedNone DEF Init
<1>7. Hello \in Callable /\ Hello # None /\ Hello.api = "version" /\ Hello.on = None /\ DoesFor(Hello) = {}
  <2>1. Hello \in Callable
    BY DEF Callable
  <2>2. Hello.api = "version" /\ Hello.on = None /\ Hello.options = {}
    BY DEF Hello
  <2>. QED
    BY <2>1, <2>2, CallTyped DEF DoesFor
<1>8. Sends(wire, CodeFor("version", version), None, {})
  <2>1. CodeFor("version", version) = Command.QUERYVERSION
    BY DEF CodeFor
  <2>2. Sends(Packet(Command.QUERYVERSION, << >>), Command.QUERYVERSION, None, {})
    BY UnderstandPlain
  <2>. QED
    BY <1>1, <2>1, <2>2 DEF Init
<1>9. wire # << >>
  BY <1>8 DEF Sends
<1>10. Turn(asked, wire, heard, << >>, version, NoItems)
  BY <1>1, <1>5, <1>7, <1>8, <1>9 DEF Init, Turn
<1>11. Typed
  <2>1. AllSound(<< >>, daemon)
    BY EmptySeq DEF AllSound
  <2>2. "version" \notin OnHandle
    BY DEF OnHandle
  <2>3. Len(Calls) \in Nat /\ MaxInfo \in Nat
    BY CodecAssumption, LenProperties
  <2>4. calls \in 0 .. Len(Calls) /\ infos \in 0 .. MaxInfo
    BY <1>1, <2>3 DEF Init
  <2>. QED
    BY <1>1, <1>2, <1>7, <2>1, <2>2, <2>4 DEF Init, Typed
<1>. QED
  BY <1>2, <1>3, <1>4, <1>5, <1>6, <1>10, <1>11 DEF IInv, Conform

(* What the client has been told of the daemon, and the handles that it has, are so. *)
LEMMA KnownSound ==
  ASSUME NEW pk \in Seq(Packets), NEW T, Conform(pk, T), Typed
  PROVE  /\ Agreed \subseteq {daemon}
         /\ \A s : Records(s) # {} => s \in Services /\ HandleOf(s) = Handle[s]
<1>1. Meaning(got, meant, pk) /\ AllSound(meant, daemon)
  BY DEF Conform, Typed
<1>2. /\ got \in Seq(Given)
      /\ \A i \in 1 .. Len(got) : i \in 1 .. Len(meant) /\ Same(got[i], meant[i])
  BY <1>1, MeaningRead
<1>3. DOMAIN got = 1 .. Len(got)
  BY <1>2, LenProperties
<1>4. ASSUME NEW i \in DOMAIN got PROVE Sound(got[i], daemon)
  <2>1. Same(got[i], meant[i]) /\ Sound(meant[i], daemon)
    BY <1>1, <1>2, <1>3 DEF AllSound
  <2>. QED
    BY <2>1 DEF Same, Sound
<1>5. Agreed \subseteq {daemon}
  BY <1>4 DEF Agreed, Sound
<1>6. ASSUME NEW s, Records(s) # {} PROVE s \in Services /\ HandleOf(s) = Handle[s]
  <2>. DEFINE i == CHOOSE j \in Records(s) : TRUE
  <2>1. i \in Records(s)
    BY <1>6
  <2>2. HandleOf(s) = got[i].of.handle
    BY DEF HandleOf
  <2>. HIDE DEF i
  <2>3. i \in DOMAIN got /\ got[i].tag = "record" /\ got[i].of.on = s
    BY <2>1 DEF Records
  <2>. QED
    BY <1>4, <2>2, <2>3 DEF Sound
<1>. QED
  BY <1>5, <1>6

LEMMA NegotiatedConforms ==
  ASSUME IInv, Negotiated PROVE IInv'
<1>1. PICK pk \in Seq(Packets), T \in Lists : Conform(pk, T)
  BY DEF IInv
<1>2. Typed
  BY DEF IInv
<1>3. version' = daemon
  BY <1>1, <1>2, KnownSound DEF Negotiated
<1>4. UNCHANGED <<daemon, opened, asked, wire, heard, stream, socket, meant, calls, infos>> /\ asked = None
  BY DEF Negotiated
<1>5. /\ Waiting(head, buf, stream, pk) /\ Meaning(got, meant, pk) /\ Owed(pk, asked, version, daemon, T)
      /\ Collected(T, items, pk) /\ Turn(asked, wire, heard, pk, version, T)
  BY <1>1 DEF Conform
<1>6. wire = << >> /\ heard = None /\ ~HasFinal(pk) /\ T = NoItems
  BY <1>4, <1>5 DEF Turn
<1>7. Unasked(pk, version, daemon)
  BY <1>4, <1>5, <1>6, OwedEarly
<1>8. Owed(pk, None, daemon, daemon, T)
  BY <1>7, OwedNegotiated, OwedUnasked
<1>9. Turn(None, wire, heard, pk, daemon, T)
  BY <1>6 DEF Turn
<1>10. Conform(pk, T)'
  BY <1>3, <1>4, <1>5, <1>8, <1>9 DEF Conform, socket
<1>11. Typed'
  BY <1>2, <1>3, <1>4 DEF Typed
<1>. QED
  BY <1>10, <1>11 DEF IInv

LEMMA AskConforms ==
  ASSUME IInv, calls < Len(Calls), NEW call \in Calls[calls + 1], Ask(call) PROVE IInv'
<1>1. PICK pk \in Seq(Packets), T \in Lists : Conform(pk, T)
  BY DEF IInv
<1>2. Typed
  BY DEF IInv
<1>3. /\ asked = None /\ version \in Agreed
      /\ call.api \in {"find", "load", "list", "env", "mech", "setenv"} \/ Records(call.on) # {}
      /\ calls' = calls + 1 /\ asked' = call /\ wire' = Request(call)
      /\ UNCHANGED <<daemon, version, opened, heard, stream, socket, meant, infos>>
  BY DEF Ask
<1>4. /\ Waiting(head, buf, stream, pk) /\ Meaning(got, meant, pk) /\ Owed(pk, asked, version, daemon, T)
      /\ Collected(T, items, pk) /\ Turn(asked, wire, heard, pk, version, T)
  BY <1>1 DEF Conform
<1>5. heard = None /\ ~HasFinal(pk) /\ T = NoItems
  BY <1>3, <1>4 DEF Turn
<1>6. version = daemon
  BY <1>1, <1>2, <1>3, KnownSound
<1>7. call \in Possible
  <2>1. Calls \in Seq(SUBSET Possible) /\ calls + 1 \in 1 .. Len(Calls)
    BY <1>2, CodecAssumption, LenProperties DEF Typed
  <2>2. Calls[calls + 1] \in SUBSET Possible
    BY <2>1, LenProperties
  <2>. QED
    BY <2>2
<1>8. call \in Callable /\ call # None
  BY <1>7, CallTyped DEF Callable
<1>9. call.api \in OnHandle => call.on \in Services /\ HandleOf(call.on) = Handle[call.on]
  <2>1. {"find", "load", "list", "env", "mech", "setenv"} \cap OnHandle = {}
    BY DEF OnHandle
  <2>. QED
    BY <1>1, <1>2, <1>3, <2>1, KnownSound
<1>10. Sends(wire', CodeFor(call.api, version), call.on, DoesFor(call))
  BY <1>3, <1>8, <1>9, RequestUnderstood
<1>11. wire' # << >>
  BY <1>10 DEF Sends
<1>12. Turn(call, wire', heard, pk, version, NoItems)
  BY <1>5, <1>8, <1>10, <1>11 DEF Turn
<1>13. Owed(pk, call, version, daemon, NoItems)
  BY <1>3, <1>4, <1>5, OwedEarly, OwedUnasked
<1>14. Conform(pk, T)'
  BY <1>3, <1>4, <1>5, <1>12, <1>13 DEF Conform, socket
<1>15. Typed'
  <2>1. calls' \in 0 .. Len(Calls) /\ calls' > 0
    BY <1>2, <1>3, CodecAssumption, LenProperties DEF Typed
  <2>. QED
    BY <1>2, <1>3, <1>6, <1>8, <1>9, <2>1 DEF Typed
<1>. QED
  BY <1>14, <1>15 DEF IInv

LEMMA HearConforms ==
  ASSUME IInv, Hear PROVE IInv'
<1>1. PICK pk \in Seq(Packets), T \in Lists : Conform(pk, T)
  BY DEF IInv
<1>2. Typed
  BY DEF IInv
<1>3. /\ wire # << >> /\ heard' = Understand(wire) /\ wire' = << >>
      /\ UNCHANGED <<daemon, version, opened, asked, stream, socket, meant, calls, infos>>
  BY DEF Hear
<1>4. /\ Waiting(head, buf, stream, pk) /\ Meaning(got, meant, pk) /\ Owed(pk, asked, version, daemon, T)
      /\ Collected(T, items, pk) /\ Turn(asked, wire, heard, pk, version, T)
  BY <1>1 DEF Conform
<1>5. /\ asked # None /\ ~HasFinal(pk) /\ T = NoItems
      /\ Sends(wire, CodeFor(asked.api, version), asked.on, DoesFor(asked))
  BY <1>3, <1>4 DEF Turn
<1>6. Understand(wire) = Hearing(asked, version, NoItems)
  BY <1>5, HearingMore DEF Sends
<1>7. Turn(asked, wire', heard', pk, version, T)
  BY <1>3, <1>5, <1>6 DEF Turn
<1>8. Conform(pk, T)'
  BY <1>3, <1>4, <1>7 DEF Conform, socket
<1>9. Typed'
  BY <1>2, <1>3 DEF Typed
<1>. QED
  BY <1>8, <1>9 DEF IInv

LEMMA ReadHeadConforms ==
  ASSUME IInv, ReadHead PROVE IInv'
<1>1. PICK pk \in Seq(Packets), T \in Lists : Conform(pk, T)
  BY DEF IInv
<1>2. Typed
  BY DEF IInv
<1>3. /\ head = None /\ stream # << >> /\ head' = Head(stream).of /\ stream' = Tail(stream)
      /\ UNCHANGED <<daemon, opened, client, heard, buf, items, got, meant, infos>>
  BY DEF ReadHead
<1>4. /\ Waiting(head, buf, stream, pk) /\ Meaning(got, meant, pk) /\ Owed(pk, asked, version, daemon, T)
      /\ Collected(T, items, pk) /\ Turn(asked, wire, heard, pk, version, T)
  BY <1>1 DEF Conform
<1>5. Waiting(Head(stream).of, buf, Tail(stream), pk) /\ Tail(stream) \in Seq(Byte)
  <2>1. Waiting(None, buf, stream, pk) /\ stream \in Seq(Byte)
    BY <1>2, <1>3, <1>4 DEF Typed
  <2>. QED
    BY <1>3, <2>1, WaitingHead
<1>6. Conform(pk, T)'
  BY <1>3, <1>4, <1>5 DEF Conform, client
<1>7. Typed'
  BY <1>2, <1>3, <1>5 DEF Typed, client
<1>. QED
  BY <1>6, <1>7 DEF IInv

LEMMA ReceiveConforms ==
  ASSUME IInv, Receive PROVE IInv'
<1>1. PICK pk \in Seq(Packets), T \in Lists : Conform(pk, T)
  BY DEF IInv
<1>2. Typed
  BY DEF IInv
<1>3. /\ head # None /\ UNCHANGED <<daemon, opened, client, heard, head, items, got, meant, infos>>
  BY DEF Receive
<1>4. PICK n \in 1 .. (Needs - Len(buf)) :
        n <= Len(stream) /\ buf' = buf \o SubSeq(stream, 1, n) /\ stream' = Drop(stream, n)
  BY DEF Receive
<1>5. /\ Waiting(head, buf, stream, pk) /\ Meaning(got, meant, pk) /\ Owed(pk, asked, version, daemon, T)
      /\ Collected(T, items, pk) /\ Turn(asked, wire, heard, pk, version, T)
  BY <1>1 DEF Conform
<1>6. Needs \in Nat /\ Len(buf) \in Nat /\ Needs <= Len(pk[1].body) /\ pk[1].body \in Seq(Byte)
  BY <1>1, <1>2, <1>3, Reading
<1>7. n \in Nat /\ Len(buf) + n <= Len(pk[1].body)
  BY <1>6, LenProperties
<1>8. stream' \in Seq(Byte) /\ Waiting(head, buf', stream', pk)
  <2>1. stream \in Seq(Byte)
    BY <1>2 DEF Typed
  <2>. QED
    BY <1>3, <1>4, <1>5, <1>7, <2>1, WaitingBytes
<1>9. Conform(pk, T)'
  BY <1>3, <1>5, <1>8 DEF Conform, client
<1>10. Typed'
  BY <1>2, <1>3, <1>8 DEF Typed, client
<1>. QED
  BY <1>9, <1>10 DEF IInv

\* The packet that the reader is at is read in full.
LEMMA PacketDone ==
  ASSUME NEW pk \in Seq(Packets), NEW T, Conform(pk, T), Typed, head # None, Len(buf) = Needs
  PROVE  /\ pk # << >> /\ buf = pk[1].body /\ Tail(pk) \in Seq(Packets) /\ pk[1] \in Packets /\ pk[1].head = head
         /\ Waiting(None, << >>, stream, Tail(pk)) /\ Owed(Tail(pk), asked, version, daemon, T)
         /\ ~Final(pk[1]) => (HasFinal(Tail(pk)) <=> HasFinal(pk))
<1>1. Waiting(head, buf, stream, pk) /\ stream \in Seq(Byte) /\ Owed(pk, asked, version, daemon, T)
  BY DEF Conform, Typed
<1>2. pk # << >> /\ pk[1] \in Packets /\ pk[1].head = head /\ Len(buf) = Len(pk[1].body)
  BY Reading
<1>3. buf = pk[1].body /\ Tail(pk) \in Seq(Packets) /\ Waiting(None, << >>, stream, Tail(pk))
  BY <1>1, <1>2, WaitingDone
<1>4. /\ Owed(Tail(pk), asked, version, daemon, T)
      /\ ~Final(pk[1]) => (HasFinal(Tail(pk)) <=> HasFinal(pk))
  BY <1>1, <1>2, OwedRest
<1>. QED
  BY <1>2, <1>3, <1>4

LEMMA DispatchInfoConforms ==
  ASSUME IInv, DispatchInfo PROVE IInv'
<1>1. PICK pk \in Seq(Packets), T \in Lists : Conform(pk, T)
  BY DEF IInv
<1>2. Typed
  BY DEF IInv
<1>3. /\ head # None /\ IsInfo(head) /\ Len(buf) = Needs
      /\ got' = got \o Event(head, buf, version) /\ head' = None /\ buf' = << >>
      /\ UNCHANGED <<daemon, opened, client, heard, stream, items, meant, infos>>
  BY DEF DispatchInfo
<1>4. /\ Meaning(got, meant, pk) /\ Collected(T, items, pk) /\ Turn(asked, wire, heard, pk, version, T)
  BY <1>1 DEF Conform
<1>. DEFINE p == pk[1]
<1>5. /\ pk # << >> /\ buf = p.body /\ Tail(pk) \in Seq(Packets) /\ p \in Packets /\ p.head = head
      /\ Waiting(None, << >>, stream, Tail(pk)) /\ Owed(Tail(pk), asked, version, daemon, T)
      /\ ~Final(p) => (HasFinal(Tail(pk)) <=> HasFinal(pk))
  BY <1>1, <1>2, <1>3, PacketDone
<1>6. InfoOk(p, version, daemon)
  BY <1>1, <1>2, <1>3, AtHead
<1>7. p.item = NoItems /\ Event(p.head, p.body, version) = p.says /\ \A i \in 1 .. Len(p.says) : p.says[i].tag # "refused"
  BY <1>6 DEF InfoOk
<1>8. p.says \in Seq(Given) /\ SameAll(p.says, p.says)
  BY <1>5, <1>7, PacketFunctions, SameAsMeant
<1>9. Meaning(got \o p.says, meant, Tail(pk))
  BY <1>4, <1>5, <1>8, MeaningDone
<1>10. Collected(T, items, Tail(pk))
  BY <1>4, <1>5, <1>7, CollectedRest
<1>11. HasFinal(Tail(pk)) <=> HasFinal(pk)
  BY <1>5, <1>6, KindsApart
<1>12. Turn(asked, wire, heard, Tail(pk), version, T)
  BY <1>4, <1>11 DEF Turn
<1>13. got' = got \o p.says
  BY <1>3, <1>5, <1>7
<1>14. Conform(Tail(pk), T)'
  BY <1>3, <1>5, <1>9, <1>10, <1>12, <1>13 DEF Conform, client
<1>15. Typed'
  BY <1>2, <1>3 DEF Typed, client
<1>. QED
  BY <1>5, <1>14, <1>15 DEF IInv

LEMMA ListItemConforms ==
  ASSUME IInv, ListItem PROVE IInv'
<1>1. PICK pk \in Seq(Packets), T \in Lists : Conform(pk, T)
  BY DEF IInv
<1>2. Typed
  BY DEF IInv
<1>3. /\ head = Reply.SVCINFO /\ Len(buf) = Needs
      /\ items' = With(items, Listed(buf, version).on, Listed(buf, version).told)
      /\ head' = None /\ buf' = << >>
      /\ UNCHANGED <<daemon, opened, client, heard, stream, got, meant, infos>>
  BY DEF ListItem
<1>4. head # None
  BY <1>3, ReplyCodes, ConstantsTyped
<1>5. /\ Meaning(got, meant, pk) /\ Collected(T, items, pk) /\ Turn(asked, wire, heard, pk, version, T)
  BY <1>1 DEF Conform
<1>. DEFINE p == pk[1]
<1>6. /\ pk # << >> /\ buf = p.body /\ Tail(pk) \in Seq(Packets) /\ p \in Packets /\ p.head = head
      /\ Waiting(None, << >>, stream, Tail(pk)) /\ Owed(Tail(pk), asked, version, daemon, T)
      /\ ~Final(p) => (HasFinal(Tail(pk)) <=> HasFinal(pk))
  BY <1>1, <1>2, <1>3, <1>4, PacketDone
<1>7. ItemOk(p, version)
  BY <1>1, <1>2, <1>3, <1>4, AtHead
<1>8. p.says = << >>
  BY <1>7 DEF ItemOk
<1>9. PICK s \in Services, c \in Conditions : Listed(p.body, version) = [on |-> s, told |-> c] /\ p.item = One(s, c)
  BY <1>7 DEF ItemOk
<1>10. items' = With(items, s, c)
  BY <1>3, <1>6, <1>9
<1>11. Collected(T, With(items, s, c), Tail(pk))
  BY <1>5, <1>6, <1>9, CollectedTaken
<1>12. Meaning(got, meant, Tail(pk))
  <2>1. << >> \in Seq(Given) /\ SameAll(<< >>, p.says)
    BY <1>8, EmptySeq, SameNothing
  <2>2. Meaning(got \o << >>, meant, Tail(pk))
    BY <1>5, <1>6, <2>1, MeaningDone
  <2>3. got \in Seq(Given)
    BY <1>5 DEF Meaning
  <2>. QED
    BY <2>2, <2>3, ConcatEmptySeq
<1>13. HasFinal(Tail(pk)) <=> HasFinal(pk)
  BY <1>6, <1>7, KindsApart
<1>14. Turn(asked, wire, heard, Tail(pk), version, T)
  BY <1>5, <1>13 DEF Turn
<1>15. Conform(Tail(pk), T)'
  BY <1>3, <1>6, <1>10, <1>11, <1>12, <1>14 DEF Conform, client
<1>16. Typed'
  BY <1>2, <1>3 DEF Typed, client
<1>. QED
  BY <1>6, <1>15, <1>16 DEF IInv

(* An answer is given out, of which e was meant. *)
LEMMA AnsweredConforms ==
  ASSUME NEW pk \in Seq(Packets), NEW T \in Lists, Conform(pk, T), Typed, head # None, Len(buf) = Needs,
         ~IsInfo(head), head # Reply.SVCINFO,
         NEW e \in Entries, pk[1].says = <<e>>, NEW g \in Given, Same(g, e), Answered(g)
  PROVE  IInv'
<1>1. /\ got' = Append(got, g) /\ asked' = None /\ head' = None /\ buf' = << >> /\ items' = NoItems
      /\ UNCHANGED <<daemon, version, opened, wire, heard, stream, meant, calls, infos>>
  BY DEF Answered
<1>2. Meaning(got, meant, pk)
  BY DEF Conform
<1>3. /\ pk # << >> /\ Tail(pk) \in Seq(Packets) /\ Waiting(None, << >>, stream, Tail(pk))
  BY PacketDone
<1>4. wire = << >> /\ heard = None /\ Unasked(Tail(pk), version, daemon)
  BY AtHead
<1>5. /\ Owed(Tail(pk), None, version, daemon, NoItems) /\ ~HasFinal(Tail(pk))
      /\ \A i \in 1 .. Len(Tail(pk)) : Tail(pk)[i].item = NoItems
  BY <1>3, <1>4, OwedUnasked
<1>6. Collected(NoItems, NoItems, Tail(pk))
  BY <1>3, <1>5, CollectedNone
<1>7. Turn(None, wire, heard, Tail(pk), version, NoItems)
  BY <1>4, <1>5 DEF Turn
<1>8. <<g>> \in Seq(Given) /\ SameAll(<<g>>, pk[1].says)
  BY SameOne
<1>9. Meaning(got \o <<g>>, meant, Tail(pk))
  BY <1>2, <1>3, <1>8, MeaningDone
<1>10. Append(got, g) = got \o <<g>>
  BY <1>2, AppendIsConcat DEF Meaning
<1>11. Conform(Tail(pk), NoItems)'
  BY <1>1, <1>3, <1>5, <1>6, <1>7, <1>9, <1>10 DEF Conform
<1>12. Typed'
  BY <1>1 DEF Typed
<1>. QED
  BY <1>3, <1>11, <1>12, NoItemsIs DEF IInv

LEMMA FinishConforms ==
  ASSUME IInv, Finish PROVE IInv'
<1>1. PICK pk \in Seq(Packets), T \in Lists : Conform(pk, T)
  BY DEF IInv
<1>2. Typed
  BY DEF IInv
<1>. DEFINE g == Entry(Kind(head), Result(head, buf, version, asked.on, items))
<1>3. head # None /\ ~IsInfo(head) /\ Reads /\ head # Reply.SVCINFO /\ Len(buf) = Needs /\ Answered(g)
  BY DEF Finish
<1>4. pk[1] \in Packets /\ pk[1].head = head /\ pk[1].body = buf
  BY <1>1, <1>2, <1>3, PacketDone
<1>5. IsFinal(pk[1], asked, version, T) /\ items = T
  BY <1>1, <1>2, <1>3, AtHead
<1>6. PICK e \in Entries :
        /\ pk[1].says = <<e>>
        /\ e = Entry(Kind(head), Result(head, pk[1].body, version, asked.on, items)) /\ e.tag # "refused"
  BY <1>3, <1>4, <1>5, TakenOrNot
<1>. HIDE DEF g
<1>7. g = e
  BY <1>4, <1>6 DEF g
<1>8. g \in Given /\ Same(g, e)
  BY <1>6, <1>7 DEF Same, Entries, Given
<1>. QED
  BY <1>1, <1>2, <1>3, <1>6, <1>8, AnsweredConforms

LEMMA ErrorsTyped ==
  /\ \A code \in DOMAIN SimpleErrors : SimpleErrors[code] \in Errors
  /\ "ProtocolError" \notin Errors
BY DEF SimpleErrors, Errors

LEMMA RejectConforms ==
  ASSUME IInv, Reject PROVE IInv'
<1>1. PICK pk \in Seq(Packets), T \in Lists : Conform(pk, T)
  BY DEF IInv
<1>2. Typed
  BY DEF IInv
<1>. DEFINE g == Entry("refused", IF head \in DOMAIN SimpleErrors THEN SimpleErrors[head] ELSE "ProtocolError")
<1>3. head # None /\ ~Reads /\ Answered(g)
  BY DEF Reject
<1>4. ~IsInfo(head) /\ head # Reply.SVCINFO /\ IsFinal(pk[1], asked, version, T) /\ items = T
  BY <1>1, <1>2, <1>3, AtHead
<1>5. pk[1] \in Packets /\ pk[1].head = head
  BY <1>1, <1>2, <1>3, Reading
<1>6. PICK e \in Entries :
        pk[1].says = <<e>> /\ head \in DOMAIN SimpleErrors /\ pk[1].body = << >> /\ e.tag = "refused"
  BY <1>3, <1>4, <1>5, TakenOrNot
<1>7. Len(buf) = Needs
  <2>1. /\ Needs \in Nat /\ Len(buf) \in Nat /\ Len(buf) <= Needs /\ Needs <= Len(pk[1].body)
    BY <1>1, <1>2, <1>3, Reading
  <2>2. Len(pk[1].body) = 0
    BY <1>6
  <2>. QED
    BY <2>1, <2>2
<1>8. g = Entry("refused", SimpleErrors[head]) /\ SimpleErrors[head] \in Errors /\ SimpleErrors[head] # "ProtocolError"
  BY <1>6, ErrorsTyped
<1>. HIDE DEF g
<1>9. g.tag = "refused" /\ g.of # "ProtocolError" /\ g \in Given
  BY <1>8 DEF Entry, Given, Tags
<1>10. Same(g, e)
  BY <1>6, <1>9 DEF Same
<1>. QED
  BY <1>1, <1>2, <1>3, <1>4, <1>6, <1>7, <1>9, <1>10, AnsweredConforms

-----------------------------------------------------------------------------
(* What dinit writes.                                                      *)

LEMMA AcceptedCodes ==
  ASSUME NEW api
  PROVE  Accepted(api) \subseteq {50, 58, 59, 61, 62, 64, 65, 70, 73, 78}
BY ReplyCodes DEF Accepted

LEMMA RefusedCodes ==
  /\ DOMAIN SimpleErrors = {51, 52, 53, 54, 55, 60, 67, 68, 69, 71, 72, 74, 75, 76}
  /\ DOMAIN SimpleErrors \subseteq Bare
  /\ \A api : DOMAIN SimpleErrors \cap (Accepted(api) \union {Reply.LISTDONE}) = {}
<1>1. DOMAIN SimpleErrors = {51, 52, 53, 54, 55, 60, 67, 68, 69, 71, 72, 74, 75, 76}
  BY ReplyCodes DEF SimpleErrors
<1>2. DOMAIN SimpleErrors \subseteq Bare
  BY ReplyCodes DEF SimpleErrors, Bare
<1>3. ASSUME NEW api PROVE DOMAIN SimpleErrors \cap (Accepted(api) \union {Reply.LISTDONE}) = {}
  <2>1. Accepted(api) \union {Reply.LISTDONE} \subseteq {50, 58, 59, 61, 62, 63, 64, 65, 70, 73, 78}
    BY AcceptedCodes, ReplyCodes
  <2>2. {51, 52, 53, 54, 55, 60, 67, 68, 69, 71, 72, 74, 75, 76} \cap {50, 58, 59, 61, 62, 63, 64, 65, 70, 73, 78} = {}
    OBVIOUS
  <2>. QED
    BY <1>1, <2>1, <2>2
<1>. QED
  BY <1>1, <1>2, <1>3

(* A command's code tells the call that sent it. *)
LEMMA CodesApart ==
  ASSUME NEW api \in Apis, NEW v, NEW code, code = CodeFor(api, v)
  PROVE  /\ code = Command.QUERYVERSION => api = "version"
         /\ code \in {Command.FINDSERVICE, Command.LOADSERVICE} => api \in {"find", "load"}
         /\ code \in {Command.SERVICESTATUS, Command.SERVICESTATUS5, Command.SERVICESTATUS6} =>
              api = "status" /\ code = StatusCommand(v)
         /\ code \in {Command.LISTSERVICES, Command.LISTSERVICES5} => api = "list" /\ code = ListCommand(v)
         /\ code = Command.CATLOG => api = "catlog"
         /\ code = Command.GETALLENV => api = "env"
         /\ code = Command.QUERY_LOAD_MECH => api = "mech"
         /\ code \in Commands => api \in {"start", "stop", "restart", "wake", "release", "unpin", "unload", "reload", "setenv", "signal"}
         /\ code = Command.STOPSERVICE => api \in {"stop", "restart"}
<1>1. /\ ListCommand(v) \in {8, 25} /\ StatusCommand(v) \in {18, 26, 28}
  BY CommandCodes DEF ListCommand, StatusCommand
<1>2. Commands = {3, 4, 5, 6, 7, 9, 16, 17, 21}
  BY CommandCodes DEF Commands
<1>3. CASE api = "version"
  <2>1. code = 0
    BY <1>3, CommandCodes DEF CodeFor
  <2>. QED
    BY <1>2, <1>3, <2>1, CommandCodes
<1>4. CASE api = "list"
  <2>1. code = ListCommand(v)
    BY <1>4, CommandCodes DEF CodeFor
  <2>. QED
    BY <1>1, <1>2, <1>4, <2>1, CommandCodes
<1>5. CASE api = "status"
  <2>1. code = StatusCommand(v)
    BY <1>5, CommandCodes DEF CodeFor
  <2>. QED
    BY <1>1, <1>2, <1>5, <2>1, CommandCodes
<1>6. CASE api \in {"mech", "env", "catlog"}
  <2>1. code = IF api = "mech" THEN 13 ELSE IF api = "env" THEN 24 ELSE 20
    BY <1>6, CommandCodes DEF CodeFor
  <2>. QED
    BY <1>2, <1>6, <2>1, CommandCodes
<1>7. CASE api \in {"find", "load"}
  <2>1. code \in {1, 2}
    BY <1>7, CommandCodes DEF CodeFor
  <2>. QED
    BY <1>2, <1>7, <2>1, CommandCodes
<1>8. CASE api \in {"stop", "restart"}
  <2>1. code = 4
    BY <1>8, CommandCodes DEF CodeFor
  <2>. QED
    BY <1>2, <1>8, <2>1, CommandCodes
<1>9. CASE api \in {"setenv", "start", "wake", "release", "unpin", "reload", "unload", "signal"}
  <2>1. code \in {3, 5, 6, 7, 9, 16, 17, 21}
    BY <1>9, CommandCodes DEF CodeFor
  <2>. QED
    BY <1>2, <1>9, <2>1, CommandCodes
<1>. QED
  BY <1>3, <1>4, <1>5, <1>6, <1>7, <1>8, <1>9 DEF Apis, OnHandle

(* dinit has a command that the call under way has sent, and of a version that it speaks. *)
LEMMA HeardIs ==
  ASSUME NEW pk \in Seq(Packets), NEW T \in Lists, Conform(pk, T), Typed, heard # None
  PROVE  /\ asked \in Callable /\ asked # None /\ heard = Hearing(asked, version, T) /\ heard.told = T
         /\ heard.code = CodeFor(asked.api, version) /\ heard.on = asked.on /\ heard.does = DoesFor(asked) /\ heard.whole
         /\ wire = << >> /\ ~HasFinal(pk) /\ asked.api \in Apis /\ version \in Nat /\ daemon \in Nat
         /\ Since(heard.code) <= daemon /\ (asked.api # "version" => version = daemon)
<1>1. Turn(asked, wire, heard, pk, version, T)
  BY DEF Conform
<1>2. asked # None /\ wire = << >> /\ heard = Hearing(asked, version, T) /\ ~HasFinal(pk)
  BY <1>1 DEF Turn
<1>3. asked \in Callable /\ asked.api \in Apis
  BY <1>2, CallTyped DEF Typed
<1>4. /\ heard.code = CodeFor(asked.api, version) /\ heard.on = asked.on
      /\ heard.does = DoesFor(asked) /\ heard.whole /\ heard.told = T
  <2>. DEFINE h == Hearing(asked, version, T)
  <2>1. /\ h.code = CodeFor(asked.api, version) /\ h.on = asked.on
        /\ h.does = DoesFor(asked) /\ h.whole /\ h.told = T
    BY <1>3, HearingIs
  <2>2. heard = h
    BY <1>2
  <2>. HIDE DEF h
  <2>. QED
    BY <2>1, <2>2
<1>5. daemon \in Nat /\ daemon >= 1 /\ version \in Nat
  BY ConstantsTyped DEF Typed
<1>6. asked.api # "version" => version = daemon
  BY <1>2, <1>3, CallTyped DEF Typed, Hello
<1>7. Since(heard.code) <= daemon
  <2>. DEFINE code == heard.code
              v == version
  <2>1. code = 28 => v >= 6
    <3>1. code \in {18, 26, 28} => code = StatusCommand(v)
      BY <1>3, <1>4, CodesApart, CommandCodes, SMTT(40)
    <3>. QED
      BY <1>5, <3>1, CommandCodes DEF StatusCommand
  <2>2. code = 26 => v >= 5
    <3>1. code \in {18, 26, 28} => code = StatusCommand(v)
      BY <1>3, <1>4, CodesApart, CommandCodes, SMTT(40)
    <3>. QED
      BY <1>5, <3>1, CommandCodes DEF StatusCommand
  <2>3. code = 25 => v >= 5
    <3>1. code \in {8, 25} => code = ListCommand(v)
      BY <1>3, <1>4, CodesApart, CommandCodes, SMTT(40)
    <3>. QED
      BY <1>5, <3>1, CommandCodes DEF ListCommand
  <2>4. asked.api = "version" => code = 0
    BY <1>4, CommandCodes DEF CodeFor
  <2>5. Since(code) = IF code = 28 THEN 6 ELSE IF code \in {26, 25} THEN 5 ELSE 1
    BY CommandCodes DEF Since
  <2>. HIDE DEF code, v
  <2>6. code = 28 => Since(code) = 6
    BY <2>5
  <2>7. code \in {26, 25} => Since(code) = 5
    BY <2>5
  <2>8. code \notin {28, 26, 25} => Since(code) = 1
    BY <2>5
  <2>9. v = version
    BY DEF v
  <2>10. Since(code) <= daemon
    <3>1. CASE asked.api = "version"
      BY <1>5, <2>4, <2>8, <3>1
    <3>2. CASE asked.api # "version"
      <4>1. v = daemon
        BY <1>6, <2>9, <3>2
      <4>2. CASE code = 28
        BY <1>5, <2>1, <2>6, <4>1, <4>2
      <4>3. CASE code \in {26, 25}
        BY <1>5, <2>2, <2>3, <2>7, <4>1, <4>3
      <4>4. CASE code \notin {28, 26, 25}
        BY <1>5, <2>8, <4>4
      <4>. QED
        BY <4>2, <4>3, <4>4
    <3>. QED
      BY <3>1, <3>2
  <2>. QED
    BY <2>10 DEF code
<1>. QED
  BY <1>2, <1>3, <1>4, <1>5, <1>6, <1>7

(* A packet is written. *)
LEMMA WrittenConforms ==
  ASSUME NEW pk \in Seq(Packets), NEW T, Conform(pk, T), Typed,
         NEW p \in Packets, NEW bytes, bytes = <<HeadByte(p.head)>> \o p.body, Writes(bytes, p.says), AllSound(p.says, daemon)
  PROVE  /\ Append(pk, p) \in Seq(Packets)
         /\ Waiting(head', buf', stream', Append(pk, p)) /\ Meaning(got', meant', Append(pk, p))
         /\ stream' \in Seq(Byte) /\ AllSound(meant', daemon')
         /\ asked' = asked /\ wire' = wire /\ version' = version /\ daemon' = daemon /\ items' = items /\ calls' = calls
<1>1. /\ stream' = stream \o bytes /\ meant' = meant \o p.says /\ UNCHANGED <<daemon, client, socket>>
  BY DEF Writes
<1>2. /\ Waiting(head, buf, stream, pk) /\ Meaning(got, meant, pk) /\ stream \in Seq(Byte) /\ AllSound(meant, daemon)
  BY DEF Conform, Typed
<1>3. Append(pk, p) \in Seq(Packets)
  BY AppendProperties
<1>4. HeadByte(p.head) \in Byte /\ p.body \in Seq(Byte) /\ p.says \in Seq(Entries)
  BY PacketFunctions
<1>5. bytes \in Seq(Byte)
  BY <1>4, ConsRead
<1>6. stream \o bytes \in Seq(Byte)
  BY <1>2, <1>5, ConcatProperties
<1>7. Waiting(head, buf, stream \o bytes, Append(pk, p))
  BY <1>2, WaitingMore
<1>8. Meaning(got, meant \o p.says, Append(pk, p))
  BY <1>2, MeaningMore
<1>9. meant \in Seq(Entries)
  BY <1>2, MeaningRead
<1>10. AllSound(meant \o p.says, daemon)
  BY <1>2, <1>4, <1>9, SoundMore
<1>. QED
  BY <1>1, <1>3, <1>6, <1>7, <1>8, <1>10 DEF client, socket

\* The answer e to a call.
Pkt(code, body, e) == [head |-> code, body |-> body, says |-> <<e>>, item |-> NoItems]

LEMMA PktIs ==
  ASSUME NEW code \in Nat, NEW body \in Seq(Byte), NEW e \in Entries
  PROVE  /\ Pkt(code, body, e) \in Packets
         /\ Pkt(code, body, e).head = code /\ Pkt(code, body, e).body = body /\ Pkt(code, body, e).says = <<e>>
         /\ Pkt(code, body, e).item = NoItems
<1>1. <<e>> \in Seq(Entries) /\ NoItems \in Lists
  BY NoItemsIs
<1>. QED
  BY <1>1 DEF Pkt, Packets

LEMMA ResultOk ==
  ASSUME NEW code \in Nat, code < 100, code # Reply.SVCINFO, NEW body \in Seq(Byte), NEW call, NEW v, NEW T,
         Readable(code, body, v),
         code \in Accepted(call.api) \/ (call.api = "list" /\ code = Reply.LISTDONE /\ DOMAIN T = Services),
         NEW e \in Entries, e.tag = Kind(code), e.of = Result(code, body, v, call.on, T), e.tag # "refused"
  PROVE  FinalOk(Pkt(code, body, e), call, v, T)
<1>1. e = Entry(Kind(code), Result(code, body, v, call.on, T))
  BY DEF Entry, Entries
<1>. DEFINE p == Pkt(code, body, e)
<1>2. p.head = code /\ p.body = body /\ p.says = <<e>> /\ p.item = NoItems
  BY PktIs
<1>. HIDE DEF p
<1>3. p.head \in Accepted(call.api) \/ (call.api = "list" /\ p.head = Reply.LISTDONE /\ DOMAIN T = Services)
  BY <1>2
<1>4. e = Entry(Kind(p.head), Result(p.head, p.body, v, call.on, T))
  BY <1>1, <1>2
<1>5. p.head < 100 /\ p.head # Reply.SVCINFO /\ p.item = NoItems /\ Readable(p.head, p.body, v)
  BY <1>2
<1>6. FinalOk(p, call, v, T)
  BY <1>2, <1>3, <1>4, <1>5 DEF FinalOk
<1>. QED
  BY <1>6 DEF p

LEMMA RefusalOk ==
  ASSUME NEW code \in DOMAIN SimpleErrors, NEW call, NEW v, NEW T, NEW e \in Entries, e.tag = "refused"
  PROVE  code \in Nat /\ FinalOk(Pkt(code, << >>, e), call, v, T)
<1>1. code \in Nat /\ code < 100 /\ code # Reply.SVCINFO /\ Readable(code, << >>, v)
  <2>1. code \in {51, 52, 53, 54, 55, 60, 67, 68, 69, 71, 72, 74, 75, 76} /\ code \in Bare
    BY RefusedCodes
  <2>2. Readable(code, << >>, v)
    BY <2>1, BareReadable
  <2>3. Reply.SVCINFO = 62
    BY ReplyCodes
  <2>. QED
    BY <2>1, <2>2, <2>3
<1>2. code \notin Accepted(call.api) \union {Reply.LISTDONE}
  BY RefusedCodes
<1>. DEFINE p == Pkt(code, << >>, e)
<1>3. p.head = code /\ p.body = << >> /\ p.says = <<e>> /\ p.item = NoItems
  BY DEF Pkt
<1>. HIDE DEF p
<1>4. FinalOk(p, call, v, T)
  BY <1>1, <1>2, <1>3 DEF FinalOk
<1>. QED
  BY <1>1, <1>4 DEF p

(* dinit answers a call. *)
LEMMA AnswersConform ==
  ASSUME IInv, heard # None, NEW code \in Nat, NEW body \in Seq(Byte), NEW e \in Entries, Sound(e, daemon),
         FinalOk(Pkt(code, body, e), asked, version, heard.told),
         NEW bytes, bytes = <<HeadByte(code)>> \o body, Answers(bytes, e),
         opened' \subseteq Services, opened' # {} => version = daemon
  PROVE  IInv'
<1>1. PICK pk \in Seq(Packets), T \in Lists : Conform(pk, T)
  BY DEF IInv
<1>2. Typed
  BY DEF IInv
<1>. DEFINE p == Pkt(code, body, e)
            q == Append(pk, p)
<1>3. p \in Packets /\ p.head = code /\ p.body = body /\ p.says = <<e>> /\ p.item = NoItems
  BY PktIs
<1>4. heard' = None /\ Writes(bytes, <<e>>) /\ infos' = infos
  BY DEF Answers
<1>5. /\ asked \in Callable /\ asked # None /\ heard.told = T /\ wire = << >> /\ ~HasFinal(pk)
  BY <1>1, <1>2, HeardIs
<1>6. AllSound(<<e>>, daemon)
  BY DEF AllSound
<1>7. IsFinal(p, asked, version, T)
  BY <1>5 DEF IsFinal
<1>. HIDE DEF p
<1>8. bytes = <<HeadByte(p.head)>> \o p.body /\ Writes(bytes, p.says) /\ AllSound(p.says, daemon)
  BY <1>3, <1>4, <1>6
<1>9. /\ q \in Seq(Packets) /\ Waiting(head', buf', stream', q) /\ Meaning(got', meant', q)
      /\ stream' \in Seq(Byte) /\ AllSound(meant', daemon')
      /\ asked' = asked /\ wire' = wire /\ version' = version /\ daemon' = daemon /\ items' = items /\ calls' = calls
  BY <1>1, <1>2, <1>3, <1>8, WrittenConforms
<1>10. /\ Owed(pk, asked, version, daemon, T) /\ Collected(T, items, pk) /\ Turn(asked, wire, heard, pk, version, T)
  BY <1>1 DEF Conform
<1>11. Owed(q, asked, version, daemon, T) /\ HasFinal(q)
  BY <1>3, <1>5, <1>7, <1>10, OwedFinal
<1>12. Collected(T, items, q)
  BY <1>3, <1>10, CollectedMore
<1>13. Turn(asked, wire, None, q, version, T)
  BY <1>5, <1>10, <1>11 DEF Turn
<1>. HIDE DEF q
<1>14. Conform(q, T)'
  BY <1>4, <1>9, <1>11, <1>12, <1>13 DEF Conform
<1>15. Typed'
  BY <1>2, <1>4, <1>9 DEF Typed
<1>. QED
  BY <1>9, <1>14, <1>15 DEF IInv

-----------------------------------------------------------------------------
(* Each answer of dinit preserves the invariant.                           *)

\* dinit has the command of the call under way, with the entries T answered.
Asked(T) ==
  /\ asked \in Callable /\ asked # None /\ heard = Hearing(asked, version, T) /\ heard.told = T
  /\ heard.code = CodeFor(asked.api, version) /\ heard.on = asked.on /\ heard.does = DoesFor(asked) /\ heard.whole
  /\ asked.api \in Apis /\ version \in Nat /\ daemon \in Nat
  /\ Since(heard.code) <= daemon /\ (asked.api # "version" => version = daemon)

LEMMA AskedIs ==
  ASSUME IInv, heard # None
  PROVE  Asked(heard.told) /\ heard.told \in Lists
<1>1. PICK pk \in Seq(Packets), T \in Lists : Conform(pk, T)
  BY DEF IInv
<1>2. Typed
  BY DEF IInv
<1>3. heard.told = T
  BY <1>1, <1>2, HeardIs
<1>4. Asked(T)
  BY <1>1, <1>2, HeardIs DEF Asked
<1>. QED
  BY <1>3, <1>4

LEMMA EntryTyped ==
  ASSUME NEW tag \in Tags, NEW of \in Meanings
  PROVE  /\ Entry(tag, of) \in Entries /\ Entry(tag, of).tag = tag /\ Entry(tag, of).of = of
         /\ tag # "version" /\ tag # "record" => \A d : Sound(Entry(tag, of), d)
<1>1. Entry(tag, of) \in Entries /\ Entry(tag, of).tag = tag /\ Entry(tag, of).of = of
  BY DEF Entry, Entries
<1>. QED
  BY <1>1 DEF Sound

LEMMA KindsAre ==
  /\ Kind(Reply.CPVERSION) = "version" /\ Kind(Reply.SERVICERECORD) = "record" /\ Kind(Reply.SERVICESTATUS) = "status"
  /\ Kind(Reply.LISTDONE) = "list" /\ Kind(Reply.SERVICE_LOG) = "log" /\ Kind(Reply.ALLENV) = "env"
  /\ Kind(Reply.LOADER_MECH) = "mech" /\ Kind(Reply.DEPENDENTS) = "dependents"
  /\ Kind(Reply.ACK) = "done" /\ Kind(Reply.ALREADYSS) = "done"
BY ReplyCodes DEF Kind

LEMMA AcceptedAre ==
  /\ Reply.CPVERSION \in Accepted("version") /\ Reply.SERVICESTATUS \in Accepted("status")
  /\ \A api \in {"find", "load"} : Reply.SERVICERECORD \in Accepted(api)
  /\ Reply.SERVICE_LOG \in Accepted("catlog") /\ Reply.ALLENV \in Accepted("env") /\ Reply.LOADER_MECH \in Accepted("mech")
  /\ Reply.DEPENDENTS \in Accepted("stop")
  /\ \A api \in {"start", "stop", "restart", "wake", "release", "unpin", "unload", "reload", "setenv", "signal"} :
       Reply.ACK \in Accepted(api) /\ Reply.ALREADYSS \in Accepted(api)
BY DEF Accepted

(* The result that a packet of fields f, with more after them, gives is what was meant. *)
LEMMA ResultsConform ==
  ASSUME IInv, heard # None, NEW code \in Nat, code < 100, code # Reply.SVCINFO, NEW body \in Seq(Byte),
         Readable(code, body, version),
         code \in Accepted(asked.api) \/ (asked.api = "list" /\ code = Reply.LISTDONE /\ DOMAIN heard.told = Services),
         NEW tag \in Tags, tag = Kind(code), tag # "refused",
         NEW of \in Meanings, Result(code, body, version, asked.on, heard.told) = of, Sound(Entry(tag, of), daemon),
         NEW bytes, bytes = <<HeadByte(code)>> \o body, Answers(bytes, Entry(tag, of)),
         opened' \subseteq Services, opened' # {} => version = daemon
  PROVE  IInv'
<1>. DEFINE e == Entry(tag, of)
<1>1. e \in Entries /\ e.tag = tag /\ e.of = of
  BY EntryTyped
<1>2. Sound(e, daemon) /\ Answers(bytes, e)
  OBVIOUS
<1>. HIDE DEF e
<1>3. FinalOk(Pkt(code, body, e), asked, version, heard.told)
  BY <1>1, ResultOk
<1>. QED
  BY <1>1, <1>2, <1>3, AnswersConform

LEMMA OpenedKept ==
  ASSUME IInv, UNCHANGED opened
  PROVE  opened' \subseteq Services /\ (opened' # {} => version = daemon)
BY DEF IInv, Typed

LEMMA AnswerVersionConforms ==
  ASSUME IInv, heard # None, AnswerVersion PROVE IInv'
<1>. DEFINE f == <<<<1, 2>>, <<daemon, 2>>>>
            body == Pack(f)
<1>1. /\ heard.code = Command.QUERYVERSION /\ UNCHANGED opened
      /\ Answers(Packet(Reply.CPVERSION, f), Entry("version", daemon))
  BY DEF AnswerVersion
<1>2. asked.api = "version" /\ daemon \in Nat
  BY <1>1, AskedIs, CodesApart DEF Asked
<1>3. /\ f \in Seq(Field) /\ Readable(Reply.CPVERSION, body, version)
      /\ Result(Reply.CPVERSION, body, version, asked.on, heard.told) = daemon
  BY <1>2, VersionRead
<1>4. Reply.CPVERSION = 58 /\ Reply.SVCINFO = 62
  BY ReplyCodes
<1>. HIDE DEF f
<1>5. Packet(Reply.CPVERSION, f) = <<HeadByte(Reply.CPVERSION)>> \o body
  BY <1>3, <1>4, PacketRead
<1>6. body \in Seq(Byte)
  BY <1>3, PackType
<1>7. "version" \in Tags /\ daemon \in Meanings
  BY <1>2 DEF Tags, Meanings
<1>8. Sound(Entry("version", daemon), daemon)
  BY DEF Sound, Entry
<1>9. Reply.CPVERSION \in Accepted(asked.api) /\ Kind(Reply.CPVERSION) = "version"
  BY <1>2, AcceptedAre, KindsAre
<1>10. Reply.CPVERSION \in Nat /\ Reply.CPVERSION < 100 /\ Reply.CPVERSION # Reply.SVCINFO
  BY <1>4
<1>11. opened' \subseteq Services /\ (opened' # {} => version = daemon)
  BY <1>1, OpenedKept
<1>. HIDE DEF body
<1>. QED
  BY <1>1, <1>3, <1>5, <1>6, <1>7, <1>8, <1>9, <1>10, <1>11, ResultsConform

LEMMA AnswerRecordConforms ==
  ASSUME IInv, heard # None, AnswerRecord PROVE IInv'
<1>1. heard.code \in {Command.FINDSERVICE, Command.LOADSERVICE} /\ heard.on \in Services /\ opened' = opened \union {heard.on}
  BY DEF AnswerRecord
<1>. DEFINE s == heard.on
            code == Reply.SERVICERECORD
<1>2. PICK c \in Found :
        Answers(Packet(code, <<<<Code(ServiceState, c.state), 1>>, <<Handle[s], 4>>, <<Code(ServiceState, c.target), 1>>>>),
                Entry("record", [on |-> s, state |-> c.state, handle |-> Handle[s], target |-> c.target]))
  BY DEF AnswerRecord
<1>. DEFINE f == <<<<Code(ServiceState, c.state), 1>>, <<Handle[s], 4>>, <<Code(ServiceState, c.target), 1>>>>
            of == [on |-> s, state |-> c.state, handle |-> Handle[s], target |-> c.target]
            body == Pack(f)
<1>3. c \in Statuses /\ s \in Services
  BY <1>1, ConstantsTyped
<1>4. asked.api \in {"find", "load"} /\ asked.on = s /\ version = daemon
  BY <1>1, AskedIs, CodesApart DEF Asked
<1>5. /\ f \in Seq(Field) /\ Readable(code, body, version)
      /\ Result(code, body, version, asked.on, heard.told) = of
  <2>. HIDE DEF s
  <2>1. /\ f \in Seq(Field) /\ Readable(code, body, version)
        /\ Result(code, body, version, asked.on, heard.told)
             = [on |-> asked.on, state |-> c.state, handle |-> Handle[s], target |-> c.target]
    BY <1>3, RecordRead
  <2>. QED
    BY <2>1, <1>4
<1>6. Reply.SERVICERECORD = 59 /\ Reply.SVCINFO = 62
  BY ReplyCodes
<1>7. "record" \in Tags /\ of \in Meanings
  <2>1. of \in [on : Texts, state : Range(ServiceState), handle : Nat, target : Range(ServiceState)]
    BY <1>3, StatusTyped, ConstantsTyped
  <2>. QED
    BY <2>1 DEF Tags, Meanings
<1>8. Sound(Entry("record", of), daemon)
  BY <1>3 DEF Sound, Entry
<1>. HIDE DEF f, of, s
<1>9. Packet(code, f) = <<HeadByte(code)>> \o body
  BY <1>5, <1>6, PacketRead
<1>10. body \in Seq(Byte)
  BY <1>5, PackType
<1>11. code \in Accepted(asked.api) /\ Kind(code) = "record"
  BY <1>4, AcceptedAre, KindsAre
<1>12. code \in Nat /\ code < 100 /\ code # Reply.SVCINFO
  BY <1>6
<1>13. opened' \subseteq Services /\ (opened' # {} => version = daemon)
  BY <1>1, <1>3, <1>4 DEF IInv, Typed, s
<1>14. Answers(Packet(code, f), Entry("record", of))
  BY <1>2 DEF f, of, s
<1>. HIDE DEF body, code
<1>. QED
  BY <1>5, <1>7, <1>8, <1>9, <1>10, <1>11, <1>12, <1>13, <1>14, ResultsConform

LEMMA AnswerStatusConforms ==
  ASSUME IInv, heard # None, AnswerStatus PROVE IInv'
<1>. DEFINE layout == IF Since(heard.code) = 1 THEN 4 ELSE Since(heard.code)
            code == Reply.SERVICESTATUS
<1>1. heard.code \in {Command.SERVICESTATUS, Command.SERVICESTATUS5, Command.SERVICESTATUS6} /\ UNCHANGED opened
  BY DEF AnswerStatus
<1>2. PICK c \in Statuses : Answers(Packet(code, <<<<0, 1>>>> \o Layout(c, layout)), Entry("status", Told(c, layout)))
  BY DEF AnswerStatus
<1>3. asked.api = "status" /\ heard.code = StatusCommand(version) /\ version \in Nat
  BY <1>1, AskedIs, CodesApart DEF Asked
<1>4. Alike(version, layout)
  <2>1. layout = IF version >= 6 THEN 6 ELSE IF version >= 5 THEN 5 ELSE 4
    BY <1>3, CommandCodes DEF StatusCommand, Since
  <2>. QED
    BY <1>3, <2>1 DEF Alike
<1>. DEFINE f == <<<<0, 1>>>> \o Layout(c, layout)
            of == Told(c, layout)
            body == Pack(f)
<1>. HIDE DEF layout
<1>5. /\ f \in Seq(Field) /\ Readable(code, body, version)
      /\ Result(code, body, version, asked.on, heard.told) = of
  BY <1>4, StatusAnswered
<1>6. Reply.SERVICESTATUS = 70 /\ Reply.SVCINFO = 62
  BY ReplyCodes
<1>7. "status" \in Tags /\ of \in Meanings /\ "status" # "version" /\ "status" # "record" /\ "status" # "refused"
  BY ToldTyped DEF Tags, Meanings
<1>. HIDE DEF f, of
<1>8. Sound(Entry("status", of), daemon)
  BY <1>7, EntryTyped
<1>9. Packet(code, f) = <<HeadByte(code)>> \o body
  BY <1>5, <1>6, PacketRead
<1>10. body \in Seq(Byte)
  BY <1>5, PackType
<1>11. code \in Accepted(asked.api) /\ Kind(code) = "status"
  BY <1>3, AcceptedAre, KindsAre
<1>12. code \in Nat /\ code < 100 /\ code # Reply.SVCINFO
  BY <1>6
<1>13. opened' \subseteq Services /\ (opened' # {} => version = daemon)
  BY <1>1, OpenedKept
<1>14. Answers(Packet(code, f), Entry("status", of))
  BY <1>2 DEF f, of
<1>. HIDE DEF body, code
<1>. QED
  BY <1>5, <1>7, <1>8, <1>9, <1>10, <1>11, <1>12, <1>13, <1>14, ResultsConform

LEMMA AnswerListDoneConforms ==
  ASSUME IInv, heard # None, AnswerListDone PROVE IInv'
<1>. DEFINE code == Reply.LISTDONE
            of == heard.told
<1>1. /\ heard.code \in {Command.LISTSERVICES, Command.LISTSERVICES5} /\ DOMAIN heard.told = Services
      /\ Answers(Packet(code, << >>), Entry("list", of)) /\ UNCHANGED opened
  BY DEF AnswerListDone
<1>2. asked.api = "list" /\ of \in Lists
  BY <1>1, AskedIs, CodesApart DEF Asked
<1>3. Readable(code, << >>, version) /\ code \in Nat /\ code < 100 /\ code # Reply.SVCINFO
  BY ReplyCodes, BareReadable DEF Bare
<1>4. Result(code, << >>, version, asked.on, of) = of
  BY ReplyCodes DEF Result
<1>5. << >> \in Seq(Byte) /\ << >> \in Seq(Field) /\ Pack(<< >>) = << >>
  BY EmptySeq, PackNothing
<1>6. Packet(code, << >>) = <<HeadByte(code)>> \o << >>
  BY <1>3, <1>5, PacketRead
<1>7. "list" \in Tags /\ of \in Meanings /\ "list" # "version" /\ "list" # "record" /\ "list" # "refused"
  BY <1>2 DEF Tags, Meanings
<1>8. Sound(Entry("list", of), daemon)
  BY <1>7, EntryTyped
<1>9. Kind(code) = "list"
  BY KindsAre
<1>10. opened' \subseteq Services /\ (opened' # {} => version = daemon)
  BY <1>1, OpenedKept
<1>11. asked.api = "list" /\ code = Reply.LISTDONE /\ DOMAIN heard.told = Services /\ Answers(Packet(code, << >>), Entry("list", of))
  BY <1>1, <1>2
<1>12. Result(code, << >>, version, asked.on, heard.told) = of
  BY <1>4
<1>. HIDE DEF of
<1>. QED
  BY <1>3, <1>5, <1>6, <1>7, <1>8, <1>9, <1>10, <1>11, <1>12, ResultsConform

LEMMA AnswerLogConforms ==
  ASSUME IInv, heard # None, AnswerLog PROVE IInv'
<1>. DEFINE code == Reply.SERVICE_LOG
            n(text) == IF text = None THEN 0 ELSE Size[text]
<1>1. heard.code = Command.CATLOG /\ UNCHANGED opened
  BY DEF AnswerLog
<1>2. PICK text \in Services \union {None} :
        Answers(Packet(code, <<<<0, 1>>, <<n(text), 4>>, <<text, n(text)>>>>), Entry("log", text))
  BY DEF AnswerLog
<1>3. asked.api = "catlog"
  BY <1>1, AskedIs, CodesApart DEF Asked
<1>. DEFINE f == <<<<0, 1>>, <<n(text), 4>>, <<text, n(text)>>>>
            body == Pack(f)
<1>4. /\ f \in Seq(Field) /\ Readable(code, body, version)
      /\ Result(code, body, version, asked.on, heard.told) = text
  BY LogRead
<1>5. Reply.SERVICE_LOG = 73 /\ Reply.SVCINFO = 62
  BY ReplyCodes
<1>6. "log" \in Tags /\ text \in Meanings /\ "log" # "version" /\ "log" # "record" /\ "log" # "refused"
  BY ConstantsTyped DEF Tags, Meanings
<1>7. Answers(Packet(code, f), Entry("log", text))
  BY <1>2
<1>. HIDE DEF f
<1>8. Sound(Entry("log", text), daemon)
  BY <1>6, EntryTyped
<1>9. Packet(code, f) = <<HeadByte(code)>> \o body
  BY <1>4, <1>5, PacketRead
<1>10. body \in Seq(Byte)
  BY <1>4, PackType
<1>11. code \in Accepted(asked.api) /\ Kind(code) = "log"
  BY <1>3, AcceptedAre, KindsAre
<1>12. code \in Nat /\ code < 100 /\ code # Reply.SVCINFO
  BY <1>5
<1>13. opened' \subseteq Services /\ (opened' # {} => version = daemon)
  BY <1>1, OpenedKept
<1>. HIDE DEF body, code
<1>. QED
  BY <1>4, <1>6, <1>7, <1>8, <1>9, <1>10, <1>11, <1>12, <1>13, ResultsConform

LEMMA ServicesNamed ==
  ASSUME NEW ts \in SeqOf(Services, Most) PROVE ts \in Seq(Services) /\ ts \in Seq(Texts)
<1>1. PICK m \in 0 .. Most : ts \in [1 .. m -> Services]
  BY DEF SeqOf
<1>2. m \in Nat
  BY <1>1, ConstantsTyped
<1>3. ts \in [1 .. m -> Texts]
  BY <1>1, ConstantsTyped
<1>. QED
  BY <1>1, <1>2, <1>3

LEMMA AnswerEnvConforms ==
  ASSUME IInv, heard # None, AnswerEnv PROVE IInv'
<1>. DEFINE code == Reply.ALLENV
<1>1. heard.code = Command.GETALLENV /\ UNCHANGED opened
  BY DEF AnswerEnv
<1>2. PICK texts \in SeqOf(Services, Most) :
        Answers(Packet(code, <<<<Len(EnvBlock(texts)), SizeT>>>>) \o EnvBlock(texts), Entry("env", Range(texts)))
  BY DEF AnswerEnv, EnvBlock
<1>3. asked.api = "env"
  BY <1>1, AskedIs, CodesApart DEF Asked
<1>. DEFINE f == <<<<Len(EnvBlock(texts)), SizeT>>>>
            block == EnvBlock(texts)
            body == Pack(f) \o block
            of == Range(texts)
<1>4. texts \in Seq(Texts)
  BY ServicesNamed
<1>5. /\ f \in Seq(Field) /\ block \in Seq(Byte) /\ Readable(code, body, version)
      /\ Result(code, body, version, asked.on, heard.told) = of
  BY <1>4, EnvironmentRead
<1>6. Reply.ALLENV = 78 /\ Reply.SVCINFO = 62
  BY ReplyCodes
<1>7. "env" \in Tags /\ of \in Meanings /\ "env" # "version" /\ "env" # "record" /\ "env" # "refused"
  <2>1. of \in SUBSET Texts
    BY <1>4 DEF Range
  <2>. QED
    BY <2>1 DEF Tags, Meanings
<1>8. Answers(Packet(code, f) \o block, Entry("env", of))
  BY <1>2
<1>. HIDE DEF f, of, block
<1>9. Sound(Entry("env", of), daemon)
  BY <1>7, EntryTyped
<1>10. Packet(code, f) \o block = <<HeadByte(code)>> \o body /\ body \in Seq(Byte)
  BY <1>5, <1>6, PacketMore, SMTT(40)
<1>11. code \in Accepted(asked.api) /\ Kind(code) = "env"
  BY <1>3, AcceptedAre, KindsAre
<1>12. code \in Nat /\ code < 100 /\ code # Reply.SVCINFO
  BY <1>6
<1>13. opened' \subseteq Services /\ (opened' # {} => version = daemon)
  BY <1>1, OpenedKept
<1>. DEFINE bytes == Packet(code, f) \o block
<1>14. bytes = <<HeadByte(code)>> \o body /\ Answers(bytes, Entry("env", of))
  BY <1>8, <1>10
<1>. HIDE DEF body, code, bytes
<1>. QED
  BY <1>5, <1>7, <1>9, <1>10, <1>11, <1>12, <1>13, <1>14, ResultsConform

LEMMA AnswerMechConforms ==
  ASSUME IInv, heard # None, AnswerMech PROVE IInv'
<1>. DEFINE code == Reply.LOADER_MECH
<1>1. heard.code = Command.QUERY_LOAD_MECH /\ UNCHANGED opened
  BY DEF AnswerMech
<1>2. PICK cwd \in Services, dirs \in SeqOf(Services, Most) :
        Answers(Packet(code, MechFields(cwd, dirs)) \o MechBlock(dirs),
                Entry("mech", [type |-> "DIRLOAD", cwd |-> cwd, dirs |-> dirs]))
  BY DEF AnswerMech, MechBlock, MechFields
<1>3. asked.api = "mech"
  BY <1>1, AskedIs, CodesApart DEF Asked
<1>. DEFINE f == MechFields(cwd, dirs)
            block == MechBlock(dirs)
            body == Pack(f) \o block
            of == [type |-> "DIRLOAD", cwd |-> cwd, dirs |-> dirs]
<1>4. cwd \in Texts /\ dirs \in Seq(Texts)
  BY ServicesNamed, ConstantsTyped
<1>5. /\ f \in Seq(Field) /\ block \in Seq(Byte) /\ Readable(code, body, version)
      /\ Result(code, body, version, asked.on, heard.told) = of
  BY <1>4, MechRead, MechLaid
<1>6. Reply.LOADER_MECH = 64 /\ Reply.SVCINFO = 62
  BY ReplyCodes
<1>7. "mech" \in Tags /\ of \in Meanings /\ "mech" # "version" /\ "mech" # "record" /\ "mech" # "refused"
  <2>1. of \in [type : {"DIRLOAD"}, cwd : Texts, dirs : Seq(Texts)]
    BY <1>4
  <2>. QED
    BY <2>1 DEF Tags, Meanings
<1>8. Answers(Packet(code, f) \o block, Entry("mech", of))
  BY <1>2
<1>. HIDE DEF f, of, block
<1>9. Sound(Entry("mech", of), daemon)
  BY <1>7, EntryTyped
<1>10. Packet(code, f) \o block = <<HeadByte(code)>> \o body /\ body \in Seq(Byte)
  BY <1>5, <1>6, PacketMore, SMTT(40)
<1>11. code \in Accepted(asked.api) /\ Kind(code) = "mech"
  BY <1>3, AcceptedAre, KindsAre
<1>12. code \in Nat /\ code < 100 /\ code # Reply.SVCINFO
  BY <1>6
<1>13. opened' \subseteq Services /\ (opened' # {} => version = daemon)
  BY <1>1, OpenedKept
<1>. DEFINE bytes == Packet(code, f) \o block
<1>14. bytes = <<HeadByte(code)>> \o body /\ Answers(bytes, Entry("mech", of))
  BY <1>8, <1>10
<1>. HIDE DEF body, code, bytes
<1>. QED
  BY <1>5, <1>7, <1>9, <1>10, <1>11, <1>12, <1>13, <1>14, ResultsConform

LEMMA AnswerDoneConforms ==
  ASSUME IInv, heard # None, AnswerDone PROVE IInv'
<1>1. heard.code \in Commands /\ UNCHANGED opened
  BY DEF AnswerDone
<1>2. PICK code \in {Reply.ACK, Reply.ALREADYSS} : Answers(Packet(code, << >>), Entry("done", None))
  BY DEF AnswerDone
<1>3. asked.api \in {"start", "stop", "restart", "wake", "release", "unpin", "unload", "reload", "setenv", "signal"}
  BY <1>1, AskedIs, CodesApart DEF Asked
<1>4. Readable(code, << >>, version)
  BY BareReadable DEF Bare
<1>5. code \in {50, 61} /\ code \in Nat /\ code < 100 /\ code # Reply.SVCINFO
  BY ReplyCodes
<1>6. Result(code, << >>, version, asked.on, heard.told) = None
  <2>1. code \notin {58, 59, 63, 64, 65, 70, 73, 78}
    BY <1>5
  <2>2. /\ code # Reply.CPVERSION /\ code # Reply.SERVICERECORD /\ code # Reply.SERVICESTATUS /\ code # Reply.LISTDONE
        /\ code # Reply.SERVICE_LOG /\ code # Reply.ALLENV /\ code # Reply.LOADER_MECH /\ code # Reply.DEPENDENTS
    BY <2>1, ReplyCodes
  <2>. QED
    BY <2>2 DEF Result
<1>7. << >> \in Seq(Byte) /\ << >> \in Seq(Field) /\ Pack(<< >>) = << >>
  BY EmptySeq, PackNothing
<1>8. Packet(code, << >>) = <<HeadByte(code)>> \o << >>
  BY <1>5, <1>7, PacketRead, ZenonT(60)
<1>9. "done" \in Tags /\ None \in Meanings /\ "done" # "version" /\ "done" # "record" /\ "done" # "refused"
  BY DEF Tags, Meanings
<1>10. Sound(Entry("done", None), daemon)
  BY <1>9, EntryTyped
<1>11. code \in Accepted(asked.api)
  BY <1>3, AcceptedAre
<1>12. Kind(code) = "done"
  BY KindsAre
<1>13. opened' \subseteq Services /\ (opened' # {} => version = daemon)
  BY <1>1, OpenedKept
<1>. QED
  BY <1>2, <1>4, <1>5, <1>6, <1>7, <1>8, <1>9, <1>10, <1>11, <1>12, <1>13, ResultsConform, ZenonT(60)

LEMMA AnswerDependentsConforms ==
  ASSUME IInv, heard # None, AnswerDependents PROVE IInv'
<1>. DEFINE code == Reply.DEPENDENTS
<1>1. heard.code = Command.STOPSERVICE /\ "gentle" \in heard.does /\ UNCHANGED opened
  BY DEF AnswerDependents
<1>. DEFINE handles(on) == [i \in DOMAIN on |-> Handle[on[i]]]
            fields(deps) == <<<<Len(deps), SizeT>>>> \o [i \in DOMAIN deps |-> <<deps[i], 4>>]
<1>2. PICK on \in SeqOf(Services, Most) :
        Answers(Packet(code, fields(handles(on))), Entry("dependents", handles(on)))
  BY DEF AnswerDependents
<1>3. asked.api = "stop"
  <2>1. asked.api \in {"stop", "restart"} /\ "gentle" \in DoesFor(asked) /\ asked \in Callable
    BY <1>1, AskedIs, CodesApart DEF Asked
  <2>2. asked.options \subseteq {"pin", "force", "clear"}
    BY <2>1 DEF Callable, Possible, Requests, Hello
  <2>. QED
    BY <2>1, <2>2 DEF DoesFor
<1>. DEFINE deps == handles(on)
<1>4. deps \in Seq(Nat)
  <2>1. on \in Seq(Services)
    BY ServicesNamed
  <2>2. Len(on) \in Nat /\ DOMAIN on = 1 .. Len(on) /\ \A i \in 1 .. Len(on) : on[i] \in Services
    BY <2>1
  <2>3. deps \in [1 .. Len(on) -> Nat]
    BY <2>2, ConstantsTyped
  <2>. QED
    BY <2>2, <2>3
<1>. HIDE DEF handles, deps
<1>. DEFINE f == fields(deps)
            body == Pack(f)
<1>5. /\ f \in Seq(Field) /\ Readable(code, body, version)
      /\ Result(code, body, version, asked.on, heard.told) = deps
  BY <1>4, DependentsRead
<1>6. Reply.DEPENDENTS = 65 /\ Reply.SVCINFO = 62
  BY ReplyCodes
<1>7. /\ "dependents" \in Tags /\ deps \in Meanings
      /\ "dependents" # "version" /\ "dependents" # "record" /\ "dependents" # "refused"
  BY <1>4 DEF Tags, Meanings
<1>8. Answers(Packet(code, f), Entry("dependents", deps))
  BY <1>2 DEF deps
<1>. HIDE DEF f
<1>9. Sound(Entry("dependents", deps), daemon)
  BY <1>7, EntryTyped
<1>10. Packet(code, f) = <<HeadByte(code)>> \o body
  BY <1>5, <1>6, PacketRead
<1>11. body \in Seq(Byte)
  BY <1>5, PackType
<1>12. code \in Accepted(asked.api) /\ Kind(code) = "dependents"
  BY <1>3, AcceptedAre, KindsAre
<1>13. code \in Nat /\ code < 100 /\ code # Reply.SVCINFO
  BY <1>6
<1>14. opened' \subseteq Services /\ (opened' # {} => version = daemon)
  BY <1>1, OpenedKept
<1>. HIDE DEF body, code
<1>. QED
  BY <1>5, <1>7, <1>8, <1>9, <1>10, <1>11, <1>12, <1>13, <1>14, ResultsConform

LEMMA AnswerListItemConforms ==
  ASSUME IInv, heard # None, AnswerListItem PROVE IInv'
<1>. DEFINE layout == IF heard.code = Command.LISTSERVICES5 THEN 5 ELSE 4
            code == Reply.SVCINFO
            fields(s, c) == <<<<Size[s], 1>>>> \o Layout(c, layout) \o <<<<s, Size[s]>>>>
<1>1. heard.code \in {Command.LISTSERVICES, Command.LISTSERVICES5} /\ UNCHANGED <<opened, infos>>
  BY DEF AnswerListItem
<1>2. PICK s \in Services \ DOMAIN heard.told, c \in Statuses :
        /\ heard' = [heard EXCEPT !.told = With(heard.told, s, Told(c, layout))]
        /\ Writes(Packet(code, fields(s, c)), << >>)
  BY DEF AnswerListItem
<1>3. PICK pk \in Seq(Packets), T \in Lists : Conform(pk, T)
  BY DEF IInv
<1>4. Typed
  BY DEF IInv
<1>5. /\ asked \in Callable /\ asked # None /\ heard = Hearing(asked, version, T) /\ heard.told = T
      /\ heard.code = CodeFor(asked.api, version) /\ wire = << >> /\ ~HasFinal(pk) /\ asked.api \in Apis /\ version \in Nat
  BY <1>3, <1>4, HeardIs
<1>6. asked.api = "list" /\ heard.code = ListCommand(version)
  BY <1>1, <1>5, CodesApart
<1>7. layout = IF version >= 5 THEN 5 ELSE 4
  BY <1>5, <1>6, CommandCodes, SMTT(40) DEF ListCommand
<1>. HIDE DEF layout
<1>. DEFINE f == fields(s, c)
            told == Told(c, layout)
            body == Pack(f)
            U == With(T, s, told)
            p == [head |-> code, body |-> body, says |-> << >>, item |-> One(s, told)]
            q == Append(pk, p)
<1>8. s \in Services /\ s \notin DOMAIN T /\ told \in Conditions
  BY <1>5, ToldTyped
<1>9. /\ f \in Seq(Field) /\ Readable(code, body, version) /\ body # << >>
      /\ Listed(body, version) = [on |-> s, told |-> told]
  BY <1>5, <1>7, <1>8, ItemRead
<1>10. Writes(Packet(code, f), << >>) /\ heard' = [heard EXCEPT !.told = U]
  BY <1>2, <1>5
<1>. HIDE DEF f, told
<1>11. code = 62
  BY ReplyCodes
<1>12. Packet(code, f) = <<HeadByte(code)>> \o body /\ body \in Seq(Byte)
  BY <1>9, <1>11, PacketRead, PackType
<1>. HIDE DEF body
<1>13. One(s, told) \in Lists /\ U \in Lists
  BY <1>8, OneIs, OneListed
<1>14. p \in Packets /\ p.head = code /\ p.body = body /\ p.says = << >> /\ p.item = One(s, told)
  <2>1. << >> \in Seq(Entries) /\ code \in Nat
    BY <1>11
  <2>. QED
    BY <1>12, <1>13, <2>1 DEF Packets
<1>15. ItemOk(p, version)
  BY <1>8, <1>9, <1>14 DEF ItemOk
<1>. HIDE DEF p
<1>. DEFINE bytes == Packet(code, f)
<1>16. bytes = <<HeadByte(p.head)>> \o p.body /\ Writes(bytes, p.says) /\ AllSound(p.says, daemon)
  BY <1>10, <1>12, <1>14 DEF AllSound
<1>. HIDE DEF bytes
<1>17. /\ q \in Seq(Packets) /\ Waiting(head', buf', stream', q) /\ Meaning(got', meant', q)
       /\ stream' \in Seq(Byte) /\ AllSound(meant', daemon')
       /\ asked' = asked /\ wire' = wire /\ version' = version /\ daemon' = daemon /\ items' = items /\ calls' = calls
  BY <1>3, <1>4, <1>14, <1>16, WrittenConforms
<1>18. Owed(pk, asked, version, daemon, T) /\ Collected(T, items, pk)
  BY <1>3 DEF Conform
<1>19. Owed(q, asked, version, daemon, U) /\ ~HasFinal(q)
  BY <1>5, <1>6, <1>14, <1>15, <1>18, OwedItem DEF Listing
<1>20. Collected(U, items, q)
  BY <1>8, <1>14, <1>18, CollectedItem
<1>21. heard' = Hearing(asked, version, U)
  BY <1>5, <1>10, HearingMore
<1>. HIDE DEF q, U
<1>22. Turn(asked, wire, heard', q, version, U)
  BY <1>5, <1>6, <1>19, <1>21 DEF Turn
<1>23. Typed'
  BY <1>1, <1>4, <1>17 DEF Typed
<1>24. q \in Seq(Packets) /\ U \in Lists
  BY <1>13, <1>17
<1>25. PICK Q \in Seq(Packets), V \in Lists : Q = q /\ V = U
  BY <1>24
<1>26. Conform(Q, V)'
  BY <1>17, <1>19, <1>20, <1>22, <1>25 DEF Conform
<1>. QED
  BY <1>23, <1>26 DEF IInv

LEMMA RefuseConforms ==
  ASSUME IInv, heard # None, Refuse PROVE IInv'
<1>1. PICK code \in Refusals(heard) : Answers(Packet(code, << >>), Entry("refused", code))
  BY DEF Refuse
<1>2. UNCHANGED opened
  BY DEF Refuse
<1>3. heard.whole /\ Since(heard.code) <= daemon
  BY AskedIs DEF Asked
<1>4. code \in DOMAIN SimpleErrors
  <2>1. heard.code \in Nat /\ Since(heard.code) \in Nat /\ daemon \in Nat
    <3>1. asked.api \in Apis /\ heard.code = CodeFor(asked.api, version) /\ daemon \in Nat
      BY AskedIs DEF Asked
    <3>. QED
      BY <3>1, CodeTyped DEF Since
  <2>2. ~(Since(heard.code) > daemon \/ ~heard.whole)
    BY <1>3, <2>1
  <2>3. code \in {51, 52, 53, 60, 67, 68, 69, 71, 72, 74, 75, 76}
    BY <2>1, <2>2, CommandCodes, ReplyCodes DEF Refusals
  <2>. QED
    BY <2>3, RefusedCodes
<1>. DEFINE e == Entry("refused", code)
<1>5. "refused" \in Tags /\ code \in Nat /\ code \in Meanings
  <2>1. code \in Nat
    BY <1>4, RefusedCodes
  <2>. QED
    BY <2>1 DEF Tags, Meanings
<1>6. e \in Entries /\ e.tag = "refused" /\ Sound(e, daemon)
  BY <1>5, EntryTyped
<1>7. << >> \in Seq(Byte) /\ << >> \in Seq(Field) /\ Pack(<< >>) = << >>
  BY EmptySeq, PackNothing
<1>8. Packet(code, << >>) = <<HeadByte(code)>> \o << >>
  BY <1>5, <1>7, PacketRead
<1>9. Answers(Packet(code, << >>), e)
  BY <1>1
<1>. HIDE DEF e
<1>10. FinalOk(Pkt(code, << >>, e), asked, version, heard.told)
  BY <1>4, <1>6, RefusalOk
<1>11. opened' \subseteq Services /\ (opened' # {} => version = daemon)
  BY <1>2, OpenedKept
<1>. QED
  BY <1>5, <1>6, <1>7, <1>8, <1>9, <1>10, <1>11, AnswersConform

-----------------------------------------------------------------------------
(* What dinit sends by itself preserves the invariant.                     *)

\* The state once st is on the stream, of the packets q, and n has been meant.
Underway(st, n, q, T) ==
  /\ st \in Seq(Byte) /\ q \in Seq(Packets) /\ AllSound(n, daemon)
  /\ Waiting(head, buf, st, q) /\ Meaning(got, n, q)
  /\ Owed(q, asked, version, daemon, T) /\ Collected(T, items, q) /\ Turn(asked, wire, heard, q, version, T)

LEMMA UnderwayMore ==
  ASSUME NEW st, NEW n, NEW q, NEW T, Underway(st, n, q, T),
         NEW p \in Packets, InfoOk(p, version, daemon), AllSound(p.says, daemon)
  PROVE  Underway(st \o (<<HeadByte(p.head)>> \o p.body), n \o p.says, Append(q, p), T)
<1>. DEFINE r == Append(q, p)
            bytes == <<HeadByte(p.head)>> \o p.body
<1>1. /\ st \in Seq(Byte) /\ q \in Seq(Packets) /\ AllSound(n, daemon)
      /\ Waiting(head, buf, st, q) /\ Meaning(got, n, q)
      /\ Owed(q, asked, version, daemon, T) /\ Collected(T, items, q) /\ Turn(asked, wire, heard, q, version, T)
  BY DEF Underway
<1>2. HeadByte(p.head) \in Byte /\ p.body \in Seq(Byte) /\ p.says \in Seq(Entries)
  BY PacketFunctions
<1>3. bytes \in Seq(Byte)
  BY <1>2, ConsRead
<1>4. st \o bytes \in Seq(Byte) /\ r \in Seq(Packets)
  BY <1>1, <1>3, ConcatProperties, AppendProperties
<1>5. Waiting(head, buf, st \o bytes, r) /\ Meaning(got, n \o p.says, r)
  BY <1>1, WaitingMore, MeaningMore
<1>6. n \in Seq(Entries)
  BY <1>1, MeaningRead
<1>7. AllSound(n \o p.says, daemon)
  BY <1>1, <1>2, <1>6, SoundMore
<1>8. Owed(r, asked, version, daemon, T) /\ (HasFinal(r) <=> HasFinal(q))
  BY <1>1, OwedInfo
<1>9. p.item = NoItems
  BY DEF InfoOk
<1>10. Collected(T, items, r)
  BY <1>1, <1>9, CollectedMore
<1>. HIDE DEF r
<1>11. Turn(asked, wire, heard, r, version, T)
  BY <1>1, <1>8 DEF Turn
<1>. HIDE DEF bytes
<1>12. Underway(st \o bytes, n \o p.says, r, T)
  BY <1>4, <1>5, <1>7, <1>8, <1>10, <1>11 DEF Underway
<1>. QED
  BY <1>12 DEF r, bytes

LEMMA UnderwayNow ==
  ASSUME IInv
  PROVE  \E q \in Seq(Packets), T \in Lists : Underway(stream, meant, q, T)
<1>1. PICK pk \in Seq(Packets), T \in Lists : Conform(pk, T)
  BY DEF IInv
<1>2. Underway(stream, meant, pk, T)
  BY <1>1 DEF IInv, Typed, Conform, Underway
<1>. QED
  BY <1>2

LEMMA InformsConform ==
  ASSUME IInv, NEW bytes, NEW entries, Informs(bytes, entries),
         NEW q, NEW T \in Lists, Underway(stream \o bytes, meant \o entries, q, T)
  PROVE  IInv'
<1>1. /\ stream' = stream \o bytes /\ meant' = meant \o entries
      /\ UNCHANGED <<daemon, version, asked, wire, calls, head, buf, items, got, opened, heard>>
      /\ infos < MaxInfo /\ infos' = infos + 1
  BY DEF Informs, Writes, client, socket
<1>2. /\ stream' \in Seq(Byte) /\ q \in Seq(Packets) /\ AllSound(meant', daemon)
      /\ Waiting(head, buf, stream', q) /\ Meaning(got, meant', q)
      /\ Owed(q, asked, version, daemon, T) /\ Collected(T, items, q) /\ Turn(asked, wire, heard, q, version, T)
  BY <1>1 DEF Underway
<1>3. Conform(q, T)'
  BY <1>1, <1>2 DEF Conform
<1>4. infos' \in 0 .. MaxInfo
  BY <1>1, ConstantsTyped DEF IInv, Typed
<1>5. Typed
  BY DEF IInv
<1>6. Typed'
  BY <1>1, <1>2, <1>4, <1>5 DEF Typed
<1>. QED
  BY <1>2, <1>3, <1>6 DEF IInv

LEMMA OneInforms ==
  ASSUME IInv, NEW p \in Packets, InfoOk(p, version, daemon), AllSound(p.says, daemon),
         NEW bytes, bytes = <<HeadByte(p.head)>> \o p.body, Informs(bytes, p.says)
  PROVE  IInv'
<1>1. PICK q \in Seq(Packets), T \in Lists : Underway(stream, meant, q, T)
  BY UnderwayNow
<1>2. Underway(stream \o bytes, meant \o p.says, Append(q, p), T)
  BY <1>1, UnderwayMore
<1>. QED
  BY <1>1, <1>2, InformsConform

Carries(bytes, p) == bytes = <<HeadByte(p.head)>> \o p.body
Both(entries, p, r) == entries = p.says \o r.says

LEMMA TwoInform ==
  ASSUME IInv, NEW p \in Packets, InfoOk(p, version, daemon), AllSound(p.says, daemon),
         NEW r \in Packets, InfoOk(r, version, daemon), AllSound(r.says, daemon),
         NEW one, Carries(one, p), NEW other, Carries(other, r),
         NEW entries, Both(entries, p, r), Informs(one \o other, entries)
  PROVE  IInv'
<1>1. PICK q \in Seq(Packets), T \in Lists : Underway(stream, meant, q, T)
  BY UnderwayNow
<1>2. Underway(stream \o one, meant \o p.says, Append(q, p), T)
  BY <1>1, UnderwayMore DEF Carries
<1>3. Underway((stream \o one) \o other, (meant \o p.says) \o r.says, Append(Append(q, p), r), T)
  BY <1>2, UnderwayMore DEF Carries
<1>4. /\ stream \in Seq(Byte) /\ one \in Seq(Byte) /\ other \in Seq(Byte)
      /\ meant \in Seq(Entries) /\ p.says \in Seq(Entries) /\ r.says \in Seq(Entries)
  <2>1. stream \in Seq(Byte) /\ meant \in Seq(Entries)
    BY <1>1, MeaningRead DEF Underway
  <2>2. /\ HeadByte(p.head) \in Byte /\ p.body \in Seq(Byte) /\ p.says \in Seq(Entries)
        /\ HeadByte(r.head) \in Byte /\ r.body \in Seq(Byte) /\ r.says \in Seq(Entries)
    BY PacketFunctions
  <2>3. one \in Seq(Byte) /\ other \in Seq(Byte)
    BY <2>2, ConsRead DEF Carries
  <2>. QED
    BY <2>1, <2>2, <2>3
<1>5. (stream \o one) \o other = stream \o (one \o other)
  BY <1>4, ConcatAssociative, SMTT(40)
<1>6. (meant \o p.says) \o r.says = meant \o entries
  <2>. DEFINE x == p.says
              y == r.says
  <2>1. x \in Seq(Entries) /\ y \in Seq(Entries) /\ meant \in Seq(Entries)
    BY <1>4
  <2>. HIDE DEF x, y
  <2>2. (meant \o x) \o y = meant \o (x \o y)
    BY <2>1, ConcatAssociative
  <2>. QED
    BY <2>2 DEF x, y, Both
<1>. DEFINE z == Append(Append(q, p), r)
<1>. HIDE DEF z
<1>7. Underway(stream \o (one \o other), meant \o entries, z, T)
  BY <1>3, <1>5, <1>6 DEF z
<1>. QED
  BY <1>1, <1>7, InformsConform

\* What dinit says by itself.
Reports(says) == says \in Seq(Entries) /\ \A i \in 1 .. Len(says) : says[i].tag \in {"event", "variable"}

InfoPkt(code, fields, says) == [head |-> code, body |-> InfoBody(fields), says |-> says, item |-> NoItems]

LEMMA ReportsSound == ASSUME NEW says, Reports(says), NEW d PROVE AllSound(says, d)
BY DEF Reports, AllSound, Sound

LEMMA ReportsOne ==
  /\ Reports(<< >>)
  /\ \A tag \in {"event", "variable"}, of \in Meanings : Reports(<<Entry(tag, of)>>) /\ Entry(tag, of) \in Entries
<1>1. Reports(<< >>)
  BY EmptySeq DEF Reports
<1>2. ASSUME NEW tag \in {"event", "variable"}, NEW of \in Meanings
      PROVE  Reports(<<Entry(tag, of)>>) /\ Entry(tag, of) \in Entries
  <2>. DEFINE e == Entry(tag, of)
  <2>1. tag \in Tags
    BY DEF Tags
  <2>2. e \in Entries /\ e.tag = tag
    BY <2>1, EntryTyped
  <2>. HIDE DEF e
  <2>3. <<e>> \in Seq(Entries) /\ Len(<<e>>) = 1 /\ <<e>>[1] = e
    BY <2>2
  <2>4. Reports(<<e>>)
    BY <2>2, <2>3 DEF Reports
  <2>. QED
    BY <2>2, <2>4 DEF e
<1>. QED
  BY <1>1, <1>2

LEMMA InfoPktIs ==
  ASSUME NEW code \in Nat, code >= 100, NEW fields \in Seq(Field), NEW says, Reports(says),
         NEW v, Event(code, InfoBody(fields), v) = says, NEW d, Event(code, InfoBody(fields), d) = says
  PROVE  LET p == InfoPkt(code, fields, says)
         IN /\ p \in Packets /\ InfoOk(p, v, d) /\ AllSound(p.says, d) /\ p.says = says
            /\ InfoPacket(code, fields) = <<HeadByte(p.head)>> \o p.body
<1>. DEFINE p == InfoPkt(code, fields, says)
            body == InfoBody(fields)
<1>1. /\ InfoPacket(code, fields) = <<HeadByte(code)>> \o body /\ body \in Seq(Byte) /\ body # << >>
      /\ \A w : Readable(code, body, w)
  BY InfoRead
<1>2. NoItems \in Lists /\ says \in Seq(Entries)
  BY NoItemsIs DEF Reports
<1>3. p.head = code /\ p.body = body /\ p.says = says /\ p.item = NoItems
  BY DEF InfoPkt
<1>4. p \in Packets
  BY <1>1, <1>2 DEF InfoPkt, Packets
<1>. HIDE DEF p, body
<1>5. \A i \in 1 .. Len(p.says) : p.says[i].tag # "refused"
  BY <1>3 DEF Reports
<1>6. Event(p.head, p.body, v) = p.says /\ Event(p.head, p.body, d) = p.says
  BY <1>3 DEF body
<1>7. InfoOk(p, v, d)
  BY <1>1, <1>3, <1>5, <1>6 DEF InfoOk
<1>8. AllSound(p.says, d)
  BY <1>3, ReportsSound
<1>. QED
  BY <1>1, <1>3, <1>4, <1>7, <1>8 DEF p

LEMMA EmitUnknownConforms ==
  ASSUME IInv, EmitUnknown PROVE IInv'
<1>. DEFINE f == <<<<0, 3>>>>
            code == 103
            says == << >>
            p == InfoPkt(code, f, says)
            bytes == InfoPacket(code, f)
<1>1. f \in Seq(Field)
  BY NumbersAreThings DEF Field
<1>2. Informs(bytes, says)
  BY DEF EmitUnknown
<1>3. code \in Nat /\ code >= 100
  OBVIOUS
<1>. HIDE DEF f
<1>4. Event(code, InfoBody(f), version) = says /\ Event(code, InfoBody(f), daemon) = says
  BY InfoCodes DEF Event
<1>5. Reports(says)
  BY ReportsOne
<1>. HIDE DEF code, says
<1>6. p \in Packets /\ InfoOk(p, version, daemon) /\ AllSound(p.says, daemon) /\ p.says = says
      /\ bytes = <<HeadByte(p.head)>> \o p.body
  BY <1>1, <1>3, <1>4, <1>5, InfoPktIs
<1>. HIDE DEF p, bytes
<1>7. Informs(bytes, p.says)
  BY <1>2, <1>6
<1>. QED
  BY <1>6, <1>7, OneInforms

LEMMA EmitVariableConforms ==
  ASSUME IInv, EmitVariable PROVE IInv'
<1>. DEFINE code == Info.ENVEVENT
            fields(t, overridden) == <<<<overridden, 1>>, <<Size[t], 2>>, <<t, Size[t]>>>>
<1>1. PICK t \in Services, overridden \in {0, 1} :
        Informs(InfoPacket(code, fields(t, overridden)), <<Entry("variable", <<overridden, t>>)>>)
  BY DEF EmitVariable
<1>. DEFINE f == fields(t, overridden)
            says == <<Entry("variable", <<overridden, t>>)>>
            p == InfoPkt(code, f, says)
            bytes == InfoPacket(code, f)
<1>2. f \in Seq(Field) /\ \A v : Event(code, InfoBody(f), v) = says
  BY VariableRead
<1>3. code \in Nat /\ code >= 100
  BY InfoCodes
<1>4. Reports(says)
  <2>1. <<overridden, t>> \in Nat \X Texts
    BY ConstantsTyped
  <2>2. <<overridden, t>> \in Meanings
    BY <2>1 DEF Meanings
  <2>. QED
    BY <2>2, ReportsOne
<1>5. Informs(bytes, says)
  BY <1>1
<1>. HIDE DEF f, says, code
<1>8. Event(code, InfoBody(f), version) = says /\ Event(code, InfoBody(f), daemon) = says
  BY <1>2
<1>6. p \in Packets /\ InfoOk(p, version, daemon) /\ AllSound(p.says, daemon) /\ p.says = says
      /\ bytes = <<HeadByte(p.head)>> \o p.body
  BY <1>2, <1>3, <1>4, <1>8, InfoPktIs
<1>. HIDE DEF p, bytes
<1>7. Informs(bytes, p.says)
  BY <1>5, <1>6
<1>. QED
  BY <1>6, <1>7, OneInforms

\* An event of a service in the layout of a version, as it is read.
LEMMA EventSays ==
  ASSUME NEW s \in Services, NEW event \in Events, NEW c \in Statuses, NEW v
  PROVE  LET b(w) == InfoBody(EventFields(s, event, c, w))
             said(w) == <<Entry("event", <<Handle[s], event, Told(c, w)>>)>>
         IN /\ EventFields(s, event, c, 4) \in Seq(Field) /\ EventFields(s, event, c, 5) \in Seq(Field)
            /\ Reports(said(4)) /\ Reports(said(5))
            /\ Event(101, b(5), v) = said(5)
            /\ v \in Nat /\ v < 5 => Event(100, b(4), v) = said(4)
            /\ v \in Nat /\ v >= 5 => Event(100, b(4), v) = << >>
<1>. DEFINE b(w) == InfoBody(EventFields(s, event, c, w))
            said(w) == <<Entry("event", <<Handle[s], event, Told(c, w)>>)>>
<1>1. Alike(4, 4) /\ Alike(5, 5)
  BY DEF Alike
<1>2. /\ EventFields(s, event, c, 4) \in Seq(Field) /\ Number(b(4), 1, 4) = Handle[s]
      /\ Member(ServiceEvent, Number(b(4), 5, 1)) = event /\ DecodeStatus(Drop(b(4), 6), 4) = Told(c, 4)
  BY <1>1, EventRead
<1>3. /\ EventFields(s, event, c, 5) \in Seq(Field) /\ Number(b(5), 1, 4) = Handle[s]
      /\ Member(ServiceEvent, Number(b(5), 5, 1)) = event /\ DecodeStatus(Drop(b(5), 6), 5) = Told(c, 5)
  BY <1>1, EventRead
<1>4. ASSUME NEW w PROVE Reports(said(w))
  <2>. DEFINE told == Told(c, w)
  <2>1. told \in Conditions /\ Handle[s] \in Nat /\ event \in Range(ServiceEvent)
    BY ToldTyped, ConstantsTyped, CodecAssumption
  <2>. HIDE DEF told
  <2>2. <<Handle[s], event, told>> \in Nat \X Range(ServiceEvent) \X Conditions
    BY <2>1
  <2>3. <<Handle[s], event, told>> \in Meanings
    BY <2>2 DEF Meanings
  <2>. QED
    BY <2>3, ReportsOne DEF told
<1>. DEFINE x == b(4)
            y == b(5)
<1>. HIDE DEF x, y
<1>5. Event(101, y, v) = <<Entry("event", <<Number(y, 1, 4), Member(ServiceEvent, Number(y, 5, 1)), DecodeStatus(Drop(y, 6), 5)>>)>>
  BY InfoCodes DEF Event
<1>6. v \in Nat /\ v < 5 =>
        Event(100, x, v) = <<Entry("event", <<Number(x, 1, 4), Member(ServiceEvent, Number(x, 5, 1)), DecodeStatus(Drop(x, 6), 4)>>)>>
  BY InfoCodes DEF Event
<1>7. v \in Nat /\ v >= 5 => Event(100, x, v) = << >>
  BY InfoCodes DEF Event
<1>8. Event(101, y, v) = said(5)
  BY <1>3, <1>5 DEF y
<1>9. v \in Nat /\ v < 5 => Event(100, x, v) = said(4)
  BY <1>2, <1>6 DEF x
<1>. QED
  BY <1>2, <1>3, <1>4, <1>7, <1>8, <1>9 DEF x, y

LEMMA EmitServiceConforms ==
  ASSUME IInv, EmitService PROVE IInv'
<1>. DEFINE form(code, s, event, c, layout) == InfoPacket(code, EventFields(s, event, c, layout))
            said(s, event, c, w) == <<Entry("event", <<Handle[s], event, Told(c, w)>>)>>
            u == IF daemon >= 5 THEN 5 ELSE 4
<1>1. PICK s \in opened, event \in Events, c \in Statuses :
        LET old == form(Info.SERVICEEVENT, s, event, c, 4)
            new == IF u = 5 THEN form(Info.SERVICEEVENT5, s, event, c, 5) ELSE << >>
        IN \E bytes \in {new \o old, old \o new} : Informs(bytes, said(s, event, c, u))
  BY DEF EmitService, EventFields
<1>. HIDE DEF u
<1>2. Typed /\ s \in Services /\ version = daemon /\ daemon \in Nat
  BY ConstantsTyped DEF IInv, Typed
<1>. DEFINE old == form(Info.SERVICEEVENT, s, event, c, 4)
            new == form(Info.SERVICEEVENT5, s, event, c, 5)
            x == EventFields(s, event, c, 4)
            y == EventFields(s, event, c, 5)
<1>0. \E bytes \in {(IF u = 5 THEN new ELSE << >>) \o old, old \o (IF u = 5 THEN new ELSE << >>)} :
        Informs(bytes, said(s, event, c, u))
  BY <1>1
<1>5. old = InfoPacket(100, x) /\ new = InfoPacket(101, y)
  BY InfoCodes
<1>. HIDE DEF old, new
<1>3. CASE daemon < 5
  <2>. DEFINE says == said(s, event, c, 4)
              p == InfoPkt(100, x, says)
  <2>1. x \in Seq(Field) /\ Reports(says) /\ Event(100, InfoBody(x), version) = says /\ Event(100, InfoBody(x), daemon) = says
    BY <1>2, <1>3, EventSays, ZenonT(60)
  <2>2. \E bytes \in {<< >> \o old, old \o << >>} : Informs(bytes, says)
    <3>1. u = 4
      BY <1>2, <1>3 DEF u
    <3>. QED
      BY <1>0, <3>1
  <2>. HIDE DEF x, says
  <2>3. p \in Packets /\ InfoOk(p, version, daemon) /\ AllSound(p.says, daemon) /\ p.says = says
        /\ InfoPacket(100, x) = <<HeadByte(p.head)>> \o p.body
    BY <2>1, InfoPktIs
  <2>4. old = <<HeadByte(p.head)>> \o p.body
    BY <1>5, <2>3
  <2>. HIDE DEF p
  <2>5. old \in Seq(Byte)
    <3>1. HeadByte(p.head) \in Byte /\ p.body \in Seq(Byte)
      BY <2>3, PacketFunctions
    <3>. QED
      BY <2>4, <3>1, ConsRead
  <2>6. << >> \o old = old /\ old \o << >> = old
    BY <2>5, ConcatEmptySeq
  <2>7. Informs(old, p.says)
    BY <2>2, <2>3, <2>6
  <2>. QED
    BY <2>3, <2>4, <2>7, OneInforms
<1>4. CASE daemon >= 5
  <2>. DEFINE says == said(s, event, c, 5)
              p == InfoPkt(100, x, << >>)
              r == InfoPkt(101, y, says)
  <2>1. /\ x \in Seq(Field) /\ Event(100, InfoBody(x), version) = << >> /\ Event(100, InfoBody(x), daemon) = << >>
        /\ y \in Seq(Field) /\ Event(101, InfoBody(y), version) = says /\ Event(101, InfoBody(y), daemon) = says
        /\ Reports(says) /\ Reports(<< >>)
    <3>1. version \in Nat /\ version >= 5
      BY <1>2, <1>4
    <3>2. Event(100, InfoBody(x), version) = << >>
      BY <1>2, <3>1, EventSays, ZenonT(60)
    <3>3. x \in Seq(Field) /\ y \in Seq(Field) /\ Event(101, InfoBody(y), version) = says /\ Reports(says)
      BY <1>2, EventSays, ZenonT(60)
    <3>4. Event(100, InfoBody(x), daemon) = << >> /\ Event(101, InfoBody(y), daemon) = says
      BY <1>2, <3>2, <3>3
    <3>. QED
      BY <3>2, <3>3, <3>4, ReportsOne
  <2>2. \E bytes \in {new \o old, old \o new} : Informs(bytes, says)
    <3>1. u = 5
      BY <1>2, <1>4 DEF u
    <3>. QED
      BY <1>0, <3>1
  <2>. HIDE DEF x, y, says
  <2>3. p \in Packets /\ InfoOk(p, version, daemon) /\ AllSound(p.says, daemon) /\ p.says = << >>
        /\ InfoPacket(100, x) = <<HeadByte(p.head)>> \o p.body
    BY <2>1, InfoPktIs
  <2>4. r \in Packets /\ InfoOk(r, version, daemon) /\ AllSound(r.says, daemon) /\ r.says = says
        /\ InfoPacket(101, y) = <<HeadByte(r.head)>> \o r.body
    BY <2>1, InfoPktIs
  <2>5. Carries(old, p) /\ Carries(new, r)
    BY <1>5, <2>3, <2>4 DEF Carries
  <2>6. Both(says, r, p) /\ Both(says, p, r)
    BY <2>1, <2>3, <2>4, ConcatEmptySeq, ZenonT(60) DEF Reports, Both
  <2>. HIDE DEF p, r
  <2>7. CASE Informs(new \o old, says)
    BY <2>3, <2>4, <2>5, <2>6, <2>7, TwoInform
  <2>8. CASE Informs(old \o new, says)
    BY <2>3, <2>4, <2>5, <2>6, <2>8, TwoInform
  <2>. QED
    BY <2>2, <2>7, <2>8
<1>. QED
  BY <1>2, <1>3, <1>4

-----------------------------------------------------------------------------
(* The invariant is inductive.                                             *)

LEMMA AnswersPreserve ==
  ASSUME IInv, Answer PROVE IInv'
<1>1. heard # None
  BY DEF Answer
<1>2. \/ AnswerVersion \/ AnswerRecord \/ AnswerStatus \/ AnswerListItem \/ AnswerListDone
      \/ AnswerLog \/ AnswerEnv \/ AnswerMech \/ AnswerDone \/ AnswerDependents \/ Refuse
  BY DEF Answer
<1>. QED
  BY <1>1, <1>2, AnswerVersionConforms, AnswerRecordConforms, AnswerStatusConforms, AnswerListItemConforms,
     AnswerListDoneConforms, AnswerLogConforms, AnswerEnvConforms, AnswerMechConforms, AnswerDoneConforms,
     AnswerDependentsConforms, RefuseConforms

LEMMA ReadsPreserve ==
  ASSUME IInv, ReadStep PROVE IInv'
BY ReadHeadConforms, ReceiveConforms, DispatchInfoConforms, ListItemConforms, FinishConforms, RejectConforms
   DEF ReadStep

LEMMA StutterPreserves ==
  ASSUME IInv, UNCHANGED vars PROVE IInv'
<1>1. PICK pk \in Seq(Packets), T \in Lists : Conform(pk, T)
  BY DEF IInv
<1>2. Conform(pk, T)'
  BY <1>1 DEF Conform, vars
<1>3. Typed'
  BY DEF IInv, Typed, vars
<1>. QED
  BY <1>2, <1>3 DEF IInv

(* Every step, of the client, of the daemon and of the bytes between them, leaves on the socket *)
(* the rest of whole packets, which say what dinit means and answer the call under way.         *)
THEOREM CodecInductive == IInv /\ [Next]_vars => IInv'
<1>. SUFFICES ASSUME IInv, [Next]_vars PROVE IInv'
  OBVIOUS
<1>1. CASE Negotiated
  BY <1>1, NegotiatedConforms
<1>2. CASE calls < Len(Calls) /\ \E call \in Calls[calls + 1] : Ask(call)
  BY <1>2, AskConforms
<1>3. CASE ReadStep
  BY <1>3, ReadsPreserve
<1>4. CASE Hear
  BY <1>4, HearConforms
<1>5. CASE Answer
  BY <1>5, AnswersPreserve
<1>6. CASE EmitService \/ EmitVariable \/ EmitUnknown
  BY <1>6, EmitServiceConforms, EmitVariableConforms, EmitUnknownConforms
<1>7. CASE UNCHANGED vars
  BY <1>7, StutterPreserves
<1>. QED
  BY <1>1, <1>2, <1>3, <1>4, <1>5, <1>6, <1>7 DEF Next

THEOREM CodecInvariant == Spec => []IInv
BY StartsConform, CodecInductive, PTL DEF Spec

-----------------------------------------------------------------------------
(* What follows from it.                                                   *)

(* Whatever the calls, the version and the sizes, the list handler keeps entries only of services and only *)
(* while a list is under way, and no read takes more than its packet (client.py:201-214, 433-441).          *)
THEOREM CodecTyped == Spec => []TypeOK
<1>1. IInv => TypeOK
  <2>. SUFFICES ASSUME IInv PROVE TypeOK
    OBVIOUS
  <2>1. PICK pk \in Seq(Packets), T \in Lists : Conform(pk, T)
    BY DEF IInv
  <2>2. Typed
    BY DEF IInv
  <2>3. /\ daemon \in Versions /\ version \in Versions \union {1} /\ opened \subseteq Services
        /\ (asked \in {Hello, None} \/ (calls > 0 /\ asked \in Calls[calls]))
        /\ calls \in 0..Len(Calls) /\ infos \in 0..MaxInfo
    BY <2>2 DEF Typed
  <2>4. items # NoItems => asked # None /\ asked.api = "list" /\ DOMAIN items \subseteq Services
    <3>1. /\ T \in Lists /\ items \in Lists /\ \A s \in DOMAIN items : s \in DOMAIN T
      BY <2>1 DEF Conform, Collected
    <3>2. DOMAIN items \subseteq Services /\ (items # NoItems => DOMAIN items # {})
      BY <3>1, ListsAre
    <3>3. items # NoItems => T # NoItems
      BY <3>1, <3>2, ListsAre
    <3>. QED
      BY <2>1, <3>2, <3>3 DEF Conform, Turn
  <2>5. IF head = None THEN buf = <<>> ELSE Len(buf) <= Needs
    <3>1. head = None => buf = << >>
      BY <2>1 DEF Conform, Waiting
    <3>2. head # None => Len(buf) <= Needs
      BY <2>1, <2>2, Reading
    <3>. QED
      BY <3>1, <3>2
  <2>. QED
    BY <2>3, <2>4, <2>5 DEF TypeOK
<1>. QED
  BY <1>1, CodecInvariant, PTL

(* What the client gives out is what dinit meant, in its order, for every version, size, condition and *)
(* service, and for every way in which the bytes arrive (client.py:334-344, 379-383, 433-441).        *)
THEOREM CodecFaithful == Spec => []Faithful
<1>1. IInv => Faithful
  <2>. SUFFICES ASSUME IInv PROVE Faithful
    OBVIOUS
  <2>1. PICK pk \in Seq(Packets), T \in Lists : Meaning(got, meant, pk)
    BY DEF IInv, Conform
  <2>2. /\ got \in Seq(Given) /\ meant \in Seq(Entries) /\ Len(got) <= Len(meant)
        /\ \A i \in 1 .. Len(got) : Same(got[i], meant[i])
    BY <2>1, MeaningRead
  <2>. QED
    BY <2>2 DEF Faithful
<1>. QED
  BY <1>1, CodecInvariant, PTL

(* After every packet, of any kind and version, known to the client or not, the reader is at the head of *)
(* the next one (client.py:334-344, 433-441).                                                            *)
THEOREM CodecStaysOnPackets == Spec => []StaysOnPackets
<1>1. IInv => StaysOnPackets
  <2>. SUFFICES ASSUME IInv, head = None, stream # << >> PROVE Head(stream).part = 0
    BY DEF StaysOnPackets
  <2>1. PICK pk \in Seq(Packets), T \in Lists : Waiting(None, buf, stream, pk)
    BY DEF IInv, Conform
  <2>2. stream \in Seq(Byte)
    BY DEF IInv, Typed
  <2>. QED
    BY <2>1, <2>2, WaitingHead
<1>. QED
  BY <1>1, CodecInvariant, PTL

(* dinit reads every command that the client can send as the call meant it, in the layout of a version that *)
(* it speaks: the service whose record was given out, the options, and not a byte more or less.              *)
THEOREM CodecUnderstood == Spec => []Understood
<1>1. IInv => Understood
  <2>. SUFFICES ASSUME IInv, heard # None
                PROVE  /\ heard.whole /\ Since(heard.code) <= daemon /\ heard.on = asked.on
                       /\ heard.does = DoesFor(asked)
    BY DEF Understood, DoesFor
  <2>. QED
    BY AskedIs DEF Asked
<1>. QED
  BY <1>1, CodecInvariant, PTL

(* The reader never waits for bytes that no packet has, no call waits once its answer is lost, and all that *)
(* was meant has been given out once all is read (client.py:130-137, 379-383).                               *)
THEOREM CodecOnItsWay == Spec => []OnItsWay
<1>1. IInv => OnItsWay
  <2>. SUFFICES ASSUME IInv PROVE OnItsWay
    OBVIOUS
  <2>1. PICK pk \in Seq(Packets), T \in Lists : Conform(pk, T)
    BY DEF IInv
  <2>2. Typed /\ stream \in Seq(Byte)
    BY DEF IInv, Typed
  <2>3. head # None => Len(buf) + Len(stream) >= Needs
    <3>1. SUFFICES ASSUME head # None PROVE Len(buf) + Len(stream) >= Needs
      OBVIOUS
    <3>. DEFINE p == pk[1]
    <3>2. /\ p.body \in Seq(Byte) /\ buf \in Seq(Byte) /\ Needs \in Nat
          /\ Needs <= Len(p.body) /\ Len(p.body) <= Len(buf) + Len(stream)
      BY <2>1, <2>2, <3>1, Reading
    <3>. HIDE DEF p
    <3>. DEFINE k == Len(p.body)
                m == Len(buf)
                n == Len(stream)
    <3>3. k \in Nat /\ m \in Nat /\ n \in Nat /\ Needs \in Nat /\ Needs <= k /\ k <= m + n
      BY <2>2, <3>2, LenProperties
    <3>. HIDE DEF k, m, n
    <3>4. m + n >= Needs
      BY <3>3
    <3>. QED
      BY <3>4 DEF m, n
  <2>4. head = None => buf = << >> /\ stream = Flat(pk)
    BY <2>1 DEF Conform, Waiting
  <2>5. head = None /\ stream = << >> => pk = << >>
    BY <2>4, FirstByte
  <2>6. asked # None => wire # << >> \/ heard # None \/ head # None \/ stream # << >>
    <3>1. SUFFICES ASSUME asked # None, wire = << >>, heard = None, head = None, stream = << >> PROVE FALSE
      OBVIOUS
    <3>2. asked \in Callable
      BY <2>2, <3>1 DEF Typed
    <3>3. HasFinal(pk)
      <4>1. Turn(asked, wire, heard, pk, version, T)
        BY <2>1 DEF Conform
      <4>2. Hearing(asked, version, T) # None
        BY <3>2, HearingIs
      <4>. QED
        BY <3>1, <4>1, <4>2 DEF Turn
    <3>4. pk = << >>
      BY <2>5, <3>1
    <3>. QED
      BY <3>3, <3>4 DEF HasFinal
  <2>7. head = None /\ stream = << >> => Len(got) = Len(meant)
    <3>1. Meaning(got, meant, pk)
      BY <2>1 DEF Conform
    <3>. QED
      BY <2>5, <3>1, MeaningRead
  <2>. QED
    BY <2>3, <2>6, <2>7 DEF OnItsWay
<1>. QED
  BY <1>1, CodecInvariant, PTL
=============================================================================
