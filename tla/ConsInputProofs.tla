-------------------------- MODULE ConsInputProofs ---------------------------
(***************************************************************************)
(* Console input.  First the keyboard driver: it returns bytes, and its    *)
(* flags stay in step with the bytes on the line and with the keys that    *)
(* are down.  Then the circular buffer: fed by the two polling loops, it   *)
(* implements the queue of InputQueue, for every buffer size, keyboard and *)
(* serial line.                                                            *)
(***************************************************************************)
EXTENDS ConsInput, SequenceTheorems, TLAPS

(* The rows of the tables hold bytes. *)
LEMMA NormalKeys == normalkeys \in Seq(0..255)
BY DEF normalkeys, keypad

LEMMA ShiftKeys == shiftkeys \in Seq(0..255)
BY DEF shiftkeys, keypad

LEMMA CtlKeys == ctlkeys \in Seq(0..255)
BY DEF ctlkeys

LEMMA PadKeys == ASSUME NEW d \in 0..255 PROVE padmap(d) \in 0..255
BY DEF padmap, KEY_DEL, NO

(* Whatever the modifiers, a scan code maps to a byte. *)
LEMMA CharBytes ==
  ASSUME NEW flags, NEW d \in 0..255
  PROVE  charcode(flags, d) \in 0..255
<1>1. ASSUME NEW keys \in Seq(0..255), NEW o \in 0..255
      PROVE  Entry(keys, d, o) \in 0..255
  <2>1. \A n \in 1..Len(keys) : keys[n] \in 0..255
    BY ElementOfSeq
  <2>2. d < Len(keys) => d + 1 \in 1..Len(keys)
    OBVIOUS
  <2> QED
    BY <2>1, <2>2 DEF Entry
<1>2. homemap(d) \in 0..255 /\ ctlpadmap(d) \in 0..255
  <2> DEFINE o == padmap(d)
  <2>1. o \in 0..255
    BY PadKeys
  <2> HIDE DEF o
  <2>2. (CASE d = 199 -> 224 [] d = 156 -> 10 [] d = 181 -> 47 [] OTHER -> o) \in 0..255
    BY <2>1
  <2>3. (CASE d = 151 -> 224 [] d = 181 -> 239 [] OTHER -> o) \in 0..255
    BY <2>1
  <2> QED
    BY <2>2, <2>3 DEF homemap, ctlpadmap, o
<1> QED
  BY <1>1, <1>2, NormalKeys, ShiftKeys, CtlKeys
    DEF charcode, normalmap, shiftmap, ctlmap

(* Decoding a byte gives flags and a byte. *)
LEMMA DecodeType ==
  ASSUME NEW s \in SUBSET Flags, NEW data \in 0..255
  PROVE  Decode(s, data)[1] \in SUBSET Flags /\ Decode(s, data)[2] \in 0..255
<1>1. E0ESC \in Flags
  BY DEF Flags
<1>2. ASSUME NEW d PROVE shiftcode(d) \subseteq Flags /\ togglecode(d) \subseteq Flags
  BY DEF shiftcode, togglecode, Flags, SHIFT, CTL, ALT, CAPSLOCK
<1>3. CASE data = E0
  BY <1>1, <1>3 DEF Decode
<1>4. CASE data # E0 /\ data >= 128
  BY <1>4 DEF Decode, Released
<1>5. CASE data # E0 /\ ~ (data >= 128)
  <2> DEFINE d == PressedCode(s, data)
  <2>1. d \in 0..255
    BY <1>5 DEF PressedCode
  <2> HIDE DEF d
  <2>2. Pressed(s, d) \in SUBSET Flags
    BY <1>2 DEF Pressed, SymDiff
  <2>3. PressedChar(s, d) \in 0..255
    <3> DEFINE c == charcode(Pressed(s, d), d)
    <3>1. c \in 0..255
      BY <2>1, CharBytes
    <3> HIDE DEF c
    <3>2. SwapCase(c) \in 0..255
      BY <3>1 DEF SwapCase
    <3> QED
      BY <3>1, <3>2 DEF PressedChar, c
  <2> QED
    BY <1>5, <2>2, <2>3 DEF Decode, d
<1> QED
  BY <1>3, <1>4, <1>5

(* The driver returns -1 or a byte. *)
LEMMA RetType ==
  ASSUME KbdTypeOK
  PROVE  kbd_ret \in -1..255
<1>1. CASE kbd_out = NoByte
  BY <1>1 DEF kbd_ret, NoData
<1>2. CASE kbd_out # NoByte
  <2>1. kbd_out.byte \in 0..255
    BY <1>2 DEF KbdTypeOK, LineByte
  <2>2. Decode(shift, kbd_out.byte)[2] \in 0..255
    BY <2>1, DecodeType DEF KbdTypeOK
  <2> QED
    BY <1>2, <2>2 DEF kbd_ret
<1> QED
  BY <1>1, <1>2

(* What a key sends is a sequence of bytes of the line. *)
LEMMA BytesType ==
  ASSUME NEW k \in Keys, NEW code \in 0..255, NEW ev \in {"make", "break"}
  PROVE  Bytes(k, code, ev) \in Seq(LineByte)
<1>1. [byte |-> code, key |-> k, ev |-> ev] \in LineByte
  BY DEF LineByte
<1>2. [byte |-> E0, key |-> k, ev |-> "prefix"] \in LineByte
  BY DEF LineByte, E0
<1> QED
  BY <1>1, <1>2 DEF Bytes

(* Reading a byte keeps the types. *)
LEMMA ProcType ==
  ASSUME KbdTypeOK, kbd_proc_data
  PROVE  KbdTypeOK'
<1>1. CASE kbd_out = NoByte
  BY <1>1 DEF kbd_proc_data, kbdVars, KbdTypeOK
<1>2. CASE kbd_out # NoByte
  <2>1. kbd_out \in LineByte
    BY <1>2 DEF KbdTypeOK
  <2>2. kbd_out.byte \in 0..255 /\ kbd_out.key \in Keys
    BY <2>1 DEF LineByte
  <2>3. shift' \in SUBSET Flags
    BY <1>2, <2>2, DecodeType DEF kbd_proc_data, KbdTypeOK
  <2>4. seen' \in SUBSET Keys
    BY <1>2, <2>2 DEF kbd_proc_data, KbdTypeOK, SeenAfter
  <2>5. reset' \in BOOLEAN
    BY <1>2 DEF kbd_proc_data
  <2>6. kbd_out' = NoByte /\ UNCHANGED <<held, kbd_line>>
    BY <1>2 DEF kbd_proc_data
  <2> QED
    BY <2>3, <2>4, <2>5, <2>6 DEF KbdTypeOK
<1> QED
  BY <1>1, <1>2

(* So does the hardware. *)
LEMMA HardwareType ==
  ASSUME KbdTypeOK, KbdHardware
  PROVE  KbdTypeOK'
<1>1. ASSUME NEW k \in Keys, PressKey(k) PROVE KbdTypeOK'
  <2>1. k.code \in 0..255
    BY KeysAssumption
  <2>2. Bytes(k, k.code, "make") \in Seq(LineByte)
    BY <2>1, BytesType
  <2>3. kbd_line' \in Seq(LineByte)
    BY <1>1, <2>2 DEF PressKey, Send, KbdTypeOK
  <2>4. held' \in SUBSET Keys /\ UNCHANGED <<shift, kbd_out, reset, seen>>
    BY <1>1 DEF PressKey, KbdTypeOK
  <2> QED
    BY <2>3, <2>4 DEF KbdTypeOK
<1>2. ASSUME NEW k \in Keys, ReleaseKey(k) PROVE KbdTypeOK'
  <2>1. k.code + 128 \in 0..255
    BY KeysAssumption
  <2>2. Bytes(k, k.code + 128, "break") \in Seq(LineByte)
    BY <2>1, BytesType
  <2>3. kbd_line' \in Seq(LineByte)
    BY <1>2, <2>2 DEF ReleaseKey, Send, KbdTypeOK
  <2>4. held' \in SUBSET Keys /\ UNCHANGED <<shift, kbd_out, reset, seen>>
    BY <1>2 DEF ReleaseKey, KbdTypeOK
  <2> QED
    BY <2>3, <2>4 DEF KbdTypeOK
<1>3. CASE KbdTransfer
  <2>1. Head(kbd_line) \in LineByte /\ Tail(kbd_line) \in Seq(LineByte)
    BY <1>3 DEF KbdTransfer, KbdTypeOK
  <2> QED
    BY <1>3, <2>1 DEF KbdTransfer, KbdTypeOK
<1> QED
  BY <1>1, <1>2, <1>3 DEF KbdHardware

(* And a reset of the machine. *)
LEMMA ResetType ==
  ASSUME KbdTypeOK, KbdAfterReset
  PROVE  KbdTypeOK'
<1>1. <<>> \in Seq(LineByte)
  OBVIOUS
<1>2. reset' \in BOOLEAN
  BY DEF KbdAfterReset
<1> QED
  BY <1>1, <1>2 DEF KbdTypeOK, KbdAfterReset

(* The keyboard starts with its types. *)
LEMMA KbdInitType == KbdInit => KbdTypeOK
<1> SUFFICES ASSUME KbdInit PROVE KbdTypeOK
  OBVIOUS
<1>1. <<>> \in Seq(LineByte)
  OBVIOUS
<1>2. reset \in BOOLEAN
  BY DEF KbdInit
<1> QED
  BY <1>1, <1>2 DEF KbdTypeOK, KbdInit

(* kbd_proc_data keeps its flags, and the hardware its queue, within their *)
(* types.                                                                  *)
THEOREM KbdTypeCorrect == KbdSpec => []KbdTypeOK
<1>1. KbdTypeOK /\ [KbdNext]_kbdVars => KbdTypeOK'
  <2>1. ASSUME KbdTypeOK, UNCHANGED kbdVars PROVE KbdTypeOK'
    BY <2>1 DEF kbdVars, KbdTypeOK
  <2> QED
    BY <2>1, ProcType, HardwareType, ResetType DEF KbdNext, MachineReset
<1> QED
  BY <1>1, KbdInitType, PTL DEF KbdSpec

-----------------------------------------------------------------------------
(***************************************************************************)
(* The inductive invariant behind the safety properties.  Every byte on    *)
(* its way is what its key sends for its event, the prefix of an extended  *)
(* code is followed by its second byte and by nothing else, a line never   *)
(* ends in a prefix, and the flag E0ESC says what the next byte is.        *)
(***************************************************************************)
Genuine(b) ==
  /\ b.ev = "prefix" => b.byte = E0 /\ b.key.e0
  /\ b.ev = "make"   => b.byte = b.key.code
  /\ b.ev = "break"  => b.byte = b.key.code + 128

Second(b) == b.ev # "prefix" /\ b.key.e0

Follows(b, c) == b.ev = "prefix" <=> Second(c)

LineOK ==
  /\ \A j \in 1..Len(kbd_line) : Genuine(kbd_line[j])
  /\ \A j \in 1..Len(kbd_line)-1 : Follows(kbd_line[j], kbd_line[j + 1])
  /\ kbd_line # <<>> => kbd_line[Len(kbd_line)].ev # "prefix"

OutOK ==
  kbd_out # NoByte =>
    /\ Genuine(kbd_out)
    /\ kbd_line # <<>> => Follows(kbd_out, kbd_line[1])
    /\ kbd_line = <<>> => kbd_out.ev # "prefix"

FlagOK ==
  /\ kbd_out # NoByte => (E0ESC \in shift <=> Second(kbd_out))
  /\ kbd_out = NoByte /\ kbd_line # <<>> =>
       (E0ESC \in shift <=> Second(kbd_line[1]))
  /\ kbd_out = NoByte /\ kbd_line = <<>> => E0ESC \notin shift

KbdInv == KbdTypeOK /\ LineOK /\ OutOK /\ FlagOK /\ NoStuckModifier

(* What a byte of a two-byte code does to the flag. *)
LEMMA PrefixRead ==
  ASSUME NEW s \in SUBSET Flags, NEW data \in 0..255
  PROVE  E0ESC \in Decode(s, data)[1] <=> data = E0
<1>1. ASSUME NEW d PROVE E0ESC \notin shiftcode(d) /\ E0ESC \notin togglecode(d)
  BY DEF shiftcode, togglecode, E0ESC, SHIFT, CTL, ALT, CAPSLOCK
<1>2. CASE data = E0
  BY <1>2 DEF Decode
<1>3. CASE data # E0 /\ data >= 128
  BY <1>3 DEF Decode, Released
<1>4. CASE data # E0 /\ ~(data >= 128)
  BY <1>1, <1>4 DEF Decode, Pressed, SymDiff
<1> QED
  BY <1>2, <1>3, <1>4

(* The byte in the controller: what it is, and the code of its key under   *)
(* which the tables are searched.                                          *)
LEMMA OutFacts ==
  ASSUME KbdTypeOK, OutOK, FlagOK, kbd_out # NoByte
  PROVE  /\ kbd_out.byte \in 0..255 /\ kbd_out.key \in Keys
         /\ kbd_out.ev \in {"prefix", "make", "break"}
         /\ kbd_out.ev = "prefix" <=> kbd_out.byte = E0
         /\ kbd_out.ev = "make" =>
              /\ kbd_out.byte < 128
              /\ PressedCode(shift, kbd_out.byte) = TableCode(kbd_out.key)
         /\ kbd_out.ev = "break" =>
              /\ kbd_out.byte >= 128
              /\ (IF E0ESC \in shift THEN kbd_out.byte ELSE kbd_out.byte - 128)
                   = TableCode(kbd_out.key)
<1>1. /\ kbd_out.byte \in 0..255 /\ kbd_out.key \in Keys
      /\ kbd_out.ev \in {"prefix", "make", "break"}
  BY DEF KbdTypeOK, LineByte
<1>2. kbd_out.key.code \in (1..127) \ {96} /\ kbd_out.key.e0 \in BOOLEAN
  BY <1>1, KeysAssumption
<1>3. Genuine(kbd_out)
  BY DEF OutOK
<1>4. E0ESC \in shift <=> Second(kbd_out)
  BY DEF FlagOK
<1>5. CASE kbd_out.ev = "prefix"
  BY <1>1, <1>3, <1>5 DEF Genuine
<1>6. CASE kbd_out.ev = "make"
  BY <1>1, <1>2, <1>3, <1>4, <1>6
    DEF Genuine, Second, E0, PressedCode, TableCode
<1>7. CASE kbd_out.ev = "break"
  BY <1>1, <1>2, <1>3, <1>4, <1>7 DEF Genuine, Second, E0, TableCode
<1> QED
  BY <1>1, <1>5, <1>6, <1>7

(* Reading a byte leaves the flag in step with the byte after it. *)
LEMMA ProcLine ==
  ASSUME KbdInv, kbd_proc_data
  PROVE  LineOK' /\ OutOK' /\ FlagOK'
<1>1. CASE kbd_out = NoByte
  BY <1>1 DEF kbd_proc_data, kbdVars, KbdInv, LineOK, OutOK, FlagOK
<1>2. CASE kbd_out # NoByte
  <2>1. kbd_out' = NoByte /\ kbd_line' = kbd_line
    BY <1>2 DEF kbd_proc_data
  <2>2. shift' = Decode(shift, kbd_out.byte)[1]
    BY <1>2 DEF kbd_proc_data
  <2>3. E0ESC \in shift' <=> kbd_out.ev = "prefix"
    BY <1>2, <2>2, OutFacts, PrefixRead DEF KbdInv, KbdTypeOK
  <2>4. /\ kbd_line # <<>> => Follows(kbd_out, kbd_line[1])
        /\ kbd_line = <<>> => kbd_out.ev # "prefix"
    BY <1>2 DEF KbdInv, OutOK
  <2>5. LineOK' /\ OutOK'
    BY <2>1 DEF KbdInv, LineOK, OutOK
  <2>6. FlagOK'
    BY <2>1, <2>3, <2>4 DEF FlagOK, Follows
  <2> QED
    BY <2>5, <2>6
<1> QED
  BY <1>1, <1>2

(* The modifiers among the flags are changed by the code of the key alone. *)
LEMMA ModifierRead ==
  ASSUME KbdInv, kbd_proc_data, kbd_out # NoByte, NEW m \in {SHIFT, CTL, ALT}
  PROVE  LET mine == m \in shiftcode(TableCode(kbd_out.key))
         IN  m \in shift' <=> CASE kbd_out.ev = "make"  -> m \in shift \/ mine
                                [] kbd_out.ev = "break" -> m \in shift /\ ~mine
                                [] OTHER                -> m \in shift
<1> DEFINE d == TableCode(kbd_out.key)
           data == kbd_out.byte
<1>1. shift' = Decode(shift, data)[1]
  BY DEF kbd_proc_data
<1>2. m # E0ESC /\ m \notin togglecode(d)
  BY DEF togglecode, E0ESC, SHIFT, CTL, ALT, CAPSLOCK
<1>3. /\ kbd_out.ev \in {"prefix", "make", "break"}
      /\ kbd_out.ev = "prefix" <=> data = E0
      /\ kbd_out.ev = "make" => data < 128 /\ PressedCode(shift, data) = d
      /\ kbd_out.ev = "break" =>
           data >= 128 /\ (IF E0ESC \in shift THEN data ELSE data - 128) = d
      /\ data \in 0..255
  BY OutFacts DEF KbdInv
<1> HIDE DEF d, data
<1>4. CASE kbd_out.ev = "prefix"
  BY <1>1, <1>2, <1>3, <1>4 DEF Decode
<1>5. CASE kbd_out.ev = "make"
  <2>1. shift' = Pressed(shift, d)
    BY <1>1, <1>3, <1>5 DEF Decode
  <2> QED
    BY <1>2, <1>5, <2>1 DEF Pressed, SymDiff, d
<1>6. CASE kbd_out.ev = "break"
  <2>1. shift' = Released(shift, data)
    BY <1>1, <1>3, <1>6 DEF Decode
  <2>2. shift' = shift \ (shiftcode(d) \cup {E0ESC})
    BY <1>3, <1>6, <2>1 DEF Released
  <2> QED
    BY <1>2, <1>6, <2>2 DEF d
<1> QED
  BY <1>3, <1>4, <1>5, <1>6

(* So that no modifier is left behind. *)
LEMMA ProcModifiers ==
  ASSUME KbdInv, kbd_proc_data
  PROVE  NoStuckModifier'
<1>1. CASE kbd_out = NoByte
  BY <1>1 DEF kbd_proc_data, kbdVars, KbdInv, NoStuckModifier
<1>2. CASE kbd_out # NoByte
  <2> DEFINE k == kbd_out.key
  <2>1. k \in Keys /\ kbd_out.ev \in {"prefix", "make", "break"}
    BY <1>2, OutFacts DEF KbdInv
  <2>2. seen' = SeenAfter(kbd_out)
    BY <1>2 DEF kbd_proc_data
  <2> SUFFICES ASSUME NEW m \in {SHIFT, CTL, ALT}
               PROVE  /\ m \in shift' => seen' \cap KeysOf(m) # {}
                      /\ \A j \in seen' : KeysOf(m) = {j} => m \in shift'
    BY DEF NoStuckModifier
  <2>3. /\ m \in shift => seen \cap KeysOf(m) # {}
        /\ \A j \in seen : KeysOf(m) = {j} => m \in shift
    BY DEF KbdInv, NoStuckModifier
  <2>4. k \in KeysOf(m) <=> m \in shiftcode(TableCode(k))
    BY <2>1 DEF KeysOf
  <2>5. m \in shift' <=> CASE kbd_out.ev = "make"  -> m \in shift \/ k \in KeysOf(m)
                           [] kbd_out.ev = "break" -> m \in shift /\ k \notin KeysOf(m)
                           [] OTHER                -> m \in shift
    BY <1>2, <2>4, ModifierRead
  <2>6. CASE kbd_out.ev = "make"
    <3>1. seen' = seen \cup {k} /\ (m \in shift' <=> m \in shift \/ k \in KeysOf(m))
      BY <2>2, <2>5, <2>6 DEF SeenAfter
    <3> QED
      BY <2>3, <3>1
  <2>7. CASE kbd_out.ev = "break"
    <3>1. seen' = seen \ {k} /\ (m \in shift' <=> m \in shift /\ k \notin KeysOf(m))
      BY <2>2, <2>5, <2>7 DEF SeenAfter
    <3> QED
      BY <2>3, <3>1
  <2>8. CASE kbd_out.ev = "prefix"
    <3>1. seen' = seen /\ (m \in shift' <=> m \in shift)
      BY <2>2, <2>5, <2>8 DEF SeenAfter
    <3> QED
      BY <2>3, <3>1
  <2> QED
    BY <2>1, <2>6, <2>7, <2>8
<1> QED
  BY <1>1, <1>2

(* What a key sends: one byte, or the prefix and one byte. *)
LEMMA BytesSent ==
  ASSUME NEW k \in Keys, NEW code \in 0..255, NEW ev \in {"make", "break"},
         ev = "make" => code = k.code, ev = "break" => code = k.code + 128
  PROVE  LET q == Bytes(k, code, ev)
         IN  /\ q \in Seq(LineByte) /\ Len(q) \in {1, 2}
             /\ \A j \in 1..Len(q) : Genuine(q[j])
             /\ ~Second(q[1]) /\ q[Len(q)].ev # "prefix"
             /\ Len(q) = 2 => Follows(q[1], q[2])
<1> DEFINE last == [byte |-> code, key |-> k, ev |-> ev]
           first == [byte |-> E0, key |-> k, ev |-> "prefix"]
           q == Bytes(k, code, ev)
<1>1. q \in Seq(LineByte)
  BY BytesType
<1>2. Genuine(last) /\ last.ev # "prefix" /\ (Second(last) <=> k.e0)
  BY KeysAssumption DEF Genuine, Second
<1>3. k.e0 => Genuine(first)
  BY DEF Genuine
<1>4. ~Second(first) /\ first.ev = "prefix"
  BY DEF Second
<1> HIDE DEF last, first
<1>5. CASE k.e0
  <2>1. q = <<first, last>>
    BY <1>5 DEF Bytes, last, first
  <2> HIDE DEF q
  <2>2. Len(q) = 2 /\ q[1] = first /\ q[2] = last
    BY <2>1
  <2>3. \A j \in 1..Len(q) : Genuine(q[j])
    <3>1. \A j \in 1..Len(q) : j = 1 \/ j = 2
      BY <2>2
    <3> QED
      BY <1>2, <1>3, <1>5, <2>2, <3>1
  <2>4. Follows(q[1], q[2])
    BY <1>2, <1>4, <1>5, <2>2 DEF Follows
  <2> QED
    BY <1>1, <1>2, <1>4, <2>2, <2>3, <2>4 DEF q
<1>6. CASE ~k.e0
  <2>1. q = <<last>>
    BY <1>6 DEF Bytes, last
  <2> HIDE DEF q
  <2>2. Len(q) = 1 /\ q[1] = last
    BY <2>1
  <2>3. \A j \in 1..Len(q) : Genuine(q[j])
    <3>1. \A j \in 1..Len(q) : j = 1
      BY <2>2
    <3> QED
      BY <1>2, <2>2, <3>1
  <2> QED
    BY <1>1, <1>2, <1>6, <2>2, <2>3 DEF q
<1> QED
  BY <1>5, <1>6

(* Sending it keeps the line in order. *)
LEMMA SendLine ==
  ASSUME KbdInv, NEW q \in Seq(LineByte), Len(q) \in {1, 2},
         \A j \in 1..Len(q) : Genuine(q[j]),
         ~Second(q[1]), q[Len(q)].ev # "prefix",
         Len(q) = 2 => Follows(q[1], q[2]),
         Send(q), UNCHANGED <<shift, kbd_out>>
  PROVE  LineOK' /\ OutOK' /\ FlagOK'
<1> DEFINE n == Len(kbd_line)
           r == kbd_line \o q
<1>1. kbd_line \in Seq(LineByte) /\ n \in Nat
  BY DEF KbdInv, KbdTypeOK
<1>2. kbd_line' = r
  BY DEF Send
<1>3. Len(r) = n + Len(q)
  BY <1>1
<1>4. \A j \in 1..Len(r) : r[j] = IF j <= n THEN kbd_line[j] ELSE q[j - n]
  BY <1>1
<1>5. (kbd_line = <<>> <=> n = 0) /\ r # <<>>
  BY <1>1, <1>3
<1>6. LineOK
  BY DEF KbdInv
<1> HIDE DEF r, n
<1>7. \A j \in 1..Len(r) : Genuine(r[j])
  <2> SUFFICES ASSUME NEW j \in 1..Len(r) PROVE Genuine(r[j])
    OBVIOUS
  <2>1. CASE j <= n
    BY <1>1, <1>4, <1>6, <2>1 DEF LineOK, n
  <2>2. CASE ~(j <= n)
    <3>1. j - n \in 1..Len(q)
      BY <1>1, <1>3, <2>2
    <3> QED
      BY <1>4, <2>2, <3>1
  <2> QED
    BY <2>1, <2>2
<1>8. \A j \in 1..Len(r)-1 : Follows(r[j], r[j + 1])
  <2> SUFFICES ASSUME NEW j \in 1..Len(r)-1 PROVE Follows(r[j], r[j + 1])
    OBVIOUS
  <2>0. j \in 1..Len(r) /\ j + 1 \in 1..Len(r)
    BY <1>1, <1>3
  <2>1. CASE j < n
    <3>1. r[j] = kbd_line[j] /\ r[j + 1] = kbd_line[j + 1] /\ j \in 1..n-1
      BY <1>1, <1>4, <2>0, <2>1
    <3> QED
      BY <1>6, <3>1 DEF LineOK, n
  <2>2. CASE j = n
    <3>1. r[j] = kbd_line[n] /\ r[j + 1] = q[1] /\ kbd_line # <<>>
      BY <1>1, <1>4, <1>5, <2>0, <2>2
    <3> QED
      BY <1>6, <3>1 DEF LineOK, Follows, n
  <2>3. CASE j > n
    <3>0. Len(q) = 1 \/ Len(q) = 2
      OBVIOUS
    <3>1. j = n + 1 /\ Len(q) = 2
      BY <1>1, <1>3, <2>3, <3>0
    <3>2. r[j] = q[1] /\ r[j + 1] = q[2]
      BY <1>1, <1>4, <2>0, <3>1
    <3> QED
      BY <3>1, <3>2
  <2> QED
    BY <1>1, <2>1, <2>2, <2>3
<1>9. r[Len(r)] = q[Len(q)]
  BY <1>1, <1>3, <1>4
<1>10. LineOK'
  BY <1>2, <1>7, <1>8, <1>9 DEF LineOK
<1>11. r[1] = IF kbd_line = <<>> THEN q[1] ELSE kbd_line[1]
  BY <1>1, <1>3, <1>4, <1>5
<1>12. OutOK'
  BY <1>2, <1>5, <1>11 DEF KbdInv, OutOK, Follows
<1>13. FlagOK'
  BY <1>2, <1>5, <1>11 DEF KbdInv, FlagOK
<1> QED
  BY <1>10, <1>12, <1>13

(* The hardware leaves the flags and the keys that were seen alone, and    *)
(* keeps the bytes in order.                                               *)
LEMMA HardwareLine ==
  ASSUME KbdInv, KbdHardware
  PROVE  KbdInv'
<1>1. KbdTypeOK'
  BY HardwareType DEF KbdInv
<1>2. UNCHANGED <<shift, seen>>
  BY DEF KbdHardware, PressKey, ReleaseKey, KbdTransfer
<1>3. NoStuckModifier'
  BY <1>2 DEF KbdInv, NoStuckModifier
<1>4. ASSUME NEW k \in Keys, PressKey(k) PROVE LineOK' /\ OutOK' /\ FlagOK'
  <2>1. k.code \in 0..255
    BY KeysAssumption
  <2>2. Send(Bytes(k, k.code, "make")) /\ UNCHANGED <<shift, kbd_out>>
    BY <1>4 DEF PressKey
  <2> DEFINE q == Bytes(k, k.code, "make")
  <2>3. /\ q \in Seq(LineByte) /\ Len(q) \in {1, 2}
        /\ \A j \in 1..Len(q) : Genuine(q[j])
        /\ ~Second(q[1]) /\ q[Len(q)].ev # "prefix"
        /\ Len(q) = 2 => Follows(q[1], q[2])
    BY <2>1, BytesSent
  <2> HIDE DEF q
  <2> QED
    BY <2>2, <2>3, SendLine DEF q
<1>5. ASSUME NEW k \in Keys, ReleaseKey(k) PROVE LineOK' /\ OutOK' /\ FlagOK'
  <2>1. k.code + 128 \in 0..255
    BY KeysAssumption
  <2>2. Send(Bytes(k, k.code + 128, "break")) /\ UNCHANGED <<shift, kbd_out>>
    BY <1>5 DEF ReleaseKey
  <2> DEFINE q == Bytes(k, k.code + 128, "break")
  <2>3. /\ q \in Seq(LineByte) /\ Len(q) \in {1, 2}
        /\ \A j \in 1..Len(q) : Genuine(q[j])
        /\ ~Second(q[1]) /\ q[Len(q)].ev # "prefix"
        /\ Len(q) = 2 => Follows(q[1], q[2])
    BY <2>1, BytesSent
  <2> HIDE DEF q
  <2> QED
    BY <2>2, <2>3, SendLine DEF q
<1>6. CASE KbdTransfer
  <2> DEFINE r == Tail(kbd_line)
  <2>1. kbd_line \in Seq(LineByte) /\ kbd_line # <<>>
    BY <1>6 DEF KbdInv, KbdTypeOK, KbdTransfer
  <2>2. kbd_out = NoByte /\ kbd_out' = kbd_line[1] /\ kbd_line' = r
    BY <1>6, <2>1 DEF KbdTransfer
  <2>3. /\ Len(r) = Len(kbd_line) - 1 /\ Len(kbd_line) \in Nat
        /\ Len(kbd_line) > 0
        /\ \A j \in 1..Len(r) : r[j] = kbd_line[j + 1]
        /\ r = <<>> <=> Len(r) = 0
    <3>1. r \in Seq(LineByte) /\ Len(r) = Len(kbd_line) - 1
      BY <2>1
    <3>2. Len(kbd_line) \in Nat /\ Len(kbd_line) > 0
      BY <2>1, EmptySeq
    <3>3. \A j \in 1..Len(r) : r[j] = kbd_line[j + 1]
      BY <2>1, <3>1
    <3>4. r = <<>> <=> Len(r) = 0
      BY <3>1, EmptySeq
    <3> QED
      BY <3>1, <3>2, <3>3, <3>4
  <2>4. LineOK /\ FlagOK
    BY DEF KbdInv
  <2> HIDE DEF r
  <2>5. LineOK'
    <3>1. \A j \in 1..Len(r) : Genuine(r[j])
      BY <2>3, <2>4 DEF LineOK
    <3>2. \A j \in 1..Len(r)-1 : Follows(r[j], r[j + 1])
      BY <2>3, <2>4 DEF LineOK
    <3>3. r # <<>> => r[Len(r)] = kbd_line[Len(kbd_line)]
      BY <2>3
    <3> QED
      BY <2>1, <2>2, <2>4, <3>1, <3>2, <3>3 DEF LineOK
  <2>6. OutOK'
    <3>1. Genuine(kbd_line[1])
      BY <2>3, <2>4 DEF LineOK
    <3>2. r # <<>> => r[1] = kbd_line[2] /\ 1 \in 1..Len(kbd_line)-1
      BY <2>3
    <3>3. r # <<>> => Follows(kbd_line[1], r[1])
      BY <2>4, <3>2 DEF LineOK
    <3>4. r = <<>> => Len(kbd_line) = 1
      BY <2>3
    <3>5. kbd_line[Len(kbd_line)].ev # "prefix"
      BY <2>1, <2>4 DEF LineOK
    <3> QED
      BY <2>2, <3>1, <3>3, <3>4, <3>5 DEF OutOK
  <2>7. FlagOK'
    <3>1. kbd_line[1] \in LineByte
      BY <2>1, <2>3, ElementOfSeq
    <3>2. kbd_line[1] # NoByte
      BY <3>1 DEF NoByte, LineByte
    <3> QED
      BY <1>2, <2>1, <2>2, <2>4, <3>2 DEF FlagOK
  <2> QED
    BY <1>1, <1>3, <2>5, <2>6, <2>7 DEF KbdInv
<1> QED
  BY <1>1, <1>3, <1>4, <1>5, <1>6 DEF KbdInv, KbdHardware

LEMMA KbdInvInit == KbdInit => KbdInv
<1> SUFFICES ASSUME KbdInit PROVE KbdInv
  OBVIOUS
<1>1. Len(kbd_line) = 0 /\ kbd_line = <<>>
  BY DEF KbdInit
<1> QED
  BY <1>1, KbdInitType
    DEF KbdInv, KbdInit, LineOK, OutOK, FlagOK, NoStuckModifier

LEMMA KbdInvNext == KbdInv /\ [KbdNext]_kbdVars => KbdInv'
<1> SUFFICES ASSUME KbdInv, [KbdNext]_kbdVars PROVE KbdInv'
  OBVIOUS
<1>1. CASE kbd_proc_data
  BY <1>1, ProcType, ProcLine, ProcModifiers DEF KbdInv
<1>2. CASE KbdHardware
  BY <1>2, HardwareLine
<1>3. CASE MachineReset
  <2>1. KbdTypeOK'
    BY <1>3, ResetType DEF MachineReset, KbdInv
  <2>2. /\ shift' = {} /\ seen' = {} /\ kbd_out' = NoByte
        /\ kbd_line' = <<>> /\ Len(kbd_line') = 0
    BY <1>3 DEF MachineReset, KbdAfterReset
  <2> QED
    BY <2>1, <2>2 DEF KbdInv, LineOK, OutOK, FlagOK, NoStuckModifier
<1>4. CASE UNCHANGED kbdVars
  BY <1>4 DEF kbdVars, KbdInv, KbdTypeOK, LineOK, OutOK, FlagOK, NoStuckModifier
<1> QED
  BY <1>1, <1>2, <1>3, <1>4 DEF KbdNext

(* For every set of keys and every line: no modifier flag outlives the     *)
(* keys that set it.                                                       *)
THEOREM NoModifierSticks == KbdSpec => []NoStuckModifier
<1>1. KbdInv => NoStuckModifier
  BY DEF KbdInv
<1> QED
  BY <1>1, KbdInvInit, KbdInvNext, PTL DEF KbdSpec

(* The E0 prefix never leaks into another key. *)
THEOREM PrefixStaysInStep == KbdSpec => []PrefixInStep
<1>1. KbdInv => PrefixInStep
  <2> SUFFICES ASSUME KbdInv PROVE PrefixInStep
    OBVIOUS
  <2>1. kbd_line \in Seq(LineByte)
    BY DEF KbdInv, KbdTypeOK
  <2>2. CASE kbd_out # NoByte
    <3>1. Unread = <<kbd_out>> \o kbd_line
      BY <2>2 DEF Unread
    <3>2. kbd_out \in LineByte
      BY <2>2 DEF KbdInv, KbdTypeOK
    <3>3. Unread # <<>> /\ Head(Unread) = kbd_out
      BY <2>1, <3>1, <3>2
    <3> QED
      BY <2>2, <3>3 DEF PrefixInStep, KbdInv, FlagOK, Second
  <2>3. CASE kbd_out = NoByte
    <3>1. Unread = kbd_line
      BY <2>1, <2>3 DEF Unread
    <3>2. kbd_line # <<>> => Head(kbd_line) = kbd_line[1]
      BY <2>1
    <3> QED
      BY <2>3, <3>1, <3>2 DEF PrefixInStep, KbdInv, FlagOK, Second
  <2> QED
    BY <2>2, <2>3
<1> QED
  BY <1>1, KbdInvInit, KbdInvNext, PTL DEF KbdSpec

(* Under Ctrl, only the code of the extended Delete key maps to KEY_DEL. *)
LEMMA DeleteCode ==
  ASSUME NEW d \in 0..255, ctlmap(d) = KEY_DEL
  PROVE  d = 211
<1>1. d < Len(ctlkeys) => ctlkeys[d + 1] # KEY_DEL
  BY DEF ctlkeys, KEY_DEL
<1>2. ~(d < Len(ctlkeys)) /\ ctlpadmap(d) = KEY_DEL
  BY <1>1 DEF ctlmap, Entry
<1>3. padmap(d) = KEY_DEL
  BY <1>2 DEF ctlpadmap, KEY_DEL
<1> QED
  BY <1>3 DEF padmap, KEY_DEL, NO

(* The machine is reset for Ctrl and Alt with the extended Delete key, and *)
(* for nothing else.                                                       *)
THEOREM ResetOnlyOnChord == KbdSpec => RebootOnlyOnChord
<1> DEFINE Chord == ~reset /\ reset' => /\ seen' \cap KeysOf(CTL) # {}
                                        /\ seen' \cap KeysOf(ALT) # {}
                                        /\ kbd_out.key = DeleteKey
                                        /\ kbd_out.ev = "make"
<1>1. KbdInv /\ KbdInv' /\ [KbdNext]_kbdVars => [Chord]_kbdVars
  <2> SUFFICES ASSUME KbdInv, KbdInv', KbdNext, ~reset, reset'
               PROVE  /\ seen' \cap KeysOf(CTL) # {}
                      /\ seen' \cap KeysOf(ALT) # {}
                      /\ kbd_out.key = DeleteKey
                      /\ kbd_out.ev = "make"
    BY DEF Chord, kbdVars
  <2>1. kbd_proc_data /\ kbd_out # NoByte
    BY DEF KbdNext, KbdHardware, PressKey, ReleaseKey, KbdTransfer,
           MachineReset, KbdAfterReset, kbd_proc_data, kbdVars
  <2> DEFINE c == Decode(shift, kbd_out.byte)[2]
             d == TableCode(kbd_out.key)
  <2>2. shift' = Decode(shift, kbd_out.byte)[1] /\ RebootCombination(shift', c)
    BY <2>1 DEF kbd_proc_data
  <2>3. {CTL, ALT} \subseteq shift' /\ c = KEY_DEL
    BY <2>2 DEF RebootCombination
  <2>4. seen' \cap KeysOf(CTL) # {} /\ seen' \cap KeysOf(ALT) # {}
    BY <2>3 DEF KbdInv, NoStuckModifier
  <2>5. /\ kbd_out.byte \in 0..255 /\ kbd_out.key \in Keys
        /\ kbd_out.ev \in {"prefix", "make", "break"}
        /\ kbd_out.ev = "prefix" <=> kbd_out.byte = E0
        /\ kbd_out.ev = "make" =>
             kbd_out.byte < 128 /\ PressedCode(shift, kbd_out.byte) = d
        /\ kbd_out.ev = "break" => kbd_out.byte >= 128
    BY <2>1, OutFacts DEF KbdInv
  <2> HIDE DEF d
  <2>6. kbd_out.byte # E0 /\ ~(kbd_out.byte >= 128)
    BY <2>3 DEF Decode, KEY_DEL
  <2>7. kbd_out.ev = "make"
    BY <2>5, <2>6
  <2>8. Decode(shift, kbd_out.byte) = <<Pressed(shift, d), PressedChar(shift, d)>>
    BY <2>5, <2>6, <2>7 DEF Decode
  <2>9. shift' = Pressed(shift, d) /\ PressedChar(shift, d) = KEY_DEL
    BY <2>2, <2>3, <2>8
  <2>10. kbd_out.key.code \in 1..127 /\ kbd_out.key.e0 \in BOOLEAN
    BY <2>5, KeysAssumption
  <2>11. d \in 0..255
    BY <2>10 DEF d, TableCode
  <2>12. charcode(Pressed(shift, d), d) = ctlmap(d)
    BY <2>3, <2>9 DEF charcode
  <2>13. ctlmap(d) \in 0..255
    BY <2>11, <2>12, CharBytes
  <2>14. ctlmap(d) = KEY_DEL
    BY <2>9, <2>12, <2>13 DEF PressedChar, SwapCase, KEY_DEL
  <2>15. d = 211
    BY <2>11, <2>14, DeleteCode
  <2>16. kbd_out.key.e0 = TRUE /\ kbd_out.key.code = 83
    BY <2>10, <2>15 DEF d, TableCode
  <2>17. kbd_out.key = [e0 |-> kbd_out.key.e0, code |-> kbd_out.key.code]
    BY <2>5, KeysAssumption
  <2> QED
    BY <2>4, <2>7, <2>16, <2>17 DEF DeleteKey
<1> QED
  BY <1>1, KbdInvInit, KbdInvNext, PTL DEF KbdSpec, RebootOnlyOnChord

-----------------------------------------------------------------------------
(* A position of the buffer is a number, and Advance goes round. *)
LEMMA AdvanceType ==
  ASSUME NEW p \in Position
  PROVE  p \in Nat /\ p < CONSBUFSIZE /\ Advance(p) \in Position
BY BufSizeAssumption DEF Position, Advance

(* The number of characters between the two positions. *)
LEMMA CountType ==
  ASSUME NEW rp \in Position, NEW wp \in Position
  PROVE  /\ CountOf(rp, wp) \in Nat
         /\ CountOf(rp, wp) < CONSBUFSIZE
         /\ CountOf(rp, wp) = 0 <=> rp = wp
BY BufSizeAssumption DEF CountOf, Position

(* The slots of the queued characters, and the free one behind them. *)
LEMMA SlotFacts ==
  ASSUME NEW rp \in Position, NEW wp \in Position
  PROVE  /\ Slot(rp, 0) = rp
         /\ Slot(rp, CountOf(rp, wp)) = wp
         /\ \A k \in 0..CountOf(rp, wp) : Slot(rp, k) \in Position
         /\ \A k \in 0..CountOf(rp, wp)-1 : Slot(rp, k) # wp
BY BufSizeAssumption, CountType DEF CountOf, Slot, Position

(* After the first slot the order is that of the next position. *)
LEMMA SlotAdvance ==
  ASSUME NEW rp \in Position, NEW k \in Nat, k + 1 < CONSBUFSIZE
  PROVE  Slot(Advance(rp), k) = Slot(rp, k + 1)
BY BufSizeAssumption, AdvanceType DEF Slot, Advance

(* What the buffer stands for is a sequence of bytes. *)
ContentsAre(q, b, rp, n) ==
  /\ q \in Seq(0..255)
  /\ Len(q) = n
  /\ \A k \in 1..n : q[k] = b[Slot(rp, k - 1)]

(* It is so for every pair of positions. *)
LEMMA ContentsSeq ==
  ASSUME NEW b \in [Position -> 0..255], NEW rp \in Position, NEW wp \in Position
  PROVE  ContentsAre(Contents(b, rp, wp), b, rp, CountOf(rp, wp))
<1> DEFINE n == CountOf(rp, wp)
           q == Contents(b, rp, wp)
<1>1. n \in Nat
  BY CountType
<1>2. \A k \in 1..n : b[Slot(rp, k - 1)] \in 0..255
  <2> SUFFICES ASSUME NEW k \in 1..n PROVE b[Slot(rp, k - 1)] \in 0..255
    OBVIOUS
  <2>1. k - 1 \in 0..n
    BY <1>1
  <2>2. Slot(rp, k - 1) \in Position
    BY <2>1, SlotFacts
  <2> QED
    BY <2>2
<1>3. q = [k \in 1..n |-> b[Slot(rp, k - 1)]]
  BY DEF Contents
<1> HIDE DEF n, q
<1>4. q \in [1..n -> 0..255]
  BY <1>2, <1>3
<1>5. q \in Seq(0..255)
  <2>1. q \in UNION {[1..m -> 0..255] : m \in Nat}
    BY <1>1, <1>4, Zenon
  <2>2. Seq(0..255) = UNION {[1..m -> 0..255] : m \in Nat}
    BY SeqDef, Zenon
  <2> QED
    BY <2>1, <2>2, Zenon
<1>6. Len(q) = n
  <2>1. DOMAIN q = 1..Len(q) /\ Len(q) \in Nat
    BY <1>5, LenProperties
  <2> QED
    BY <1>1, <1>4, <2>1
<1> QED
  BY <1>3, <1>5, <1>6 DEF n, q, ContentsAre

(* Stashing a character behind the others when a slot stays free. *)
LEMMA PutAppends ==
  ASSUME NEW b \in [Position -> 0..255], NEW rp \in Position, NEW wp \in Position,
         NEW c \in 0..255, CountOf(rp, wp) + 1 < CONSBUFSIZE
  PROVE  /\ Contents([b EXCEPT ![wp] = c], rp, Advance(wp))
              = Append(Contents(b, rp, wp), c)
         /\ Len(Contents([b EXCEPT ![wp] = c], rp, Advance(wp)))
              = Len(Contents(b, rp, wp)) + 1
<1> DEFINE b2 == [b EXCEPT ![wp] = c]
           w2 == Advance(wp)
           q  == Contents(b, rp, wp)
           r  == Contents(b2, rp, w2)
           n  == CountOf(rp, wp)
<1>0. b2 \in [Position -> 0..255] /\ w2 \in Position
  BY AdvanceType
<1>1. n \in Nat
  BY CountType
<1>2. CountOf(rp, w2) = n + 1
  BY BufSizeAssumption DEF CountOf, Advance, Position
<1>3. b2[wp] = c
  OBVIOUS
<1>4. \A k \in 1..n : b2[Slot(rp, k - 1)] = b[Slot(rp, k - 1)]
  <2> SUFFICES ASSUME NEW k \in 1..n PROVE b2[Slot(rp, k - 1)] = b[Slot(rp, k - 1)]
    OBVIOUS
  <2>1. k - 1 \in 0..n /\ k - 1 \in 0..n-1
    BY <1>1
  <2>2. Slot(rp, k - 1) \in Position /\ Slot(rp, k - 1) # wp
    BY <2>1, SlotFacts
  <2> QED
    BY <2>2
<1>5. /\ q \in Seq(0..255) /\ Len(q) = n
      /\ \A k \in 1..n : q[k] = b[Slot(rp, k - 1)]
  <2>1. ContentsAre(q, b, rp, n)
    BY ContentsSeq
  <2> QED
    BY <2>1 DEF ContentsAre
<1>6. /\ r \in Seq(0..255) /\ Len(r) = n + 1
      /\ \A k \in 1..n+1 : r[k] = b2[Slot(rp, k - 1)]
  <2> HIDE DEF b2, w2
  <2>1. ContentsAre(r, b2, rp, n + 1)
    BY <1>0, <1>2, ContentsSeq
  <2> QED
    BY <2>1 DEF ContentsAre
<1>7. Slot(rp, n) = wp
  BY SlotFacts
<1> HIDE DEF n, b2, w2, q, r
<1> DEFINE a == Append(q, c)
<1>8. /\ a \in Seq(0..255) /\ Len(a) = n + 1 /\ a[n + 1] = c
      /\ \A k \in 1..n : a[k] = q[k]
  BY <1>1, <1>5, AppendProperties
<1> HIDE DEF a
<1>9. ASSUME NEW k \in 1..n+1 PROVE r[k] = a[k]
  <2>1. CASE k = n + 1
    <3>1. k - 1 = n
      BY <1>1, <2>1
    <3> QED
      BY <1>3, <1>6, <1>7, <1>8, <2>1, <3>1
  <2>2. CASE k # n + 1
    <3>1. k \in 1..n
      BY <1>1, <2>2
    <3>2. r[k] = b2[Slot(rp, k - 1)]
      BY <1>6
    <3>3. b2[Slot(rp, k - 1)] = b[Slot(rp, k - 1)]
      BY <1>4, <3>1
    <3>4. a[k] = b[Slot(rp, k - 1)]
      BY <1>5, <1>8, <3>1
    <3> QED
      BY <3>2, <3>3, <3>4
  <2> QED
    BY <2>1, <2>2
<1>10. r = a
  BY <1>6, <1>8, <1>9, SeqEqual
<1> QED
  BY <1>5, <1>6, <1>10 DEF a, b2, w2, q, r

(* Stashing one when no slot stays free makes the positions coincide. *)
LEMMA PutOverrun ==
  ASSUME NEW b \in [Position -> 0..255], NEW rp \in Position, NEW wp \in Position,
         ~ (CountOf(rp, wp) + 1 < CONSBUFSIZE)
  PROVE  /\ CountOf(rp, wp) + 1 = CONSBUFSIZE
         /\ Advance(wp) = rp
         /\ Contents(b, rp, rp) = <<>>
<1>1. CountOf(rp, wp) + 1 = CONSBUFSIZE
  BY CountType, BufSizeAssumption
<1>2. Advance(wp) = rp
  BY <1>1, BufSizeAssumption DEF CountOf, Advance, Position
<1>3. ContentsAre(Contents(b, rp, rp), b, rp, 0)
  <2>1. CountOf(rp, rp) = 0
    BY CountType
  <2> QED
    BY <2>1, ContentsSeq
<1>4. Contents(b, rp, rp) = <<>>
  BY <1>3, EmptySeq DEF ContentsAre
<1> QED
  BY <1>1, <1>2, <1>4

(* Taking the character at the read position takes the head. *)
LEMMA TakeContents ==
  ASSUME NEW b \in [Position -> 0..255], NEW rp \in Position, NEW wp \in Position,
         rp # wp,
         NEW r2 \in Position, r2 = Advance(rp),
         NEW q, q = Contents(b, rp, wp),
         NEW r, r = Contents(b, r2, wp)
  PROVE  q # <<>> /\ b[rp] = Head(q) /\ r = Tail(q)
<1> DEFINE n == CountOf(rp, wp)
<1>1. n \in Nat \ {0} /\ n < CONSBUFSIZE
  BY CountType
<1>2. CountOf(r2, wp) = n - 1
  BY BufSizeAssumption DEF CountOf, Advance, Position
<1>3. /\ q \in Seq(0..255) /\ Len(q) = n
      /\ \A k \in 1..n : q[k] = b[Slot(rp, k - 1)]
  <2>1. ContentsAre(q, b, rp, n)
    BY ContentsSeq
  <2> QED
    BY <2>1 DEF ContentsAre
<1>4. /\ r \in Seq(0..255) /\ Len(r) = n - 1
      /\ \A k \in 1..n-1 : r[k] = b[Slot(r2, k - 1)]
  <2>1. ContentsAre(r, b, r2, n - 1)
    BY <1>2, ContentsSeq
  <2> QED
    BY <2>1 DEF ContentsAre
<1>5. Slot(rp, 0) = rp
  BY SlotFacts
<1> HIDE DEF n
<1>6. q # <<>>
  BY <1>1, <1>3
<1>7. b[rp] = Head(q)
  <2>1. 1 \in 1..n /\ 1 - 1 = 0
    BY <1>1
  <2>2. Head(q) = q[1]
    BY <1>3, <1>6
  <2> QED
    BY <1>3, <1>5, <2>1, <2>2
<1> DEFINE t == Tail(q)
<1>8. t \in Seq(0..255) /\ Len(t) = n - 1 /\ \A k \in 1..n-1 : t[k] = q[k + 1]
  BY <1>1, <1>3, <1>6, HeadTailProperties
<1> HIDE DEF t
<1>9. ASSUME NEW k \in 1..n-1 PROVE r[k] = t[k]
  <2>1. /\ k + 1 \in 1..n /\ (k + 1) - 1 = (k - 1) + 1
        /\ k - 1 \in Nat /\ (k - 1) + 1 < CONSBUFSIZE
    BY <1>1, BufSizeAssumption
  <2>2. Slot(r2, k - 1) = Slot(rp, (k - 1) + 1)
    BY <2>1, SlotAdvance
  <2> QED
    BY <1>3, <1>4, <1>8, <2>1, <2>2
<1>10. r = t
  BY <1>4, <1>8, <1>9, SeqEqual
<1> QED
  BY <1>6, <1>7, <1>10 DEF t

-----------------------------------------------------------------------------
(***************************************************************************)
(* The steps of the specification.                                         *)
(***************************************************************************)

(* Stashing what a device returned keeps the buffer's types and is a step  *)
(* of the queue, or none.                                                  *)
LEMMA StashStep ==
  ASSUME InTypeOK, NEW c \in 0..255, Stash(c), pc # "boot", pc' = pc, got' = got
  PROVE  /\ cons_buf' \in [Position -> 0..255]
         /\ rpos' \in Position
         /\ wpos' \in Position
         /\ [Queue!Next]_<<Pending, got, pc # "boot">>
<1>1. /\ cons_buf \in [Position -> 0..255] /\ rpos \in Position /\ wpos \in Position
      /\ Advance(wpos) \in Position
  BY AdvanceType DEF InTypeOK
<1>2. CASE c = 0
  <2>1. cons_buf' = cons_buf /\ rpos' = rpos /\ wpos' = wpos
    BY <1>2 DEF Stash, Skipped, ringVars
  <2> QED
    BY <1>1, <2>1 DEF Pending
<1>3. CASE c # 0
  <2>1. cons_buf' = [cons_buf EXCEPT ![wpos] = c] /\ wpos' = Advance(wpos) /\ rpos' = rpos
    BY <1>3 DEF Stash, Skipped
  <2>2. cons_buf' \in [Position -> 0..255] /\ rpos' \in Position /\ wpos' \in Position
    BY <1>1, <2>1
  <2>3. ContentsAre(Pending, cons_buf, rpos, CountOf(rpos, wpos))
    BY <1>1, ContentsSeq DEF Pending
  <2>4. Len(Pending) = CountOf(rpos, wpos)
    BY <2>3 DEF ContentsAre
  <2>5. CASE CountOf(rpos, wpos) + 1 < CONSBUFSIZE
    <3>1. Pending' = Append(Pending, c) /\ Len(Pending') = Len(Pending) + 1
      <4>1. Pending' = Contents(cons_buf', rpos, wpos')
        BY <2>1 DEF Pending
      <4>2. Pending = Contents(cons_buf, rpos, wpos)
        BY DEF Pending
      <4>3. /\ Contents([cons_buf EXCEPT ![wpos] = c], rpos, Advance(wpos))
                 = Append(Contents(cons_buf, rpos, wpos), c)
            /\ Len(Contents([cons_buf EXCEPT ![wpos] = c], rpos, Advance(wpos)))
                 = Len(Contents(cons_buf, rpos, wpos)) + 1
        <5> DEFINE Good(b, rp, wp, x) ==
                     /\ Contents([b EXCEPT ![wp] = x], rp, Advance(wp))
                          = Append(Contents(b, rp, wp), x)
                     /\ Len(Contents([b EXCEPT ![wp] = x], rp, Advance(wp)))
                          = Len(Contents(b, rp, wp)) + 1
        <5>1. \A b \in [Position -> 0..255] : \A rp, wp \in Position : \A x \in 0..255 :
                CountOf(rp, wp) + 1 < CONSBUFSIZE => Good(b, rp, wp, x)
          BY PutAppends
        <5> HIDE DEF Good
        <5>2. Good(cons_buf, rpos, wpos, c)
          BY <1>1, <2>5, <5>1, Zenon
        <5> QED
          BY <5>2 DEF Good
      <4> QED
        BY <2>1, <4>1, <4>2, <4>3, Zenon
    <3>2. c \in Queue!Char
      BY <1>3 DEF Queue!Char
    <3>3. Queue!Enqueue
      BY <2>4, <2>5, <3>1, <3>2 DEF Queue!Enqueue
    <3> QED
      BY <2>2, <3>3 DEF Queue!Next
  <2>6. CASE ~ (CountOf(rpos, wpos) + 1 < CONSBUFSIZE)
    <3>1. Pending' = <<>> /\ CountOf(rpos, wpos) + 1 = CONSBUFSIZE
      <4>1. /\ CountOf(rpos, wpos) + 1 = CONSBUFSIZE
            /\ Advance(wpos) = rpos
            /\ Contents(cons_buf', rpos, rpos) = <<>>
        BY <1>1, <2>2, <2>6, PutOverrun
      <4>2. Pending' = Contents(cons_buf', rpos', wpos')
        BY DEF Pending
      <4> QED
        BY <2>1, <4>1, <4>2
    <3>2. Queue!Overrun
      BY <2>4, <3>1 DEF Queue!Overrun
    <3> QED
      BY <2>2, <3>2 DEF Queue!Next
  <2> QED
    BY <2>5, <2>6
<1> QED
  BY <1>2, <1>3

(* The end of cons_getc takes the oldest character, or finds none. *)
LEMMA GrabStep ==
  ASSUME InTypeOK, Grab
  PROVE  /\ rpos' \in Position
         /\ got' \in 0..255
         /\ [Queue!Next]_<<Pending, got, pc # "boot">>
<1>1. /\ cons_buf \in [Position -> 0..255] /\ rpos \in Position /\ wpos \in Position
      /\ Advance(rpos) \in Position
  BY AdvanceType DEF InTypeOK
<1>2. cons_buf' = cons_buf /\ wpos' = wpos /\ pc = "grab" /\ pc' = "caller"
  BY DEF Grab, SomeWaiting
<1>3. CASE rpos # wpos
  <2>1. got' = cons_buf[rpos] /\ rpos' = Advance(rpos)
    BY <1>3 DEF Grab, SomeWaiting
  <2>2. Pending # <<>> /\ cons_buf[rpos] = Head(Pending) /\ Pending' = Tail(Pending)
    <3>1. Pending' = Contents(cons_buf, rpos', wpos) /\ rpos' \in Position
      BY <1>1, <1>2, <2>1 DEF Pending
    <3> QED
      BY <1>1, <1>3, <2>1, <3>1, TakeContents DEF Pending
  <2>3. Queue!Dequeue
    BY <1>2, <2>1, <2>2 DEF Queue!Dequeue
  <2>4. rpos' \in Position /\ got' \in 0..255
    BY <1>1, <2>1
  <2> QED
    BY <2>3, <2>4 DEF Queue!Next
<1>4. CASE rpos = wpos
  <2>1. got' = 0 /\ rpos' = rpos
    BY <1>4 DEF Grab, SomeWaiting
  <2>2. Pending' = Pending
    BY <1>2, <2>1 DEF Pending
  <2>3. Pending = <<>>
    <3>1. CountOf(rpos, wpos) = 0
      BY <1>1, <1>4, CountType
    <3>2. ContentsAre(Pending, cons_buf, rpos, 0)
      BY <1>1, <3>1, ContentsSeq DEF Pending
    <3> QED
      BY <3>2, EmptySeq DEF ContentsAre
  <2>4. Queue!NoneWaiting
    BY <1>2, <2>1, <2>2, <2>3 DEF Queue!NoneWaiting
  <2>5. rpos' \in Position /\ got' \in 0..255
    BY <1>1, <2>1
  <2> QED
    BY <2>4, <2>5 DEF Queue!Next
<1> QED
  BY <1>3, <1>4

(* A step that leaves the buffer, the result and "up" alone is no step of  *)
(* the queue.                                                              *)
LEMMA QuietStep ==
  ASSUME UNCHANGED <<ringVars, got>>, pc # "boot" <=> pc' # "boot"
  PROVE  [Queue!Next]_<<Pending, got, pc # "boot">>
BY DEF ringVars, Pending

(* What the UART hands over is -1 or a byte. *)
LEMMA SerialType ==
  ASSUME InTypeOK
  PROVE  serial_proc_data \in -1..255
BY DEF serial_proc_data, InTypeOK

(* The two polling loops. *)
LEMMA SerialPollStep ==
  ASSUME InTypeOK, SerialPoll
  PROVE  InTypeOK' /\ [Queue!Next]_<<Pending, got, pc # "boot">>
<1>1. serial_proc_data \in 0..255
  BY SerialType DEF SerialPoll
<1>2. Stash(serial_proc_data) /\ pc # "boot" /\ pc' = pc /\ got' = got
  BY DEF SerialPoll
<1>3. /\ cons_buf' \in [Position -> 0..255] /\ rpos' \in Position /\ wpos' \in Position
      /\ [Queue!Next]_<<Pending, got, pc # "boot">>
  BY <1>1, <1>2, StashStep
<1>4. KbdTypeOK'
  BY DEF SerialPoll, kbdVars, InTypeOK, KbdTypeOK
<1>5. rx' \in -1..255 /\ UNCHANGED <<serial_exists, pc, got, uart>>
  BY DEF SerialPoll
<1> QED
  BY <1>3, <1>4, <1>5 DEF InTypeOK

LEMMA KbdPollStep ==
  ASSUME InTypeOK, KbdPoll
  PROVE  InTypeOK' /\ [Queue!Next]_<<Pending, got, pc # "boot">>
<1>1. kbd_ret \in 0..255
  <2>1. kbd_ret \in -1..255
    BY RetType DEF InTypeOK
  <2>2. kbd_ret # -1
    BY DEF KbdPoll, NoData
  <2> QED
    BY <2>1, <2>2
<1>2. Stash(kbd_ret) /\ pc # "boot" /\ pc' = pc /\ got' = got
  BY DEF KbdPoll
<1>3. /\ cons_buf' \in [Position -> 0..255] /\ rpos' \in Position /\ wpos' \in Position
      /\ [Queue!Next]_<<Pending, got, pc # "boot">>
  BY <1>1, <1>2, StashStep
<1>4. KbdTypeOK'
  BY ProcType DEF KbdPoll, InTypeOK
<1>5. UNCHANGED <<serial_exists, pc, got, uart, rx>>
  BY DEF KbdPoll
<1> QED
  BY <1>3, <1>4, <1>5 DEF InTypeOK

(* An empty buffer, as the kernel's loader leaves it. *)
LEMMA EmptyBuffer ==
  /\ [i \in 0..CONSBUFSIZE-1 |-> 0] \in [Position -> 0..255]
  /\ 0 \in Position
  /\ \A b \in [Position -> 0..255] : Contents(b, 0, 0) = <<>>
<1>1. [i \in 0..CONSBUFSIZE-1 |-> 0] \in [Position -> 0..255] /\ 0 \in Position
  BY BufSizeAssumption DEF Position
<1>2. ASSUME NEW b \in [Position -> 0..255] PROVE Contents(b, 0, 0) = <<>>
  <2>1. CountOf(0, 0) = 0
    BY DEF CountOf
  <2>2. ContentsAre(Contents(b, 0, 0), b, 0, 0)
    BY <1>1, <2>1, ContentsSeq
  <2> QED
    BY <2>2, EmptySeq DEF ContentsAre
<1> QED
  BY <1>1, <1>2

LEMMA RestartStep ==
  ASSUME InTypeOK, Restart
  PROVE  InTypeOK' /\ [Queue!Next]_<<Pending, got, pc # "boot">>
<1>1. KbdTypeOK'
  BY ResetType DEF Restart, MachineReset, InTypeOK
<1>2. cons_buf' \in [Position -> 0..255] /\ rpos' = 0 /\ wpos' = 0 /\ 0 \in Position
  BY EmptyBuffer DEF Restart
<1>3. Pending' = <<>>
  BY <1>2, EmptyBuffer DEF Pending
<1>4. got' = 0 /\ pc' = "boot" /\ serial_exists' \in BOOLEAN /\ uart' = uart /\ rx' = rx
  BY DEF Restart
<1>5. Queue!Restart
  BY <1>3, <1>4 DEF Queue!Restart
<1>6. InTypeOK'
  BY <1>1, <1>2, <1>4 DEF InTypeOK
<1> QED
  BY <1>5, <1>6 DEF Queue!Next

(* Every step keeps the types and is a step of the queue, or none. *)
LEMMA NextStep ==
  ASSUME InTypeOK, [Next]_vars
  PROVE  InTypeOK' /\ [Queue!Next]_<<Pending, got, pc # "boot">>
<1>1. CASE cons_init
  <2>1. InTypeOK'
    BY <1>1 DEF cons_init, serial_init, kbdVars, ringVars, InTypeOK, KbdTypeOK
  <2>2. Queue!Boot
    BY <1>1 DEF cons_init, Queue!Boot, ringVars, Pending
  <2> QED
    BY <2>1, <2>2 DEF Queue!Next
<1>2. CASE cons_getc
  <2>1. InTypeOK'
    BY <1>2 DEF cons_getc, serial_intr, kbdVars, ringVars, InTypeOK, KbdTypeOK
  <2> QED
    BY <1>2, <2>1, QuietStep DEF cons_getc, serial_intr
<1>3. CASE SerialPoll
  BY <1>3, SerialPollStep
<1>4. CASE SerialDrained
  <2>1. InTypeOK'
    BY <1>4 DEF SerialDrained, kbdVars, ringVars, InTypeOK, KbdTypeOK
  <2> QED
    BY <1>4, <2>1, QuietStep DEF SerialDrained
<1>5. CASE KbdPoll
  BY <1>5, KbdPollStep
<1>6. CASE KbdDrained
  <2>1. KbdTypeOK'
    BY <1>6, ProcType DEF KbdDrained, InTypeOK
  <2>2. InTypeOK'
    BY <1>6, <2>1 DEF KbdDrained, ringVars, InTypeOK
  <2> QED
    BY <1>6, <2>2, QuietStep DEF KbdDrained
<1>7. CASE Grab
  <2>1. /\ rpos' \in Position /\ got' \in 0..255
        /\ [Queue!Next]_<<Pending, got, pc # "boot">>
    BY <1>7, GrabStep
  <2>2. InTypeOK'
    BY <1>7, <2>1 DEF Grab, SomeWaiting, kbdVars, InTypeOK, KbdTypeOK
  <2> QED
    BY <2>1, <2>2
<1>8. ASSUME NEW b \in SerialBytes, SerialArrive(b)
      PROVE  InTypeOK' /\ [Queue!Next]_<<Pending, got, pc # "boot">>
  <2>1. rx' \in -1..255
    BY <1>8, SerialAssumption DEF SerialArrive
  <2>2. InTypeOK'
    BY <1>8, <2>1 DEF SerialArrive, kbdVars, ringVars, InTypeOK, KbdTypeOK
  <2> QED
    BY <1>8, <2>2, QuietStep DEF SerialArrive
<1>9. CASE KbdDevice
  <2>1. KbdTypeOK'
    BY <1>9, HardwareType DEF KbdDevice, InTypeOK
  <2>2. InTypeOK'
    BY <1>9, <2>1 DEF KbdDevice, inVars, ringVars, InTypeOK
  <2> QED
    BY <1>9, <2>2, QuietStep DEF KbdDevice, inVars
<1>10. CASE Restart
  BY <1>10, RestartStep
<1>11. CASE UNCHANGED vars
  <2>1. InTypeOK'
    BY <1>11 DEF vars, kbdVars, inVars, ringVars, InTypeOK, KbdTypeOK
  <2> QED
    BY <1>11, <2>1, QuietStep DEF vars, inVars
<1> QED
  BY <1>1, <1>2, <1>3, <1>4, <1>5, <1>6, <1>7, <1>8, <1>9, <1>10, <1>11
    DEF Next, Kernel, Devices

(* The first state. *)
LEMMA InitStep == Init => InTypeOK /\ Queue!Init
<1> SUFFICES ASSUME Init PROVE InTypeOK /\ Queue!Init
  OBVIOUS
<1>1. cons_buf \in [Position -> 0..255] /\ rpos = 0 /\ wpos = 0 /\ 0 \in Position
  BY EmptyBuffer DEF Init
<1>2. Pending = <<>>
  BY <1>1, EmptyBuffer DEF Pending
<1>3. rx \in -1..255
  BY SerialAssumption DEF Init
<1>4. got = 0 /\ pc = "boot" /\ serial_exists \in BOOLEAN /\ uart \in BOOLEAN
  BY DEF Init
<1>5. KbdTypeOK
  BY KbdInitType DEF Init
<1>6. InTypeOK
  BY <1>1, <1>3, <1>4, <1>5 DEF InTypeOK
<1> QED
  BY <1>2, <1>4, <1>6 DEF Queue!Init

(* The positions stay inside cons.buf and what is stored and returned are  *)
(* bytes, so no poll and no cons_getc reaches outside the array.           *)
THEOREM InTypeCorrect == Spec => []InTypeOK
<1>1. InTypeOK /\ [Next]_vars => InTypeOK'
  BY NextStep
<1> QED
  BY <1>1, InitStep, PTL DEF Spec

(* cons_intr and cons_getc implement the first-in first-out queue.         *)
THEOREM QueueRefinement == Spec => QueueSpec
<1>1. InTypeOK /\ [Next]_vars => [Queue!Next]_<<Pending, got, pc # "boot">>
  BY NextStep
<1> QED
  BY <1>1, InitStep, InTypeCorrect, PTL DEF Spec, QueueSpec, Queue!Spec

(* The elements of a tail are elements of the sequence. *)
LEMMA NextIndex ==
  ASSUME NEW n \in Nat, NEW m, m = n - 1
  PROVE  \A k \in 1..m : k + 1 \in 1..n
OBVIOUS

(* A step of the queue never puts a 0 into it. *)
LEMMA NoZeroStep ==
  ASSUME NEW q \in Seq(0..255), NEW r, \A k \in DOMAIN q : q[k] # 0,
         \/ r = q
         \/ r = <<>>
         \/ q # <<>> /\ r = Tail(q)
         \/ \E c \in 1..255 : r = Append(q, c)
  PROVE  \A k \in DOMAIN r : r[k] # 0
<1>1. CASE r = q
  BY <1>1
<1>2. CASE q # <<>> /\ r = Tail(q)
  <2>1. Len(q) \in Nat /\ DOMAIN q = 1..Len(q)
    BY LenProperties
  <2>2. r \in Seq(0..255) /\ Len(r) = Len(q) - 1 /\ \A k \in 1..Len(r) : r[k] = q[k + 1]
    <3> DEFINE B == 0..255
    <3>1. q \in Seq(B) /\ q # <<>> /\ r = Tail(q)
      BY <1>2
    <3> HIDE DEF B
    <3>2. r \in Seq(B) /\ Len(r) = Len(q) - 1 /\ \A k \in 1..Len(r) : r[k] = q[k + 1]
      BY <3>1, HeadTailProperties
    <3> QED
      BY <3>2 DEF B
  <2>3. DOMAIN r = 1..Len(r)
    BY <2>2, LenProperties
  <2>4. \A k \in 1..Len(r) : k + 1 \in 1..Len(q)
    BY <2>1, <2>2, NextIndex, Zenon
  <2> QED
    BY <2>1, <2>2, <2>3, <2>4
<1>3. CASE r = <<>>
  <2>1. DOMAIN r = {}
    BY <1>3
  <2> QED
    BY <2>1, Zenon
<1>4. ASSUME NEW c \in 1..255, r = Append(q, c) PROVE \A k \in DOMAIN r : r[k] # 0
  BY <1>4
<1> QED
  BY <1>1, <1>2, <1>3, <1>4

(* A queued character is never 0, so cons_getc may answer 0 for "none      *)
(* waiting".                                                               *)
THEOREM NoZeroIsQueued == Spec => []NoZeroQueued
<1>1. InTypeOK => Pending \in Seq(0..255)
  BY ContentsSeq DEF InTypeOK, Pending, ContentsAre
<1>2. InTypeOK /\ Queue!Init => NoZeroQueued
  BY DEF Queue!Init, NoZeroQueued
<1>3. ASSUME InTypeOK, NoZeroQueued, [Next]_vars PROVE NoZeroQueued'
  <2>1. \/ Pending' = Pending
        \/ Pending' = <<>>
        \/ Pending # <<>> /\ Pending' = Tail(Pending)
        \/ \E c \in 1..255 : Pending' = Append(Pending, c)
    <3>1. [Queue!Next]_<<Pending, got, pc # "boot">>
      BY <1>3, NextStep
    <3> QED
      BY <3>1 DEF Queue!Next, Queue!Boot, Queue!Enqueue, Queue!Char, Queue!Overrun,
                  Queue!Dequeue, Queue!NoneWaiting, Queue!Restart
  <2>2. \A k \in DOMAIN Pending : Pending[k] # 0
    BY <1>3 DEF NoZeroQueued
  <2>3. Pending \in Seq(0..255)
    BY <1>1, <1>3
  <2> DEFINE q == Pending
             r == Pending'
  <2>4. \A k \in DOMAIN r : r[k] # 0
    <3> HIDE DEF q, r
    <3> QED
      BY <2>1, <2>2, <2>3, NoZeroStep DEF q, r
  <2> QED
    BY <2>4 DEF NoZeroQueued
<1> QED
  BY <1>2, <1>3, InitStep, InTypeCorrect, PTL DEF Spec
=============================================================================
