------------------------------- MODULE Encodings -------------------------------
(***************************************************************************)
(* The payload of a JWT as src/auth.rs decodes it, and the times of the    *)
(* service's JSON as src/timeutil.rs reads and writes them.                *)
(***************************************************************************)
EXTENDS Integers, Sequences

(* Characters, by their place in decode_b64's TABLE: 62 is "+", 63 is "/". *)
Pad == -1
Dash == -2
Underscore == -3
Stray == -4  \* any other character

(* parse_exp_from_payload: "-" and "_" are replaced, "=" fills up to four. *)
Normalize(chars) ==
  LET std == [i \in DOMAIN chars |->
               CASE chars[i] = Dash -> 62 [] chars[i] = Underscore -> 63 [] OTHER -> chars[i]]
  IN std \o [i \in 1..((4 - (Len(chars) % 4)) % 4) |-> Pad]

(* decode_b64, on bytes of eight bits: four characters are three bytes,    *)
(* fewer where there is padding.                                           *)
Val(c) == IF c >= 0 THEN c ELSE 0
Byte(n) == n % 256

GroupLowBits(b, c) == Byte(b * 16) + c  \* mutant: the wrong bits of the third character
GroupMiddle(b, c) == Byte(b * 16) + c \div 4

Group(g) ==
  <<Byte(Val(g[1]) * 4) + Val(g[2]) \div 16>>
  \o (IF g[3] # Pad THEN <<GroupMiddle(Val(g[2]), Val(g[3]))>> ELSE <<>>)
  \o (IF g[4] # Pad THEN <<Byte(Val(g[3]) * 64) + Val(g[4])>> ELSE <<>>)

DecodeB64(chars) ==
  LET groups[n \in 0..Len(chars) \div 4] ==
        IF n = 0 THEN <<>> ELSE groups[n - 1] \o Group(SubSeq(chars, 4 * n - 3, 4 * n))
  IN groups[Len(chars) \div 4]

-----------------------------------------------------------------------------
(* Times: null, an empty string, the zero time of the service, or an hour  *)
(* and what follows it.                                                    *)
OffsetOf == [s \in {"Z", "+00:00", "+01:00", "-01:00"} |->
  CASE s \in {"Z", "+00:00"} -> 0 [] s = "+01:00" -> 1 [] s = "-01:00" -> -1]

TimeSuffixes == {"", "ZZ", "garbage"} \cup DOMAIN OffsetOf
RawTimes(hours) ==
  [form : {"null", "empty", "zero"}]
  \cup [form : {"time"}, hour : hours, suffix : TimeSuffixes]

(* OffsetDateTime::parse: none or one.                                     *)
Rfc3339(raw) ==
  {[hour |-> raw.hour, offset |-> OffsetOf[s]] : s \in {raw.suffix} \cap DOMAIN OffsetOf}

(* parse_rfc3339: when that fails, every "Z" at the end becomes "+00:00".  *)
ParseRfc3339(raw) ==
  IF Rfc3339(raw) # {} THEN Rfc3339(raw)
  ELSE IF raw.suffix \in {"", "ZZ"} THEN Rfc3339([raw EXCEPT !.suffix = "+00:00"])
  ELSE {}

(* deserialize_opt_time, and serialize_opt_time of an optional time.       *)
ReadTime(raw) ==
  IF raw.form # "time" THEN [valid |-> TRUE, time |-> {}]
  ELSE [valid |-> ParseRfc3339(raw) # {}, time |-> ParseRfc3339(raw)]

WriteLocalTime(time) ==  \* mutant: the hour is written as if it were UTC
  IF time = {} THEN [form |-> "null"]
  ELSE [form |-> "time", hour |-> (CHOOSE t \in time : TRUE).hour, suffix |-> "Z"]

WriteTime(time) ==
  IF time = {} THEN [form |-> "null"]
  ELSE LET t == CHOOSE t \in time : TRUE
       IN [form |-> "time", hour |-> t.hour,
           suffix |-> CHOOSE s \in DOMAIN OffsetOf \ {"+00:00"} : OffsetOf[s] = t.offset]
=============================================================================
