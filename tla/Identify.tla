------------------------------ MODULE Identify ------------------------------
(***************************************************************************)
(* What an appliance is, from what it says of itself: the /device/0 batch  *)
(* and /oic/d as dictionaries and lists, the identity it is paired under,  *)
(* and the registry that describes it (lib/resources.py,                   *)
(* lib/registry/__init__.py, the reader in lib/probe.py).  Pure operators. *)
(* A model string is the sequence of its upper-cased words and of the      *)
(* delimiters "|", "/", "_" and "-".                                       *)
(***************************************************************************)
EXTENDS Integers, Sequences, FiniteSetsExt, SequencesExt

CONSTANTS
  BoardToken,      \* _BOARD_TOKEN_TO_KEY: word -> registry key
  ConsumerPrefix,  \* _CONSUMER_PREFIX_TO_KEY: two letters -> registry key
  OicType,         \* _OIC_TYPE_TO_KEY: OCF device type -> registry key
  Letters,         \* word -> its first two letters
  NoKey            \* no registry, or no dictionary, or no href

Delimiters == {"|", "/", "_", "-"}
Information == "/information/vs/0"
CooktopStatus == "/cooktop/status/vs/0"
Mode == "/mode/vs/0"

-----------------------------------------------------------------------------
(* The batch. *)

\* Every entry counts, the first included; a later one overrides.
Parsed(entries) ==
  LET good == {i \in DOMAIN entries : entries[i].href # NoKey /\ entries[i].rep # NoKey}
  IN  [h \in {entries[i].href : i \in good} |->
         entries[Max({i \in good : entries[i].href = h})].rep]

\* resources.get(href, {}).get(field), with what the code takes for it if absent.
Field(resources, href, field, absent) ==
  IF href \in DOMAIN resources /\ field \in DOMAIN resources[href]
  THEN resources[href][field]
  ELSE absent

-----------------------------------------------------------------------------
(* The identity.  A serial is described by what the rule for placeholders  *)
(* looks at; `text` tells two of them apart.                               *)

NoSerial == [text |-> NoKey, nothing |-> FALSE, length |-> 0, uniform |-> TRUE, hex |-> FALSE]

\* "Nothing(SVC)", or eight and more times the same hexadecimal digit.
IsPlaceholder(serial) ==
  serial.nothing \/ (serial.length >= 8 /\ serial.uniform /\ serial.hex)

\* The mutant is an identity that DHCP can change.
ReadSerialNever(resources, host, port) == <<host, port>>
ReadSerial(resources, host, port) ==
  LET serial == Field(resources, Information, "serialNum", NoSerial)
  IN  IF serial.length = 0 \/ IsPlaceholder(serial)
      THEN <<host, port>>
      ELSE <<serial.text>>

ModelOf(resources) == Field(resources, Information, "modelNum", <<>>)
DescriptionOf(resources) == Field(resources, Information, "description", <<>>)

\* /oic/d's rt: a list, one string, or something else (NoKey); never a failure.
DeviceTypes(reply) ==
  IF ~reply.content \/ reply.rt = NoKey
  THEN <<>>
  ELSE SelectSeq(reply.rt, LAMBDA t : t # "oic.wk.d")

-----------------------------------------------------------------------------
(* The registry. *)

UpTo(words, cut) ==
  LET cuts == {i \in DOMAIN words : words[i] = cut}
  IN  IF cuts = {} THEN words ELSE SubSeq(words, 1, Min(cuts) - 1)

BoardTokens(words, cut) == SelectSeq(UpTo(words, cut), LAMBDA w : w \notin Delimiters)

\* The first entry of a sequence that a table knows.
FirstKnown(seq, table) ==
  LET known == {i \in DOMAIN seq : seq[i] \in DOMAIN table}
  IN  IF known = {} THEN NoKey ELSE table[seq[Min(known)]]

BoardFamily(words, cut) ==
  LET tokens == BoardTokens(words, cut)
  IN  IF {"REF", "WATERPURIFIER"} \subseteq Range(tokens)
      THEN "water_purifier"
      ELSE FirstKnown(tokens, BoardToken)

\* The last segment between underscores whose first two letters are known.
ConsumerModel(words) ==
  LET head == UpTo(words, "/")
      starts == {i \in DOMAIN head :
                   /\ i = 1 \/ head[i - 1] = "_"
                   /\ head[i] \notin Delimiters
                   /\ Letters[head[i]] \in DOMAIN ConsumerPrefix}
  IN  IF starts = {} THEN NoKey ELSE ConsumerPrefix[Letters[head[Max(starts)]]]

OrElse(key, other) == IF key = NoKey THEN other ELSE key

TokenKey(resources) ==
  OrElse(BoardFamily(ModelOf(resources), "|"),
    OrElse(BoardFamily(DescriptionOf(resources), "/"),
           ConsumerModel(DescriptionOf(resources))))

CooktopKeys == {"induction_cooktop", "cooktop"}

HasBurnerOptions(resources) ==
  "OperationState" \in Field(resources, Mode, "options", {})

\* Two registries share a name: the resources decide, then the board's word.
CooktopSurface(key, resources, tokenKey) ==
  IF key \notin CooktopKeys THEN key
  ELSE IF CooktopStatus \in DOMAIN resources THEN "induction_cooktop"
  ELSE IF HasBurnerOptions(resources) THEN "cooktop"
  ELSE IF tokenKey \in CooktopKeys THEN tokenKey
  ELSE key

Resolve(resources, types) ==
  LET token == TokenKey(resources)
  IN  CooktopSurface(OrElse(FirstKnown(types, OicType), token), resources, token)
=============================================================================
