------------------------------ MODULE Registry ------------------------------
(***************************************************************************)
(* How a resource of an appliance becomes a capability: Spec and Registry  *)
(* (lib/registry/base.py), the reading and the pushing of a dump, and the  *)
(* folding of a write into it (lib/appliance/device.py).  Pure operators.  *)
(*                                                                         *)
(* A dump maps hrefs to representations, a representation maps fields to   *)
(* values.  Two fields are lists: "items" of representations with an id,   *)
(* "options" of <<name, value>> for the token name_value.                  *)
(***************************************************************************)
EXTENDS Integers, Sequences, FiniteSetsExt, SequencesExt, TLC

CONSTANTS
  None,            \* nothing: no value, no spec, no write
  Refused,         \* what the writer raises for a value the unit does not list
  Specs,           \* a registry: its Specs in order
  Exists(_, _),    \* spec, dump: the presence gate
  Reads(_, _),     \* spec, dump: the reader on the spec's representation
  Entry(_, _),     \* spec, dump: the options it wants for its capability, or None
  Payload(_, _, _),\* spec, value, representation: the body, None, or Refused
  Meets(_, _, _, _)\* spec, reading, value, representation: it was met

ASSUME SpecsAssumption == Specs \in Seq(ToSet(Specs))

\* resources.get(href) or {}, and rep.get(field).
Rep(dump, href) == IF href \in DOMAIN dump THEN dump[href] ELSE <<>>
Field(rep, field) == IF field \in DOMAIN rep THEN rep[field] ELSE None

-----------------------------------------------------------------------------
(* Spec and Registry. *)

Writable(s) == s.write # None

\* A resource that is empty or missing supports nothing.
Applies(s, dump) == Rep(dump, s.href) # <<>> /\ Exists(s, dump)

Declared == {Specs[i].capability : i \in DOMAIN Specs}
Applying(dump) == {i \in DOMAIN Specs : Applies(Specs[i], dump)}

\* Registry.capabilities: the set, and the order they are given in.
Wanted(dump) == {Specs[i].capability : i \in Applying(dump)}
Place(c, dump) == Min({i \in Applying(dump) : Specs[i].capability = c})

\* Registry.capability_options: a later spec replaces what an earlier one wants.
OptionsOf(dump) ==
  LET giving == {i \in Applying(dump) : Entry(Specs[i], dump) # None}
  IN  [c \in {Specs[i].capability : i \in giving} |->
         Entry(Specs[Max({i \in giving : Specs[i].capability = c})], dump)]

\* Registry.spec_for: the first that applies, or else the first declared.
DeclaredFor(c) == Min({i \in DOMAIN Specs : Specs[i].capability = c})
SpecFor(c, dump) ==
  IF c \in Wanted(dump) THEN Specs[Place(c, dump)] ELSE Specs[DeclaredFor(c)]

-----------------------------------------------------------------------------
(* Folding a write into what is cached. *)

\* dict.update, and setting one key.
Updated(old, new) ==
  [f \in DOMAIN old \cup DOMAIN new |-> IF f \in DOMAIN new THEN new[f] ELSE old[f]]
Stored(dump, href, rep) ==
  [h \in DOMAIN dump \cup {href} |-> IF h = href THEN rep ELSE dump[h]]

Lists == {"items", "options"}

\* An item goes by its id, a token by its name; a patch of an item changes the
\* fields it has, a token is replaced.
KeyOf(list, e) == IF list = "items" THEN Field(e, "id") ELSE e[1]
Joined(list, e, patch) == IF list = "items" THEN Updated(e, patch) ELSE patch

\* Each patch joins the first entry with its key, or becomes an entry.
Merged(list, entries, patch) ==
  LET same == {i \in DOMAIN entries : KeyOf(list, entries[i]) = KeyOf(list, patch)}
  IN  IF same = {} THEN Append(entries, patch)
      ELSE [entries EXCEPT ![Min(same)] = Joined(list, @, patch)]

Folded(list, cached, written) ==
  LET merged[n \in 0..Len(written)] ==
        IF n = 0 THEN cached ELSE Merged(list, merged[n - 1], written[n])
  IN  merged[Len(written)]

\* The mutant is the dict.update it must not be.
FoldByUpdate(cached, body) == Updated(cached, body)
FoldWrite(cached, body) ==
  [f \in DOMAIN cached \cup DOMAIN body |->
     IF f \notin DOMAIN body THEN cached[f]
     ELSE IF f \in Lists \cap DOMAIN cached THEN Folded(f, cached[f], body[f])
     ELSE body[f]]

-----------------------------------------------------------------------------
(* Taking a notification. *)

\* The alarms resource says {} when there is none; elsewhere a field that is
\* not mentioned has not changed.
Alarms == "/alarms/vs/0"
Take(cached, href, rep) == IF href = Alarms THEN rep ELSE Updated(cached, rep)

Pushed(dump, href, rep) == Stored(dump, href, Take(Rep(dump, href), href, rep))
=============================================================================
