----------------------------- MODULE MCPairing ------------------------------
(* Small instances of Pairing: a unit with a serial, one whose board reports *)
(* a placeholder, a box that completes handshakes and says nothing.  Tables, *)
(* ports and bases are those of the code, cut to what these three exercise.  *)
EXTENDS Pairing, TLC

\* Entries of the tables of lib/registry.
Boards == ("RAC" :> "airconditioner") @@ ("REF" :> "refrigerator")
  @@ ("WATERPURIFIER" :> "water_purifier") @@ ("COOKTOP" :> "induction_cooktop")
Consumers == ("WA" :> "washer") @@ ("WF" :> "washer") @@ ("DV" :> "dryer")
OicTypes == ("oic.d.airconditioner" :> "airconditioner") @@ ("oic.d.cooktop" :> "cooktop")
TwoLetters == ("TP2X" :> "TP") @@ ("RAC" :> "RA") @@ ("20K" :> "20") @@ ("WA80F" :> "WA")
  @@ ("REF" :> "RE") @@ ("COOKTOP" :> "CO") @@ ("DVE50" :> "DV") @@ ("8600" :> "86")
  @@ ("WATERPURIFIER" :> "WA")

Serial(t) == [text |-> t, nothing |-> FALSE, length |-> 15, uniform |-> FALSE, hex |-> FALSE]
Flash == [text |-> "F", nothing |-> FALSE, length |-> 15, uniform |-> TRUE, hex |-> TRUE]

Info(serial, model, description) ==
  ("serialNum" :> serial) @@ ("modelNum" :> model) @@ ("description" :> description)
Entry(href, rep) == [href |-> href, rep |-> rep]

Open(p) == [seen |-> [q \in Ports |-> q = p], dtls |-> [q \in Ports |-> "yes"],
            serves |-> [q \in Ports |-> IF q = p THEN "appliance" ELSE "nothing"],
            stale |-> {0}]
Mute(p) == [Open(p) EXCEPT !.serves[p] = "mute"]

ViewSymmetry == Permutations(Views)

PreferredPorts == <<49154, 49155>>
Links == ("ac" :> Open(49154)) @@ ("washer" :> Open(49152)) @@ ("box" :> Mute(49155))
Batches ==
     ("ac" :> <<Entry(NoKey, <<>>),
                Entry(Information, Info(Serial("S1"), <<"TP2X", "_", "RAC", "_", "20K">>, <<>>))>>)
  @@ ("washer" :> <<Entry(Information, Info(Flash, <<>>, <<"20K", "_", "WA80F", "/", "RAC">>))>>)
  @@ ("box" :> <<>>)
OicReplies ==
     ("ac" :> [content |-> TRUE, rt |-> <<"oic.wk.d", "oic.d.airconditioner">>])
  @@ ("washer" :> [content |-> FALSE, rt |-> NoKey]) @@ ("box" :> [content |-> FALSE, rt |-> NoKey])
\* The search goes from the lowest address up: which unit comes first is fixed.
StartedInit == Init /\ at["ac"] < at["washer"]
StartedSpec == StartedInit /\ [][Next]_vars
=============================================================================
