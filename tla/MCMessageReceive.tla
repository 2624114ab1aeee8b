-------------------------- MODULE MCMessageReceive --------------------------
(* MessageReceive on small instances: a text with two <enc> children whose     *)
(* first child may be undecodable, a newsletter message, an unavailable        *)
(* message, one without any child the client knows, a newsletter message        *)
(* without a plaintext, a stanza that cannot be parsed, one with a child of an  *)
(* unknown type and one of an unknown version, and two messages with one child  *)
(* that are handled at the same time.                                          *)
EXTENDS MessageReceive, TLC

CONSTANTS text, news, gone, void, blank, bad, odd, note, memo

MCEncs == [m \in Messages |-> CASE m \in {text, odd} -> 2 [] m \in {note, memo} -> 1 [] OTHER -> 0]
MCUndecodable == {<<text, 0, 1>>, <<blank, 0, 1>>}
MCBadPadding == {<<text, 1, 1>>}
MCUnknownType == {<<odd, 0, 1>>}
MCUnknownVersion == {<<odd, 0, 2>>}
MCInboxes == {{text}, {news, gone}, {gone, void}, {blank, bad}, {odd}, {note, memo}}
\* A delayed request to the phone is made only without SynchronousAck.
AllConfigs == [sync : BOOLEAN, buffer : BOOLEAN, rerequest : {FALSE}]
                 \cup {[sync |-> FALSE, buffer |-> FALSE, rerequest |-> TRUE]}
Symmetric == Permutations(Handlers)
=============================================================================
