-------------------------- MODULE MCRequestWaiters --------------------------
(* Small instances of RequestWaiters for TLC. *)
EXTENDS RequestWaiters, TLC

CONSTANTS iq, msg, view

OneOfEach == iq :> "iq" @@ msg :> "message" @@ view :> "view"
OneOfEachIds == iq :> 1 @@ msg :> 2 @@ view :> 3
Message == msg :> "message"
MessageId == msg :> 1
=============================================================================
