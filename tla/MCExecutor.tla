----------------------------- MODULE MCExecutor -----------------------------
(* Instances of MemberActionExecutor with two or three items, the last one *)
(* without an access hash, and the exceptions that the tests, the          *)
(* documents and the token lists name.                                     *)
EXTENDS MemberActionExecutor

MCTwo == 1..2
MCThree == 1..3
MCNone == {}
MCLastOfThree == {3}

Class(lists) == [names |-> lists, flood_wait |-> FALSE, wait |-> 0, os_error |-> FALSE]

FloodWait(seconds) == [Class({"RATE_LIMIT"}) EXCEPT !.wait = seconds]
FloodWaitText == [Class({}) EXCEPT !.flood_wait = TRUE]
PeerFlood == Class({"RATE_LIMIT_INDEFINITE"})
UserPrivacyRestricted == Class({"PRIVACY"})
UserAlreadyParticipant == Class({"ALREADY_MEMBER"})
ParticipantIdInvalid == Class({"NOT_MEMBER", "INVALID_USER"})
UserNotMutualContact == Class({"NOT_ELIGIBLE"})
PeerIdInvalid == Class({"INVALID_USER"})
ChatAdminRequired == Class({"PERMISSION"})
AuthKeyUnregistered == Class({"AUTH"})
AuthKeyInvalid == Class({"AUTH", "INVALID_USER"})
ConnectionReset == [Class({}) EXCEPT !.os_error = TRUE]
RpcMcgetFail == Class({"SERVER_TRANSIENT"})
SomethingElse == Class({})

MCRestrictions == {FloodWait(0), FloodWaitText, PeerFlood, ChatAdminRequired,
                   AuthKeyUnregistered, AuthKeyInvalid}

MCErrors == MCRestrictions \cup
    {FloodWait(1), FloodWait(2), UserPrivacyRestricted, UserAlreadyParticipant,
     ParticipantIdInvalid, UserNotMutualContact, PeerIdInvalid, ConnectionReset,
     RpcMcgetFail, SomethingElse}
=============================================================================
