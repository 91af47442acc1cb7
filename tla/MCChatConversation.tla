------------------------- MODULE MCChatConversation -------------------------
(* Model checking of ChatConversation: one device, of the first account.    *)
EXTENDS ChatConversation, TLC

CONSTANTS a, b

MCClientUser == [k \in Clients |-> a]

\* What requests ask for, in each run.
DeviceOps == [k \in Kinds |-> {"send", "revoke", "sweep"}]
RequestOps == [k \in Kinds |->
    IF k = "GROUP"
    THEN {"send", "server", "edit", "revoke", "react", "burn", "sweep", "pin",
          "silence", "remove", "muteAll"}
    ELSE IF k = "DIRECT" THEN {"send", "read", "clear", "block", "sweep"}
    ELSE {"send", "read", "delivered", "clear"}]

\* Ids of rows and workers are interchangeable.
Symmetry == Permutations(MsgIds) \cup Permutations(Workers)
=============================================================================
