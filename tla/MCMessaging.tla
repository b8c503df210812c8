----------------------------- MODULE MCMessaging -----------------------------
(* Three accounts, one of two devices.  Two that have one device each write to *)
(* each other, first directly and then in a group or the other way round; the  *)
(* third writes to one of them and so to its own second device.  Ids start     *)
(* where they need a second byte; one device has no keys left; the bytes of a  *)
(* text look like padding.                                                     *)
EXTENDS Messaging, WAProto

MCEncode(message) == encode(Tables, "Message", message)
MCDecode(bytes) == decode(Tables, "Message", bytes)

Phone(user) == User(user, S_WHATSAPP_NET)
Laptop(user) == [Phone(user) EXCEPT !.device = 3]
GroupJid == User("g", GROUP_SERVER)

MCDevices == {Phone("a"), Phone("b"), Laptop("b"), Phone("c")}
MCMembers == {Phone("a"), Phone("c")}
MCStocked == [d \in MCDevices |-> IF d = Laptop("b") THEN 0 ELSE 1]
MCMaxUploads == [d \in MCDevices |-> IF d = Laptop("b") THEN 1 ELSE 0]

MCTexts ==
  {[id |-> "M1", author |-> Phone("a"), to |-> Phone("c"), text |-> <<2, 2>>, random |-> 0,
    message |-> [conversation |-> <<2, 2>>]],
   [id |-> "M2", author |-> Phone("c"), to |-> GroupJid, text |-> <<1>>, random |-> 31,
    message |-> [ephemeralMessage |-> [message |-> [viewOnceMessageV2 |->
                  [message |-> [extendedTextMessage |-> [text |-> <<1>>]]]]]]],
   [id |-> "M3", author |-> Phone("b"), to |-> Phone("a"), text |-> <<16>>, random |-> 15,
    message |-> [documentWithCaptionMessage |-> [message |-> [conversation |-> <<16>>]],
                 senderKeyDistributionMessage |-> <<3>>]]}

\* The second account is one of the other domain.
MCLidDevices == {Phone("a"), User("b", "lid")}
MCLidStocked == [d \in MCLidDevices |-> 1]
MCLidMaxUploads == [d \in MCLidDevices |-> 0]
MCLidTexts == {[id |-> "M1", author |-> Phone("a"), to |-> User("b", "lid"), text |-> <<1>>, random |-> 0,
                message |-> [conversation |-> <<1>>]]}
=============================================================================
