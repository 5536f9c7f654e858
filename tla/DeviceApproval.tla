--------------------------- MODULE DeviceApproval ---------------------------
(***************************************************************************)
(* Approval of an external device (usbguard.py, usbguard_session.py).        *)
(* USBGuard numbers devices as they appear and starts again at 1 when it is *)
(* restarted; the session service lists them and lets the user approve one  *)
(* of them.  An approval names a connection: the unique bus name of the     *)
(* running USBGuard and the number.                                         *)
(***************************************************************************)
EXTENDS Naturals, FiniteSets

CONSTANTS
    UsbDevices,     \* physical devices, each with an identity of its own
    MaxId,          \* bound on the numbers one USBGuard gives
    MaxOwner        \* bound on the restarts of USBGuard

ASSUME ApprovalConstants ==
    /\ IsFiniteSet(UsbDevices)
    /\ {MaxId, MaxOwner} \subseteq Nat \ {0}

VARIABLES
    usb,            \* USBGuard: owner, next number, number and state of each device, rules
    approval        \* one request_trust

approvalVars == <<usb, approval>>

-----------------------------------------------------------------------------

NoApproval == [pc |-> "none"]
Answers == {"COMPLETE", "REMOVED", "STALE", "FAILED", "INDETERMINATE", "DENIED"}

Connected == {d \in UsbDevices : usb.id[d] # 0}

ApprovalTypeOK ==
    /\ usb \in [owner : 1 .. MaxOwner, next : 1 .. MaxId + 1, id : [UsbDevices -> 0 .. MaxId],
                allowed : SUBSET UsbDevices, rules : SUBSET UsbDevices]
    /\ usb.allowed \subseteq Connected
    /\ approval.pc \in {"none", "listed", "checked", "applied"} \cup Answers

ApprovalInit ==
    /\ usb = [owner |-> 1, next |-> 1, id |-> [d \in UsbDevices |-> 0], allowed |-> {}, rules |-> {}]
    /\ approval = NoApproval

-----------------------------------------------------------------------------
(* USBGuard: a device it has a rule for is allowed when it appears, any      *)
(* other is blocked.                                                        *)

Connect(d) ==
    /\ usb.id[d] = 0 /\ usb.next <= MaxId
    /\ usb' = [usb EXCEPT !.id[d] = usb.next, !.next = @ + 1, !.allowed = IF d \in usb.rules THEN @ \cup {d} ELSE @]
    /\ UNCHANGED approval

Disconnect(d) ==
    /\ usb.id[d] # 0
    /\ usb' = [usb EXCEPT !.id[d] = 0, !.allowed = @ \ {d}]
    /\ UNCHANGED approval

UsbGuardRestart ==
    /\ usb.owner < MaxOwner
    /\ \E id \in [UsbDevices -> 0 .. Cardinality(Connected)] :
        /\ \A d \in UsbDevices : id[d] = 0 <=> d \notin Connected
        /\ \A d, e \in Connected : id[d] = id[e] => d = e
        /\ usb' = [usb EXCEPT !.owner = @ + 1, !.next = Cardinality(Connected) + 1, !.id = id,
                              !.allowed = Connected \cap usb.rules]
    /\ UNCHANGED approval

-----------------------------------------------------------------------------
(* Approval of a device: request_trust in a process of its own.             *)

\* The user chooses a device from the list on the screen.
ChooseDevice(d, mode) ==
    /\ approval.pc \in {"none"} \cup Answers /\ d \in Connected
    /\ approval' = [pc |-> "listed", device |-> d, owner |-> usb.owner, id |-> usb.id[d], mode |-> mode]
    /\ UNCHANGED usb

Ended(answer) == approval' = IF answer \in Answers THEN [pc |-> answer] ELSE [approval EXCEPT !.pc = answer]

\* The connection must still be listed, and blocked.
CheckDevice ==
    /\ approval.pc = "listed"
    /\ Ended(IF usb.owner # approval.owner \/ usb.id[approval.device] # approval.id THEN "REMOVED"
             ELSE IF approval.device \in usb.allowed THEN "STALE" ELSE "checked")
    /\ UNCHANGED usb

\* allow_once and always_allow name the number alone; always_allow lists the
\* devices again first.  The user may refuse or cancel, and a call that timed
\* out may have been carried out.
ApplyDevicePolicy ==
    /\ approval.pc = "checked"
    /\ LET target == {d \in Connected : usb.id[d] = approval.id}
           applied == [usb EXCEPT !.allowed = @ \cup target,
                                  !.rules = IF approval.mode = "always" THEN @ \cup target ELSE @]
       IN \/ usb' = usb /\ (Ended("DENIED") \/ Ended("INDETERMINATE") \/ Ended("FAILED"))
          \/ target # {} /\ usb' = applied /\ (Ended("applied") \/ Ended("INDETERMINATE"))

\* The device that is listed under the number, if its identity is the same.
Confirmed == {d \in Connected : usb.id[d] = approval.id /\ d = approval.device}

ConfirmDevice ==
    /\ approval.pc = "applied"
    /\ Ended(IF Confirmed = {} THEN "REMOVED"
             ELSE IF Confirmed \subseteq usb.allowed /\ (approval.mode = "always" => Confirmed \subseteq usb.rules)
             THEN "COMPLETE" ELSE "FAILED")
    /\ UNCHANGED usb

\* revoke: the rule is removed, then the device is blocked; the second call
\* may fail.
Revoke(d) ==
    /\ d \in Connected \cap usb.rules
    /\ usb' \in {[usb EXCEPT !.rules = @ \ {d}], [usb EXCEPT !.rules = @ \ {d}, !.allowed = @ \ {d}]}
    /\ UNCHANGED approval

-----------------------------------------------------------------------------

ApprovalNext ==
    \/ UsbGuardRestart \/ CheckDevice \/ ApplyDevicePolicy \/ ConfirmDevice
    \/ \E d \in UsbDevices :
        \/ Connect(d) \/ Disconnect(d) \/ Revoke(d)
        \/ ChooseDevice(d, "once") \/ ChooseDevice(d, "always")

ApprovalSpec == ApprovalInit /\ [][ApprovalNext]_approvalVars

-----------------------------------------------------------------------------

(* An approval is reported complete only when the device the user chose is   *)
(* allowed at that moment, although USBGuard is asked by number and may have *)
(* been restarted, and the device swapped, since it was listed               *)
(* (request_trust).                                                          *)
CompleteIsOfTheChosenDevice ==
    [][approval.pc # "COMPLETE" /\ approval'.pc = "COMPLETE" =>
        approval.device \in (IF approval.mode = "always" THEN usb.rules ELSE usb.allowed)]_approvalVars
=============================================================================
