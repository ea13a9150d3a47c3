---------------------------- MODULE MCUsbControl ----------------------------
(* Instances of UsbControl for TLC: packets of 2 units, a buffer of 4.      *)
EXTENDS UsbControl

R(dir, len, kind, size, a) ==
  [dir |-> dir, len |-> len, kind |-> kind, size |-> size, addr |-> a]

GetShort == R("IN", 2, "reply", 1, 0)    \* one short packet
GetExact == R("IN", 4, "reply", 4, 0)    \* two full packets, no ZLP
GetZlp   == R("IN", 4, "reply", 2, 0)    \* a full packet, then the forced ZLP
GetLong  == R("IN", 5, "reply", 7, 0)    \* three packets, cut to the host's length
SetOne   == R("OUT", 0, "address", 0, 1)
SetTwo   == R("OUT", 0, "address", 0, 2)
Command  == R("OUT", 0, "accept", 0, 0)
Send     == R("OUT", 3, "accept", 0, 0)  \* two OUT packets
SendBig  == R("OUT", 5, "accept", 0, 0)  \* more than the buffer holds
BadGet   == R("IN", 2, "refuse", 0, 0)
BadSet   == R("OUT", 0, "refuse", 0, 0)
NoSuch   == R("OUT", 0, "unset", 0, 0)
NoStatus == R("IN", 2, "stall_ack", 0, 0)

Early == {GetShort, GetExact, SetOne}
All == Early \cup {GetZlp, GetLong, Command, Send, SetTwo, SendBig, BadGet, BadSet, NoSuch, NoStatus}

Few == {GetExact, SetOne, Send}

Liberal == {"long_data", "serial"}
Hasty == {"abandon"}
Anything == {"abandon", "reset", "readdress", "late_irq"}

\* The patient host here is the one the theorems of UsbPatientProofs assume.
ASSUME PatientAssumption == Allowed = Liberal => Patient
=============================================================================
