----------------------------- MODULE MCSockets -----------------------------
(* Three ways to fail, one of them without a case; three codes of          *)
(* lookups, the last without a case; one option; Linux's numbers; lists of *)
(* as many buffers as fit the array, and of one more.                      *)
(* TcpSocket defines no operation, the other class has all of its own.     *)
EXTENDS Sockets

Invalid == 22
NotSupported == 95
InProgress == 115
HostDown == 112
AllErrnos == {Invalid, InProgress, HostDown}
KnownTranslated == {Invalid, InProgress, NotSupported}
System == -11
NoName == -2
Overflow == -12
AllGaiErrors == {System, NoName, Overflow}
KnownGai == {System, NoName}
TwoLists == [full |-> 2, long |-> 3]
OneOption == [so_error |-> 4]
TwoClasses == [TcpSocket |-> {}, own |-> Operations]
=============================================================================
