------------------------------- MODULE MCUsb -------------------------------
(***************************************************************************)
(* Packet lengths around every boundary that the code tests: multiples of  *)
(* 64 and of 0x200, the pieces of 4096 and 0x4000 bytes, the longest       *)
(* packets (0x8000 bytes of data, 9 of header and checksum) and the reply  *)
(* buffer.  Opening, writing and reading share nothing but the handle, so  *)
(* that a behaviour is of one of them.                                     *)
(***************************************************************************)
EXTENDS UsbSend, UsbRead, UsbOpen

VARIABLE side   \* which of the three a behaviour is about

UsbVars == <<vars, readVars, openVars, side>>

UsbInit ==
    /\ Init /\ ReadInit /\ OpenInit /\ side \in {"send", "read", "open"}
    /\ side # "read" => reader = "tf_io"
    /\ side # "open" => openVars = <<"libusb", "2.4", "closed", <<>>, -1, Nowhere, {}>>

UsbNext ==
    /\ UNCHANGED side
    /\ \/ side = "send" /\ Next /\ UNCHANGED <<readVars, openVars>>
       \/ side = "read" /\ ReadNext /\ UNCHANGED <<vars, openVars>>
       \/ side = "open" /\ OpenNext /\ UNCHANGED <<vars, readVars>>

UsbSpec == UsbInit /\ [][UsbNext]_UsbVars

MCIoSizes == 8..140 \cup 32760..32780 \cup 65520..65535
MCFwSizes == 9..12 \cup 505..520 \cup 1020..1030 \cup 15870..15880
                \cup 16380..16390 \cup 16890..16900 \cup 32760..32777
MCShorts == {0, 1000}

\* Less than a header; the shortest of tf_fwio.c; one piece, one and two bytes
\* more, eight pieces, and the whole buffer.
MCWires == {7, 9, 4096, 4097, 4098, 32768, 32777}

\* With these, packets of both layers are whole, cut or too long: 4097 is that
\* of 4098 bytes in tf_io.c, 0 and 4088 are those of 9 and 4097 in tf_fwio.c.
MCLens == {0, 4088, 4097}

\* Up to three busses of up to two devices.
MCTopologies == BoundedSeq(BoundedSeq(BOOLEAN, 2), 3)
MCKernels == {"2.4", "2.6.0", "2.6.11"}

SmallIoSizes == 8..140
=============================================================================
