----------------------------- MODULE MCUsbLines -----------------------------
(* A task beside the tty layer, settings that differ in one thing or in     *)
(* several, and rates for every clock of the chip, one of them too low.     *)
EXTENDS UsbLines

CONSTANT Alice

MCTasks == {Alice}

Plain(baud) == [Standard EXCEPT !.baud = baud]

MCSettings ==
    {Plain(0), Plain(40), Plain(50), Plain(307200), Plain(921600),
     [Plain(110) EXCEPT !.parity = "even", !.size = 7],
     [Plain(2400) EXCEPT !.parity = "mark", !.stop2 = TRUE],
     [Plain(3000) EXCEPT !.parity = "space", !.size = 5],
     [Plain(115200) EXCEPT !.hupcl = FALSE],
     [Plain(3500000) EXCEPT !.flow = TRUE, !.parity = "odd", !.size = 6]}

MCRequests == {<<{DTR}, {}>>, <<{RTS}, {DTR}>>}

MCPortBytes == {{DTR, 4}}

=============================================================================
