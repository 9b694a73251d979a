------------------------------ MODULE MCShell ------------------------------
(* One line of every kind.  A tick of the model is 100 of the program.      *)
EXTENDS Shell

Line(c, s, n, a) == [cmd |-> c, sub |-> s, argc |-> n, arg |-> a]

MCRequests == 0 .. 6

MCLines ==
    {Line("ls", None, 1, None), Line("ping", "localhost", 2, None),
     Line("ping", "example.org", 2, None), Line("doom", None, 1, None),
     Line("wifi", "connect", 2, None), Line("bt", "on", 2, None),
     Line("orangepkg", "install", 2, None), Line("orangepkg", "install", 3, "gcc"),
     Line("usb", None, 1, None), Line("usb", "scan", 2, None),
     Line("usb", "info", 3, 258), Line("usb", "info", 3, 4),
     Line("security", "trust", 3, "/tmp"), Line("stat", "/tmp", 2, None),
     Line("du", None, 1, None), Line("sort", "/tmp", 2, None),
     Line("sleep", "time", 2, 100), Line("reboot", None, 1, None),
     Line("exit", None, 1, None)}
=============================================================================
