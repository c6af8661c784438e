----------------------------- MODULE MCDisplay -----------------------------
(* Display with the constants of the model checker's runs.                  *)
EXTENDS DisplayProps

Name(c) == [by |-> "name", of |-> c]
Index(n) == [by |-> "index", of |-> n]

Plain == [conf |-> Nothing, include |-> Nothing]

\* Files that set what the agent sets: the socket, and a connector.
Willful == [conf |-> [idle |-> "no"], include |-> [ipc |-> "other", drmConnector |-> 1]]

\* Boxes with a terminal of their own, one started with an index that no screen
\* has, one with its screen named; a box without a terminal; a desktop.
Boxes == {
    [desktop |-> FALSE, screen |-> Index(5), mode |-> "", tty |-> "own", files |-> Plain],
    [desktop |-> FALSE, screen |-> Name(1), mode |-> "1080p", tty |-> "own", files |-> Willful],
    [desktop |-> FALSE, screen |-> Name(1), mode |-> "", tty |-> "none", files |-> Plain],
    [desktop |-> TRUE,  screen |-> Name(1), mode |-> "1080p", tty |-> "none", files |-> Plain]}

OverSsh == {[desktop |-> FALSE, screen |-> Name(1), mode |-> "", tty |-> "shared", files |-> Plain]}

ByIndex == {[desktop |-> FALSE, screen |-> Index(0), mode |-> "", tty |-> "own", files |-> Plain]}

\* One pinned, one on no particular connector and not started at boot, and one
\* that Validate refuses.
Sent == {
    [Detect(FALSE) EXCEPT !.connector = 2],
    [Detect(FALSE) EXCEPT !.autostart = FALSE],
    [Detect(FALSE) EXCEPT !.api = "vulkan"]}
=============================================================================
