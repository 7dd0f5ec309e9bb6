---------------------------- MODULE MCSafeGuess ----------------------------
EXTENDS SafeGuess

U == "update"
R == "read"
Default == [servers |-> 2, majority |-> 2, dies |-> FALSE, guess |-> TRUE, warm |-> FALSE, skews |-> {0}, ops |-> <<>>]
OneServer == [Default EXCEPT !.servers = 1, !.majority = 1, !.warm = TRUE]

\* Writers that collide, on a key they know or not; a reader beside a writer; the same without guessing; a server
\* that dies under them; and one server, where writers are notified.
Configs == {
    [Default EXCEPT !.ops = <<<<U>>, <<U>>>>],
    [Default EXCEPT !.ops = <<<<U>>, <<U>>>>, !.warm = TRUE],
    [Default EXCEPT !.ops = <<<<U>>, <<R, R>>>>],
    [Default EXCEPT !.ops = <<<<U>>, <<R, R>>>>, !.guess = FALSE],
    [Default EXCEPT !.ops = <<<<U>>, <<R>>>>, !.servers = 3, !.dies = TRUE],
    [OneServer EXCEPT !.ops = <<<<U, U>>, <<R, R>>>>, !.skews = {0, 1}],
    [OneServer EXCEPT !.ops = <<<<U>>, <<U>>, <<R>>>>]}

\* A reader that notifies the writer while two servers disagree.
NotifyConfigs == {[Default EXCEPT !.ops = <<<<U>>, <<R>>>>, !.warm = TRUE]}
=============================================================================
