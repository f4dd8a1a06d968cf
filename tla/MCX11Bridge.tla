----------------------------- MODULE MCX11Bridge -----------------------------
EXTENDS X11Bridge

\* A window that asks with two properties at a time, and another one.
TwoWindows ==
    {<<<<"w1", "p1">>, t>> : t \in Target}
        \cup {<<<<"w1", "p2">>, "image/png">>, <<<<"w2", "p1">>, "image/png">>}
=============================================================================
