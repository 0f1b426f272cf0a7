---------------------------- MODULE MCInteraction ---------------------------
EXTENDS Interaction

Node(kind, name, up, at) ==
    [kind |-> kind, name |-> name, up |-> up, at |-> at, hover |-> FALSE,
     delay |-> 0, serial |-> 0]
Popover(up, at, delay, serial) ==
    [Node("popover", "p", up, at) EXCEPT !.delay = delay, !.serial = serial]
Button(label, up, at) == [Node("button", label, up, at) EXCEPT !.hover = TRUE]
Column == Node("column", "w", 0, 0)

\* A region that asks for focus, as part of a page, as a component of a page
\* and alone; the component kept beside a dialog or a canvas; a dialog in the
\* anchor of a popover.
Page == <<Column, Popover(1, 0, 1, 1), Button("a", 2, 0), Button("c", 2, 1),
          Node("canvas", "v", 1, 1)>>
Region == <<Popover(0, 0, 0, 2), Button("a", 1, 0)>>
Component == <<Column, Node("boundary", 1, 1, 0), Popover(2, 0, 1, 1),
               Button("a", 3, 0), Button("c", 3, 1)>>
BesideDialog == <<Column, Node("retain", 1, 1, 0), Node("dialog", "d", 1, 1),
                  Button("b", 3, 0)>>
BesideCanvas == <<Column, Node("retain", 1, 1, 0), Node("canvas", "v", 1, 1)>>
AroundDialog == <<Popover(0, 0, 0, 0), Node("dialog", "d", 1, 0),
                  Button("b", 2, 0), Node("button", "c", 1, 1)>>
Rendered == {Page, Region, Component, BesideDialog, BesideCanvas, AroundDialog}
=============================================================================
