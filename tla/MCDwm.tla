------------------------------- MODULE MCDwm -------------------------------
(***************************************************************************)
(* Instances of Dwm for TLC: what is bound in each, and which values the   *)
(* arguments take.                                                         *)
(***************************************************************************)
EXTENDS DwmProperties

Symmetry == Permutations(Client)

NoTags == {}
LastTag == {{NTags - 1}}

Windows == {"maprequest", "destroynotify"}
Clicks == {"buttonpress"}
Focusing == {"focusmon", "focusstack", "focusmaster", "swapfocus", "focussame"}
Moving == {"tagmon", "tagswapmon", "zoom"}
Viewing == {"view", "toggleview", "rotatetags", "shiftviewclients"}
Tagging == {"tag", "toggletag", "swaptag"}
Flags == {"togglefloating", "togglefullscr", "togglesticky", "propertynotify",
          "netwmfullscreen", "netwmsticky"}

BoundLists == Windows \cup Clicks \cup Focusing \cup Moving \cup {"togglefloating"}
BoundTags == Windows \cup Viewing \cup Tagging \cup {"focusstack"}
BoundFlags == Windows \cup Clicks \cup Flags \cup
    {"focusstack", "layoutkey", "stealfocus", "focusin",
     "wmhints", "netwmdesktop", "netactivewindow"}
BoundHeads == Windows \cup {"configurenotify", "focusmon", "focusstack", "tagmon",
                            "swapfocus"}
BoundMouse == Windows \cup Clicks \cup
    {"mouse", "rotatestack", "netactivewindow", "tagmon", "focusstack"}

\* The instance that shows how rotatestack loses a client.
BoundRotateOnly == Windows \cup {"rotatestack"}
=============================================================================
