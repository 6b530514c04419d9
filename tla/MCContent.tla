----------------------------- MODULE MCContent -----------------------------
(* Instance of Content for TLC: contents chosen so that every branch of the   *)
(* handler is taken, with up to three attachments of different fates.         *)
EXTENDS Content

Image == [huge |-> FALSE, type |-> "image"]
Video == [huge |-> FALSE, type |-> "video"]
File == [huge |-> FALSE, type |-> "file"]
HugeFile == [huge |-> TRUE, type |-> "file"]

Message(form, target, outgoing, text, viewOnce, pointers) ==
    [form |-> form, target |-> target, outgoing |-> outgoing, text |-> text,
     viewOnce |-> viewOnce, pointers |-> pointers]
Bare(form) == Message(form, "direct", FALSE, FALSE, FALSE, <<>>)

MCContents ==
    {Bare("typing"), Bare("receipt"), Bare("undecryptable"), Bare("other"), Bare("data"),
     Message("data", "malformed", FALSE, TRUE, FALSE, <<>>),
     Message("data", "direct", FALSE, TRUE, TRUE, <<Image>>),
     Message("data", "group", FALSE, TRUE, FALSE, <<File>>),
     Message("data", "direct", TRUE, FALSE, FALSE, <<Image>>),
     Message("sent", "group", FALSE, TRUE, FALSE, <<File>>),
     Message("sentEdit", "direct", FALSE, TRUE, FALSE, <<>>),
     Message("edit", "direct", FALSE, FALSE, FALSE, <<Image, Image>>),
     Message("data", "direct", FALSE, TRUE, FALSE, <<Video, Video>>),
     Message("data", "direct", FALSE, FALSE, FALSE, <<HugeFile, Image, File>>)}
=============================================================================
