----------------------------- MODULE MCCommands -----------------------------
(***************************************************************************)
(* Small images and lines for Commands: names of at most two characters,   *)
(* blocks of two bytes, at most five directory entries.                    *)
(***************************************************************************)
EXTENDS Commands

D(name, type, inode) == [name |-> name, filetype |-> type, inode_num |-> inode]
Inode(len, blocks) == [len |-> len, data_block_num |-> blocks]

\* "ab" fills its field; with "r" the directory is full.
Entries == <<D(<<".">>, DirType, 0), D(<<"c">>, FileType, 1),
             D(<<"l">>, FileType, 2), D(<<"a", "b">>, FileType, 3)>>
Rtc == D(<<"r">>, RtcType, 0)

\* Where the text file lies; block 9 does not exist.
Layouts == {<<4, 5, 6>>, <<6, 4, 5>>, <<4, 9, 6>>}

\* Inode 0 is not in use, or is that of the text file, whose first bytes then
\* look like the name "b" behind the directory.
MCImages ==
  {[dentries |-> IF full THEN Append(Entries, Rtc) ELSE Entries,
    behind |-> <<>>,
    inodes |-> <<Inode(0, <<0>>), Inode(3, <<0, last>>), Inode(4, <<2, 3>>),
                 Inode(len, blocks)>>,
    data_block_ct |-> 7,
    elf |-> (0 :> "cat") @@ (2 :> "ls")] :
      full \in BOOLEAN, len \in 0 .. 5, blocks \in Layouts, last \in {1, 9}}
  \cup
  {[dentries |-> Append([Entries EXCEPT ![4].inode_num = 0], Rtc),
    behind |-> <<"b">>,
    inodes |-> <<Inode(len, blocks), Inode(3, <<0, 1>>), Inode(4, <<2, 3>>)>>,
    data_block_ct |-> 7,
    elf |-> (0 :> "cat") @@ (2 :> "ls")] :
      len \in 1 .. 5, blocks \in Layouts}

\* One to three fields, blanks before, between and after them.
Words == {<<"c">>, <<"l">>, <<"a", "b">>, <<"a", "b", "x">>, <<".">>, <<"b">>, <<"r">>}
MCChars == {NUL, TypeByte, Space, ".", "?", "a", "b", "c", "l", "r", "x"}
Blanks == {<<>>, <<Space>>, <<Space, Space>>}
MCLines ==
  {w \o s \o v \o t : w \in Words \cup {<<>>}, s \in Blanks \ {<<>>},
                      v \in Words \cup {<<>>}, t \in {<<>>, <<Space>>, <<Space, "b">>}}
  \cup Words

=============================================================================
