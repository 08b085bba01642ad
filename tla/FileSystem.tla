----------------------------- MODULE FileSystem -----------------------------
(***************************************************************************)
(* The read-only file system image and the functions that read it          *)
(* (filesys.c, with the string functions of lib.c), as operators on an     *)
(* image.  A name in memory is a sequence of characters that ends with NUL *)
(* only if it is shorter than the field that holds it.                     *)
(***************************************************************************)
EXTENDS Integers, Sequences, FiniteSetsExt, SequencesExt

CONSTANTS
  Chars,                 \* the characters of names, NUL among them
  FILENAME_LEN,          \* 32
  NUM_DENTRIES_BOOT,     \* 63
  EXT2_DATA_BLOCK_SIZE   \* 4096

NUL == "nul"

\* The low byte of a file type that is not 0, read as a character.
TypeByte == "type"

ASSUME FileSystemAssumption ==
  /\ FILENAME_LEN \in Nat \ {0} /\ NUM_DENTRIES_BOOT \in Nat \ {0}
  /\ EXT2_DATA_BLOCK_SIZE \in Nat \ {0}
  /\ {NUL, TypeByte} \subseteq Chars

Failure == -1

\* The search loop goes one entry too far (64).
SUPERBLOCK_SIZE == NUM_DENTRIES_BOOT + 1

\* filetype
RtcType == 0
DirType == 1
FileType == 2

(***************************************************************************)
(* An image: the entries in use, what lies behind the last possible entry, *)
(* the inodes (inode numbers and block lists start at 0), and the number   *)
(* of data blocks.  Each byte of the data blocks is unlike all others.     *)
(***************************************************************************)
Byte(block, k) == <<block, k>>

NoDentry == [name |-> <<>>, filetype |-> RtcType, inode_num |-> 0]

Dentry(img, i) ==
  IF i = NUM_DENTRIES_BOOT THEN [NoDentry EXCEPT !.name = img.behind]
  ELSE IF i < Len(img.dentries) THEN img.dentries[i + 1] ELSE NoDentry

\* A name or a piece of one: no NUL in it.
IsText(s) == s \in Seq(Chars \ {NUL})

(***************************************************************************)
(* What the code takes for granted of an image: names that fit their field *)
(* and differ, inode numbers of inodes, block lists as long as the files,  *)
(* "." for the directory, and no program in the inode of anything that is  *)
(* not a file (directories and devices have inode number 0 whatever it is, *)
(* and check_exec does not ask for the type).                              *)
(***************************************************************************)
IsImage(img) ==
  /\ img.dentries \in Seq([name : Seq(Chars),
                           filetype : {RtcType, DirType, FileType},
                           inode_num : 0 .. Len(img.inodes) - 1])
  /\ Len(img.dentries) <= NUM_DENTRIES_BOOT
  /\ \A i \in 1 .. Len(img.dentries) : LET d == img.dentries[i] IN
       /\ IsText(d.name) /\ Len(d.name) \in 1 .. FILENAME_LEN
       /\ \A j \in 1 .. Len(img.dentries) : img.dentries[j].name = d.name => j = i
       /\ d.name = <<".">> => d.filetype = DirType
       /\ d.filetype # FileType =>
            LET inode == img.inodes[d.inode_num + 1]
            IN inode.len = 0 \/ inode.data_block_num[1] \notin DOMAIN img.elf
  /\ IsText(img.behind) /\ Len(img.behind) <= FILENAME_LEN
  /\ img.inodes \in Seq([len : Nat, data_block_num : Seq(Nat)])
  /\ \A i \in 1 .. Len(img.inodes) : LET inode == img.inodes[i] IN
       inode.len <= Len(inode.data_block_num) * EXT2_DATA_BLOCK_SIZE
  /\ img.data_block_ct \in Nat
  /\ \A b \in DOMAIN img.elf : b \in Nat /\ img.elf[b] \in {"cat", "ls"}

\* What is read at an entry's filename: the name, and if that fills the field,
\* the low byte of the file type after it.
Filename(d) ==
  LET padded == d.name \o [k \in 1 .. FILENAME_LEN - Len(d.name) |-> NUL]
  IN padded \o <<IF d.filetype = RtcType THEN NUL ELSE TypeByte, NUL>>

CString(s) == s \o <<NUL>>

\* lib.c: strlen; whether strncmp returns 0; strncpy.
strlen(s) == Min({i \in 1 .. Len(s) : s[i] = NUL}) - 1

StrnEqual(s1, s2, n) ==
  LET stops == {i \in 1 .. n : s1[i] # s2[i] \/ s1[i] = NUL}
  IN stops = {} \/ s1[Min(stops)] = s2[Min(stops)]

strncpy(src, n) ==
  LET copied == {i \in 1 .. n : \A j \in 1 .. i : src[j] # NUL}
  IN [i \in 1 .. n |-> IF i \in copied THEN src[i] ELSE NUL]

\* read_dentry_by_index.  InDirectory_TooFar: > for >=.
InDirectory_TooFar(index) == index <= NUM_DENTRIES_BOOT
InDirectory(index) == index < NUM_DENTRIES_BOOT

Found(img, index) == [ok |-> TRUE, dentry |-> Dentry(img, index)]
NotFound == [ok |-> FALSE, dentry |-> NoDentry]

read_dentry_by_index(img, index) ==
  IF InDirectory(index) THEN Found(img, index) ELSE NotFound

\* The length of a name, clipped to the field.  Clipped_Not: it is not.
Clipped_Not(n) == n
Clipped(n) == IF n > FILENAME_LEN THEN FILENAME_LEN ELSE n

read_dentry_by_name(img, fname) ==
  LET len == Clipped(strlen(fname))
      Matches(i) ==
        LET f == Filename(Dentry(img, i))
        IN Clipped(strlen(f)) = len /\ StrnEqual(fname, f, len)
      hits == {i \in 0 .. SUPERBLOCK_SIZE - 1 : Matches(i)}
  IN IF len = 0 \/ hits = {} THEN NotFound
     ELSE read_dentry_by_index(img, Min(hits))

(***************************************************************************)
(* read_data: byte by byte, going to the inode's next block when one is    *)
(* used up, and failing in the middle if the image has no such block.      *)
(* BlockEnds_Late: > for >=.                                               *)
(***************************************************************************)
BlockEnds_Late(byte) == byte > EXT2_DATA_BLOCK_SIZE
BlockEnds(byte) == byte >= EXT2_DATA_BLOCK_SIZE

ReadByte(img, inode, st) ==
  LET next == BlockEnds(st.byte_curr)
      block == IF next THEN st.datablock_curr + 1 ELSE st.datablock_curr
      byte == IF next THEN 0 ELSE st.byte_curr
      num == inode.data_block_num[block + 1]
  IN IF st.n = Failure THEN st
     ELSE IF num >= img.data_block_ct THEN [st EXCEPT !.n = Failure]
     ELSE [n |-> st.n + 1, buf |-> Append(st.buf, Byte(num, byte)),
           datablock_curr |-> block, byte_curr |-> byte + 1]

read_data(img, num, offset, length) ==
  LET inode == img.inodes[num + 1]
      count == IF offset + length > inode.len THEN inode.len - offset ELSE length
      start == [n |-> 0, buf |-> <<>>,
                datablock_curr |-> offset \div EXT2_DATA_BLOCK_SIZE,
                byte_curr |-> offset % EXT2_DATA_BLOCK_SIZE]
      state[i \in 0 .. count] ==
        IF i = 0 THEN start ELSE ReadByte(img, inode, state[i - 1])
  IN IF num >= Len(img.inodes) THEN [start EXCEPT !.n = Failure]
     ELSE IF offset >= inode.len THEN [start EXCEPT !.n = Failure]
     ELSE state[count]

\* file_read and directory_read: the count returned, the bytes, the position.
file_read(img, fd, nbytes) ==
  LET len == img.inodes[fd.inode_num + 1].len
      wanted == IF fd.fpos + nbytes > len THEN len - fd.fpos ELSE nbytes
      got == read_data(img, fd.inode_num, fd.fpos, wanted)
  IN IF fd.fpos >= len THEN [n |-> 0, buf |-> <<>>, fpos |-> fd.fpos]
     ELSE IF got.n = Failure THEN [n |-> Failure, buf |-> <<>>, fpos |-> fd.fpos]
     ELSE [n |-> got.n, buf |-> got.buf, fpos |-> fd.fpos + got.n]

directory_read(img, fd, nbytes) ==
  LET found == read_dentry_by_index(img, fd.fpos)
      name == Filename(found.dentry)
      len == Clipped(strlen(name))
      n == IF nbytes < len THEN nbytes ELSE len
  IN IF ~found.ok THEN [n |-> 0, buf |-> <<>>, fpos |-> fd.fpos]
     ELSE [n |-> n, buf |-> strncpy(name, n), fpos |-> fd.fpos + 1]

(***************************************************************************)
(* For reference: what a file contains, and the entry with a given name.   *)
(***************************************************************************)
Contents(img, num) ==
  LET inode == img.inodes[num + 1]
  IN [k \in 1 .. inode.len |->
        Byte(inode.data_block_num[((k - 1) \div EXT2_DATA_BLOCK_SIZE) + 1],
             (k - 1) % EXT2_DATA_BLOCK_SIZE)]

Truncated(word) == SubSeq(word, 1, IF Len(word) > FILENAME_LEN THEN FILENAME_LEN ELSE Len(word))

Named(img, word) ==
  {img.dentries[i] : i \in {j \in 1 .. Len(img.dentries) :
                              img.dentries[j].name = Truncated(word)}}

Readable(img, num) ==
  LET inode == img.inodes[num + 1]
  IN \A k \in 1 .. inode.len :
       inode.data_block_num[((k - 1) \div EXT2_DATA_BLOCK_SIZE) + 1] < img.data_block_ct

=============================================================================
