------------------------------ MODULE MCParts ------------------------------
(* Model-checking instance, for safety, of the parts around the cache, the   *)
(* store, the registry and the prefetcher, which have runs of their own.     *)
EXTENDS Parts, Sequences, TLC

(* one directory exists only in some of the contents *)
MCHas == [c \in Contents |-> IF c \in WithFile THEN Prefixes ELSE {CHOOSE p \in Prefixes : TRUE}]

(* Three days in ticks of half a minute, the minutes of a day reduced to     *)
(* three: a plain day, one whose clock is put forward over minute 1, and one *)
(* whose clock is put back from minute 1 to minute 0.                        *)
Day == <<0, 0, 1, 1, 2, 2>>
MCWall ==
    LET minutes == Day \o <<0, 0, 2, 2>> \o <<0, 0, 1, 1>> \o Day
    IN  [t \in 0 .. Len(minutes) - 1 |-> minutes[t + 1]]

(* no window, two windows, and two that are not valid *)
MCSettings == {[rate |-> 5, window |-> w] : w \in {None, <<1, 2>>, <<0, 2>>, <<2, 1>>, <<1, 3>>}}

(* a directory and a single file of the same name, and another single file;  *)
(* the stem and the extension of a video decide what its subtitles are called *)
MCName == <<"a.mkv", "a.mkv", "a.mp4">>
MCSuffixed == <<"a.mkv-1", "a.mkv-2", "a.mp4-3">>
MCSingle == <<FALSE, TRUE, TRUE>>
MCSidecars == <<{}, {"a.srt", "a.ass"}, {"a.srt"}>>
MCDefault == <<"none", "a.srt", "a.srt">>

(* requests and processes are interchangeable; nothing of the other parts is *)
Symmetry == Permutations(Ops) \cup Permutations(Readers) \cup Permutations(Processes)

=============================================================================
