---------------------------- MODULE MCNamespace ----------------------------
(***************************************************************************)
(* Model-checking instance of Namespace alone: three torrents whose videos  *)
(* share the stem "a", one of them a directory, and a category whose name   *)
(* is that of a subtitle.                                                   *)
(***************************************************************************)
EXTENDS Namespace

Names == <<"a.mkv", "a.mkv", "a.mp4">>
SuffixedNames == <<"a.mkv-1", "a.mkv-2", "a.mp4-3">>
SingleFiles == <<FALSE, TRUE, TRUE>>
SidecarNames == <<{}, {"a.srt", "a.ass"}, {"a.srt"}>>
DefaultNames == <<"none", "a.srt", "a.srt">>

=============================================================================
