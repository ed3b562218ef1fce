----------------------------- MODULE MCGenerate -----------------------------
(***************************************************************************)
(* An instance of Generate for TLC.  gdb and clang need two different      *)
(* libzstd.so.1; liblldb and libclang need each other; libresolv is copied *)
(* by name and libc++ late.                                                *)
(***************************************************************************)
EXTENDS Generate

MCLines ==
    [f \in Programs \cup Libs |->
        CASE f = "gdb" -> {"libc", "loader", "zstd", "libpython"}
          [] f = "clang" -> {"libc", "loader", "prefix/zstd", "libclang"}
          [] f = "libclang" -> {"libc", "liblldb"}
          [] f = "liblldb" -> {"libc", "loader", "libclang"}
          [] f \in {"libc", "loader"} -> {}
          [] OTHER -> {"libc"}]

MCName == [l \in Libs |-> IF l = "prefix/zstd" THEN "zstd" ELSE l]
=============================================================================
