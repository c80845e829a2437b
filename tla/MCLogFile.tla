----------------------------- MODULE MCLogFile -----------------------------
(* LogFile for TLC: messages of one and of two lines, limits above and     *)
(* below the length of a batch, one that the width of max_lines_ turns     *)
(* into another, and none.                                                 *)
EXTENDS LogFile

\* The clocks of libc++, of MSVC and of libstdc++, shortened.
MCSkews == {0, -9, 9}

MCBatches == {<<1>>, <<2, 1>>, <<1, 1, 1>>}
=============================================================================
