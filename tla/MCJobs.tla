------------------------------- MODULE MCJobs -------------------------------
(* A directory for the run of Jobs. *)
EXTENDS Jobs, TLC

\* TLC takes a string for the sequence of its characters.
Chars(s) == [i \in 1 .. Len(s) |-> SubSeq(s, i, i)]

MCCharacters == {Chars("onetwosixhlg.job-bckd/()u0123456789")[i] : i \in 1 .. 35}

file(dots, stem, rest) ==
    [dots |-> Chars(dots), stem |-> Chars(stem), rest |-> Chars(rest)]

\* It takes two portions.  `log.out' is not a job, `tootoolong.job' a path of
\* one character too many, and of `twotwo.job' the backup's number is cut.
MCDirectory == Chars("d")
MCLarge == << <<file("", "log", ".out"), file("", "one", ".job")>>,
              <<file("", "twotwo", ".job"), file("", "six", ".job"),
                file("", "tootoolong", ".job"), file("..", "", "")>> >>
MCNullText == Chars("(null)")
MCNumeral == <<Chars("1"), Chars("2"), Chars("3")>>

MCBackupsIn ==
    [f \in JobFiles |-> IF f.stem \in {Chars("one"), Chars("twotwo")} THEN 2 ELSE 1]
=============================================================================
