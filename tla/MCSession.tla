----------------------------- MODULE MCSession -----------------------------
(* Values of the constants of Session for TLC.                             *)
EXTENDS Session

SomeNames == 1 .. 10

SetOf(name, items) == [name |-> name, items |-> items]
Item_(path, data) == [path |-> path, data |-> data]

(* The standard items, with and without data; folders with files below     *)
(* them and twice the same name; sets and items without a name; items that *)
(* are not allowed: they go up or below a file, or need too much memory.   *)
Standard == SetOf(<<STDIO>>, <<Item_(<<ARGV>>, TRUE), Item_(<<STDIN>>, TRUE)>>)
Empty    == SetOf(<<STDIO>>, <<Item_(<<ENVIRON>>, FALSE), Item_(<<X, STDIN>>, TRUE)>>)
Nested   == SetOf(<<OUT>>, <<Item_(<<X, ARGV>>, TRUE), Item_(<<X>>, TRUE)>>)
Twice    == SetOf(<<OUT>>, <<Item_(<<X>>, TRUE), Item_(<<DOT, X>>, TRUE)>>)
Nameless == SetOf(<<>>, <<Item_(<<X>>, TRUE)>>)
NoItem   == SetOf(<<X>>, <<Item_(<<>>, TRUE)>>)
GoesUp   == SetOf(<<X>>, <<Item_(<<DOTDOT, OUT, X>>, TRUE)>>)
Through  == SetOf(<<X>>, <<Item_(<<X>>, TRUE), Item_(<<X, OUT>>, TRUE)>>)
Shadow   == SetOf(<<STDIO>>, <<Item_(<<STDOUT>>, TRUE)>>)
Many     == SetOf(<<OUT>>, <<Item_(<<ARGV>>, TRUE), Item_(<<DEV>>, TRUE), Item_(<<X>>, TRUE)>>)

AllGiven ==
  [inputs: {<<>>, <<Standard>>, <<Empty, Nested>>, <<Twice>>, <<Nameless, NoItem>>, <<Shadow>>,
            <<GoesUp>>, <<Through>>, <<Many>>, <<SetOf(<<DOTDOT>>, <<>>)>>, <<Many, NoItem>>},
   outputs: {<<>>, <<<<OUT>>, <<STDIO>>>>, <<<<DEV>>, <<>>, <<OUT, X>>>>, <<<<DOTDOT>>>>, <<<<X>>>>}]

(* The folder of an output set, a file in it, one next to the device, and  *)
(* one that is open.                                                       *)
SomePaths == {<<OUT>>, <<OUT, ARGV>>, <<DEV, X>>, <<STDIO, STDOUT>>}

NoHandles == {}
Zeroed == {<<0, 0>>}

=============================================================================
