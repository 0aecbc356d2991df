------------------------------ MODULE MCShell ------------------------------
(* Instances of Shell for model checking. *)
EXTENDS Shell

Name(text, len) == [text |-> text, len |-> len, num |-> 0]
Num(text, len, num) == [text |-> text, len |-> len, num |-> num]

One == Num("1", 1, 1)
Two == Num("0x82", 4, 130)
Zero == Num("0", 1, 0)
Hundred == Num("100", 3, 100)
Addr == Num("0xDF36", 6, 57142)
Block == Name("F0F0F0F00F0F0F0F", 16)

MCLines == {
    <<Name("reset", 5)>>, <<Name("boot", 4)>>, <<Name("help", 4)>>,
    <<Name("", 0), Name("led", 3), Zero>>,
    <<Name("led", 3)>>, <<Name("led", 3), One>>,
    <<Name("xdata", 5)>>, <<Name("xdata", 5), Addr>>, <<Name("xdata", 5), Addr, Two>>,
    <<Name("pdata", 5)>>, <<Name("pdata", 5), Two>>, <<Name("pdata", 5), Two, One>>,
    <<Name("tx", 2), One, Zero, One>>,
    <<Name("tx", 2), One, Two, One, Name("hello", 5)>>,
    <<Name("tx", 2), One, Two, One, Name("hello", 5), Name("you", 3)>>,
    <<Name("tx", 2), Zero, Zero, Two, Name("long", 40)>>,
    <<Name("teleled", 7), One>>, <<Name("teleled", 7), One, Zero>>,
    <<Name("gfxinit", 7)>>, <<Name("gfxinit", 7), One>>,
    <<Name("gfxtest", 7), One>>,
    <<Name("gfxplot", 7), One, One>>,
    <<Name("gfxplot", 7), Zero, One, One, Name("F0", 2)>>,
    <<Name("gfxplot", 7), Zero, Zero, One, Block>>,
    <<Name("gfxplot", 7), Zero, Hundred, One, Block>> }
=============================================================================
