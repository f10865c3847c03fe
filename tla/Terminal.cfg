SPECIFICATION TSpec
CONSTANTS
    a = a
    b = b
    p = p
    s = s
    sp = sp
    Height = 4
    Width = 4
    BootChars <- MCBoot
    Chars <- MCChars
    Blank = sp
    MaxCommand = 7
    Letters <- MCLetters
    Greeting <- MCGreeting
    Prompt <- MCPrompt
    Said <- MCSaid
    ClearCommand <- MCClear
INVARIANT EchoExact
PROPERTY BootLooksLikePaper
