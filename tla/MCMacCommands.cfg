SPECIFICATION CommandsSpec
CONSTANTS
    LORA_MAC_COMMAND_MAX_LENGTH = 15
    Answers <- MCRxParamAnswers
    MaxRequests = 2
PROPERTY AnswersAreSent
